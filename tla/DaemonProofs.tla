---------------------------- MODULE DaemonProofs ----------------------------
(***************************************************************************)
(* The types of Daemon, the lock of daemonize, what a refused              *)
(* configuration leaves behind and what stop promises a lone operator, for *)
(* any number of processes and operators and whatever is done to the       *)
(* configuration file.                                                     *)
(***************************************************************************)
EXTENDS Daemon, ConfigProofs

ScriptStages == {"idle", "judging", "creating", "launching", "recording",
                 "terminating", "waiting", "removing"}

\* Only a process that is to become a daemon goes for the lock.
ForkedInv == \A p \in Procs : proc[p] \in {"locking", "recording"} => Forks(p)

\* Past lockf() a daemon holds its lock until it is dead.
LockInv ==
  \A p \in Procs :
    (proc[p] \in {"recording", "entering", "serving", "ending"} /\ Forks(p))
      => Lock(p) \in LockFiles /\ lock[Lock(p)] = p

\* Past its pid file it is the one named there.
PidInv ==
  \A p \in Procs :
    (proc[p] \in {"entering", "serving", "ending"} /\ Forks(p)) => pidFile[Lock(p)] = p

DaemonInv == TypeOK /\ ForkedInv /\ LockInv /\ PidInv

LEMMA EditionFacts ==
  /\ Cardinality(Procs) \in Nat
  /\ 0 \notin DOMAIN Editions
<1>1. Cardinality(Procs) \in Nat
  BY DaemonAssumption, FS_CardinalityType
<1>2. DOMAIN Editions = 1..Len(Editions)
  BY DaemonAssumption
<1> QED
  BY <1>1, <1>2

LEMMA InitDaemonInv == Init => DaemonInv
<1> SUFFICES ASSUME Init PROVE DaemonInv
  OBVIOUS
<1>0. operators \subseteq Operators /\ edition \in DOMAIN Editions
  BY DaemonAssumption DEF Init
<1>1. TypeOK
  BY <1>0, EditionFacts DEF Init, TypeOK, Stages
<1>2. ForkedInv /\ LockInv /\ PidInv
  BY DEF Init, ForkedInv, LockInv, PidInv
<1> QED
  BY <1>1, <1>2 DEF DaemonInv

-----------------------------------------------------------------------------
(* Deaths.                                                                 *)

\* The variables that DaemonInv is about besides its types.
wrapperVars == <<conf, proc, lock, pidFile>>

LEMMA SameWrappers ==
  ASSUME DaemonInv, UNCHANGED wrapperVars
  PROVE  ForkedInv' /\ LockInv' /\ PidInv'
  BY DEF wrapperVars, DaemonInv, ForkedInv, LockInv, PidInv, Forks, Lock, Conf

\* A death leaves every lock with whoever else holds it.
LEMMA DeathKeepsInv ==
  ASSUME DaemonInv, NEW p \in Procs, Alive(p), Dies(p), UNCHANGED pidFile
  PROVE  /\ proc' \in [Procs -> Stages]
         /\ conf' \in [Procs -> {0} \cup DOMAIN Editions]
         /\ \A q \in Procs : conf'[q] = 0 <=> proc'[q] \in {"unborn", "loading", "dead"}
         /\ lock' \in [LockFiles -> Procs \cup {Nobody}]
         /\ out' \subseteq Procs /\ ahead' \subseteq Procs
         /\ ForkedInv' /\ LockInv' /\ PidInv'
<1>1. /\ \A q \in Procs : q # p => proc'[q] = proc[q] /\ conf'[q] = conf[q]
      /\ proc'[p] = "dead" /\ conf'[p] = 0
      /\ proc' \in [Procs -> Stages]
      /\ conf' \in [Procs -> {0} \cup DOMAIN Editions]
  BY DEF Dies, DaemonInv, TypeOK, Stages
<1>2. \A q \in Procs : conf'[q] = 0 <=> proc'[q] \in {"unborn", "loading", "dead"}
  BY <1>1 DEF DaemonInv, TypeOK
<1>3. lock' \in [LockFiles -> Procs \cup {Nobody}]
  BY DEF Dies, DaemonInv, TypeOK
<1>4. \A q \in Procs : q # p => Forks(q)' = Forks(q) /\ Lock(q)' = Lock(q)
  BY <1>1 DEF Forks, Lock, Conf
<1>5. ForkedInv'
  BY <1>1, <1>4 DEF DaemonInv, ForkedInv
<1>6. LockInv'
  <2> SUFFICES ASSUME NEW q \in Procs, proc'[q] \in {"recording", "entering", "serving", "ending"},
                      Forks(q)'
               PROVE  (Lock(q) \in LockFiles)' /\ lock'[Lock(q)'] = q
    BY DEF LockInv
  <2>1. q # p /\ proc'[q] = proc[q] /\ Forks(q) /\ Lock(q)' = Lock(q)
    BY <1>1, <1>4
  <2>2. Lock(q) \in LockFiles /\ lock[Lock(q)] = q
    BY <2>1 DEF DaemonInv, LockInv
  <2> QED
    BY <2>1, <2>2 DEF Dies, LockFiles
<1>7. PidInv'
  BY <1>1, <1>4 DEF DaemonInv, PidInv
<1>8. out' \subseteq Procs /\ ahead' \subseteq Procs
  BY DEF Dies, Ends, Closes, outputVars, DaemonInv, TypeOK
<1> QED
  BY <1>1, <1>2, <1>3, <1>5, <1>6, <1>7, <1>8

\* A step that ends one process and does nothing else of the wrappers.
LEMMA DeathStep ==
  ASSUME DaemonInv, NEW p \in Procs, Alive(p), Dies(p),
         UNCHANGED <<edition, pidFile, scriptFile, scriptVars, apps>>
  PROVE  DaemonInv'
<1>1. /\ proc' \in [Procs -> Stages]
      /\ conf' \in [Procs -> {0} \cup DOMAIN Editions]
      /\ \A q \in Procs : conf'[q] = 0 <=> proc'[q] \in {"unborn", "loading", "dead"}
      /\ lock' \in [LockFiles -> Procs \cup {Nobody}]
      /\ out' \subseteq Procs /\ ahead' \subseteq Procs
      /\ ForkedInv' /\ LockInv' /\ PidInv'
  BY DeathKeepsInv
<1>2. TypeOK'
  BY <1>1 DEF DaemonInv, TypeOK, scriptFile, scriptVars
<1> QED
  BY <1>1, <1>2 DEF DaemonInv

-----------------------------------------------------------------------------
(* The wrapper.                                                            *)

\* Whoever has read a service name has a lock file.
LEMMA HasLockFile ==
  ASSUME DaemonInv, NEW p \in Procs, conf[p] # 0, Has(Conf(p), NameKeys)
  PROVE  Lock(p) \in LockFiles
<1>1. conf[p] \in DOMAIN Editions
  BY DEF DaemonInv, TypeOK
<1> QED
  BY <1>1 DEF Lock, LockFiles, Conf

LEMMA WrapperKeepsInv ==
  ASSUME DaemonInv, Wrapper
  PROVE  DaemonInv'
<1> PICK p \in Procs :
      \/ Load(p) \/ Prints(p) \/ KeyMissing(p)
      \/ Fork(p) \/ ForkFails(p) \/ NoFork(p) \/ TakeLock(p) \/ LockRefused(p)
      \/ RecordPid(p) \/ FileFails(p) \/ Enter(p)
      \/ AppStarts(p) \/ AppEnds(p) \/ WrapperEnds(p)
  BY DEF Wrapper
<1> USE DEF DaemonInv
<1>1. CASE KeyMissing(p) \/ ForkFails(p) \/ LockRefused(p) \/ FileFails(p) \/ WrapperEnds(p)
  <2>1. /\ Alive(p) /\ Dies(p)
        /\ UNCHANGED <<edition, pidFile, scriptFile, scriptVars, apps>>
    BY <1>1 DEF KeyMissing, ForkFails, LockRefused, FileFails, WrapperEnds, Alive
  <2> QED
    BY <2>1, DeathStep
<1>2. CASE Fork(p)
  <2> PICK c \in Unborn :
        /\ proc' = [proc EXCEPT ![p] = "dead", ![c] = "locking"]
        /\ conf' = [conf EXCEPT ![p] = 0, ![c] = conf[p]]
    BY <1>2 DEF Fork
  <2>1. c \in Procs /\ proc[c] = "unborn" /\ p # c /\ proc[p] = "boot"
    BY <1>2 DEF Unborn, Fork
  <2>2. /\ \A q \in Procs \ {p, c} : proc'[q] = proc[q] /\ conf'[q] = conf[q]
        /\ proc'[p] = "dead" /\ conf'[p] = 0
        /\ proc'[c] = "locking" /\ conf'[c] = conf[p]
        /\ proc' \in [Procs -> Stages]
        /\ conf' \in [Procs -> {0} \cup DOMAIN Editions]
    BY <2>1 DEF TypeOK, Stages
  <2>3. TypeOK'
    <3>1. \A q \in Procs : conf'[q] = 0 <=> proc'[q] \in {"unborn", "loading", "dead"}
      BY <2>1, <2>2 DEF TypeOK
    <3>2. out' \subseteq Procs /\ ahead' \subseteq Procs
      BY <1>2 DEF Fork, Ends, Closes, outputVars, TypeOK
    <3> QED
      BY <1>2, <2>2, <3>1, <3>2 DEF TypeOK, Fork, daemonVars, scriptFile, scriptVars
  <2>4. \A q \in Procs \ {p, c} : Forks(q)' = Forks(q) /\ Lock(q)' = Lock(q)
    BY <2>2 DEF Forks, Lock, Conf
  <2>5. Forks(c)'
    BY <1>2, <2>2 DEF Forks, Conf, Fork
  <2>6. ForkedInv'
    BY <2>2, <2>4, <2>5 DEF ForkedInv
  <2>7. lock' = lock /\ pidFile' = pidFile /\ LockFiles' = LockFiles
    BY <1>2 DEF Fork, daemonVars, LockFiles
  <2>8. \A q \in Procs :
          proc'[q] \in {"recording", "entering", "serving", "ending"}
            => q # c /\ q # p /\ proc'[q] = proc[q]
    BY <2>2
  <2>9. LockInv'
    BY <2>4, <2>7, <2>8 DEF LockInv
  <2>10. PidInv'
    BY <2>4, <2>7, <2>8 DEF PidInv
  <2> QED
    BY <2>3, <2>6, <2>9, <2>10
<1>3. ASSUME \/ NoFork(p) \/ TakeLock(p) \/ RecordPid(p) \/ Enter(p)
      PROVE  /\ \A q \in Procs \ {p} : proc'[q] = proc[q]
             /\ \A q \in Procs : Forks(q)' = Forks(q) /\ Lock(q)' = Lock(q)
  BY <1>3 DEF NoFork, TakeLock, RecordPid, Enter, TypeOK, Forks, Lock, Conf
<1>4. CASE NoFork(p)
  <2>1. TypeOK' /\ proc'[p] = "entering" /\ ~Forks(p)
    BY <1>4 DEF TypeOK, NoFork, Stages, daemonVars, scriptFile, scriptVars, outputVars
  <2> QED
    BY <1>3, <1>4, <2>1 DEF ForkedInv, LockInv, PidInv, NoFork, daemonVars
<1>5. CASE TakeLock(p)
  <2>1. Lock(p) \in LockFiles
    BY <1>5, HasLockFile DEF TakeLock, TypeOK
  <2>2. /\ proc[p] = "locking" /\ proc'[p] = "recording" /\ Forks(p)
        /\ lock[Lock(p)] = Nobody /\ lock'[Lock(p)] = p
        /\ \A f \in LockFiles \ {Lock(p)} : lock'[f] = lock[f]
    BY <1>5, <2>1 DEF TakeLock, TypeOK, ForkedInv
  <2>3. TypeOK'
    BY <1>5 DEF TypeOK, TakeLock, Stages, scriptFile, scriptVars, outputVars
  <2>4. ForkedInv' /\ PidInv'
    BY <1>3, <1>5, <2>2 DEF ForkedInv, PidInv, TakeLock
  <2>5. LockInv'
    BY <1>3, <1>5, <2>1, <2>2, DaemonAssumption DEF LockInv
  <2> QED
    BY <2>3, <2>4, <2>5
<1>6. CASE RecordPid(p)
  <2>1. /\ proc[p] = "recording" /\ proc'[p] = "entering" /\ Forks(p)
        /\ Lock(p) \in LockFiles /\ lock[Lock(p)] = p /\ lock' = lock
    BY <1>6 DEF RecordPid, TypeOK, ForkedInv, LockInv
  <2>2. /\ pidFile'[Lock(p)] = p
        /\ \A f \in LockFiles \ {Lock(p)} : pidFile'[f] = pidFile[f]
    BY <1>6, <2>1 DEF RecordPid, TypeOK
  <2>3. TypeOK'
    BY <1>6 DEF TypeOK, RecordPid, Stages, scriptFile, scriptVars, outputVars
  <2>4. ForkedInv' /\ LockInv'
    BY <1>3, <1>6, <2>1 DEF ForkedInv, LockInv
  <2>5. PidInv'
    BY <1>3, <1>6, <2>1, <2>2 DEF PidInv, LockInv
  <2> QED
    BY <2>3, <2>4, <2>5
<1>7. CASE Enter(p)
  <2>1. TypeOK' /\ proc[p] = "entering" /\ proc'[p] = "serving"
    BY <1>7 DEF TypeOK, Enter, Stages, daemonVars, scriptFile, scriptVars, outputVars
  <2> QED
    BY <1>3, <1>7, <2>1 DEF ForkedInv, LockInv, PidInv, Enter, daemonVars
<1>8. CASE AppStarts(p) \/ AppEnds(p) \/ Prints(p)
  <2>1. TypeOK'
    BY <1>8 DEF TypeOK, AppStarts, AppEnds, Prints, daemonVars, scriptFile, scriptVars,
                outputVars
  <2>2. UNCHANGED wrapperVars
    BY <1>8 DEF AppStarts, AppEnds, Prints, wrapperVars, daemonVars
  <2> QED
    BY <2>1, <2>2, SameWrappers
<1>9. CASE Load(p)
  <2>1. /\ proc[p] = "loading" /\ proc'[p] = "boot"
        /\ \A q \in Procs \ {p} : proc'[q] = proc[q] /\ conf'[q] = conf[q]
        /\ lock' = lock /\ pidFile' = pidFile /\ LockFiles' = LockFiles
    BY <1>9 DEF Load, TypeOK, daemonVars, LockFiles
  <2>2. TypeOK'
    <3>1. recorded' \in Procs \cup {Nobody, Output} /\ ahead' \subseteq Procs
      BY <1>9 DEF Load, Writes, TypeOK
    <3>2. \A q \in Procs : conf'[q] = 0 <=> proc'[q] \in {"unborn", "loading", "dead"}
      BY <1>9, <2>1, EditionFacts DEF Load, TypeOK
    <3> QED
      BY <1>9, <3>1, <3>2 DEF Load, TypeOK, Stages, daemonVars, scriptVars
  <2>3. \A q \in Procs \ {p} : Forks(q)' = Forks(q) /\ Lock(q)' = Lock(q)
    BY <2>1 DEF Forks, Lock, Conf
  <2> QED
    BY <2>1, <2>2, <2>3 DEF ForkedInv, LockInv, PidInv
<1> QED
  BY <1>1, <1>2, <1>4, <1>5, <1>6, <1>7, <1>8, <1>9

-----------------------------------------------------------------------------
(* The script.                                                             *)

\* What a run of the script does to no process keeps the invariant when it keeps
\* the types of its own variables.
LEMMA ScriptStep ==
  ASSUME DaemonInv, UNCHANGED <<edition, wrapperVars, operators, apps>>,
         file' \in BOOLEAN,
         recorded' \in Procs \cup {Nobody, Output},
         script' \in [Operators -> ScriptStages],
         held' \in [Operators -> Procs \cup {Nobody, Output}],
         opened' \subseteq Operators, out' \subseteq Procs, ahead' \subseteq Procs
  PROVE  DaemonInv'
<1>1. TypeOK'
  BY DEF DaemonInv, TypeOK, wrapperVars, ScriptStages
<1> QED
  BY <1>1, SameWrappers DEF DaemonInv

\* A signal that ends its process.
LEMMA KillStep ==
  ASSUME DaemonInv, NEW k, Alive(k), Dies(k),
         script' \in [Operators -> ScriptStages],
         UNCHANGED <<edition, pidFile, scriptFile, operators, held, apps>>
  PROVE  DaemonInv'
<1>1. k \in Procs
  BY DEF Alive
<1>2. /\ proc' \in [Procs -> Stages]
      /\ conf' \in [Procs -> {0} \cup DOMAIN Editions]
      /\ \A q \in Procs : conf'[q] = 0 <=> proc'[q] \in {"unborn", "loading", "dead"}
      /\ lock' \in [LockFiles -> Procs \cup {Nobody}]
      /\ out' \subseteq Procs /\ ahead' \subseteq Procs
      /\ ForkedInv' /\ LockInv' /\ PidInv'
  BY <1>1, DeathKeepsInv
<1>3. TypeOK'
  BY <1>2 DEF DaemonInv, TypeOK, scriptFile, ScriptStages
<1> QED
  BY <1>2, <1>3 DEF DaemonInv

LEMMA ScriptKeepsInv ==
  ASSUME DaemonInv, Script
  PROVE  DaemonInv'
<1> PICK o \in operators :
      \/ StartReads(o) \/ AlreadyRunning(o) \/ RemoveStale(o) \/ Create(o)
      \/ Launch(o) \/ Record(o)
      \/ StopReads(o) \/ Terminate(o) \/ WaitEnds(o) \/ WaitExpires(o) \/ RemoveFile(o)
  BY DEF Script
<1>o. o \in Operators
  BY DEF DaemonInv, TypeOK
<1>t. /\ TypeOK
      /\ script \in [Operators -> ScriptStages]
      /\ script'[o] \in ScriptStages /\ script' = [script EXCEPT ![o] = script'[o]]
        => script' \in [Operators -> ScriptStages]
  BY <1>o DEF DaemonInv, TypeOK, ScriptStages
<1>1. CASE StartReads(o) \/ StopReads(o) \/ AlreadyRunning(o) \/ WaitEnds(o)
  <2>1. /\ UNCHANGED <<edition, wrapperVars, operators, apps, scriptFile, outputVars>>
        /\ script' \in [Operators -> ScriptStages]
        /\ held' \in [Operators -> Procs \cup {Nobody, Output}]
    BY <1>1, <1>t, <1>o DEF StartReads, StopReads, AlreadyRunning, WaitEnds, wrapperVars, daemonVars,
                      TypeOK, ScriptStages
  <2> QED
    BY <2>1, <1>t, ScriptStep DEF TypeOK, scriptFile, outputVars
<1>2. CASE RemoveStale(o) \/ RemoveFile(o)
  <2>1. /\ UNCHANGED <<edition, wrapperVars, operators, apps, ahead>>
        /\ script' \in [Operators -> ScriptStages]
        /\ held' \in [Operators -> Procs \cup {Nobody, Output}]
        /\ file' = FALSE /\ recorded' = Nobody /\ opened' = {} /\ out' = {}
    BY <1>2, <1>t, <1>o DEF RemoveStale, RemoveFile, Unlinks, wrapperVars, daemonVars, TypeOK,
                            ScriptStages
  <2> QED
    BY <2>1, <1>t, ScriptStep DEF TypeOK
<1>3. CASE Create(o)
  <2>1. /\ UNCHANGED <<edition, wrapperVars, operators, apps, held, out, ahead>>
        /\ script' \in [Operators -> ScriptStages]
        /\ file' = TRUE /\ recorded' = Nobody /\ opened' = opened \cup {o}
    BY <1>3, <1>t, <1>o DEF Create, wrapperVars, daemonVars, ScriptStages
  <2> QED
    BY <2>1, <1>t, <1>o, ScriptStep DEF TypeOK
<1>4. CASE Record(o)
  <2>1. /\ UNCHANGED <<edition, wrapperVars, operators, apps, file, opened>>
        /\ script' \in [Operators -> ScriptStages]
        /\ held' \in [Operators -> Procs \cup {Nobody, Output}]
        /\ recorded' \in Procs \cup {Nobody, Output}
    BY <1>4, <1>t, <1>o DEF Record, Writes, wrapperVars, daemonVars, TypeOK, ScriptStages
  <2>2. out' \subseteq Procs /\ ahead' \subseteq Procs
    BY <1>4, <1>t DEF Record, Closes, outputVars, TypeOK
  <2> QED
    BY <2>1, <2>2, <1>t, ScriptStep DEF TypeOK
<1>5. CASE Launch(o)
  <2> PICK p \in Unborn :
        /\ proc' = [proc EXCEPT ![p] = "loading"]
        /\ out' = IF o \in opened THEN out \cup {p} ELSE out
        /\ held' = [held EXCEPT ![o] = p]
    BY <1>5 DEF Launch
  <2>1. /\ p \in Procs /\ proc'[p] = "loading" /\ conf' = conf /\ conf[p] = 0
        /\ \A q \in Procs \ {p} : proc'[q] = proc[q]
        /\ lock' = lock /\ pidFile' = pidFile
    BY <1>5, <1>t DEF Unborn, TypeOK, Launch, daemonVars
  <2>2. \A q \in Procs : Forks(q)' = Forks(q) /\ Lock(q)' = Lock(q)
    BY <2>1 DEF Forks, Lock, Conf
  <2>3. TypeOK'
    <3>1. \A q \in Procs : conf'[q] = 0 <=> proc'[q] \in {"unborn", "loading", "dead"}
      BY <2>1, <1>t DEF TypeOK
    <3>2. /\ proc' \in [Procs -> Stages]
          /\ held' \in [Operators -> Procs \cup {Nobody, Output}]
          /\ script' \in [Operators -> ScriptStages]
          /\ opened' \subseteq Operators /\ out' \subseteq Procs
      BY <1>5, <2>1, <1>t, <1>o DEF TypeOK, Launch, Stages, ScriptStages
    <3> QED
      BY <1>5, <3>1, <3>2, <1>t DEF TypeOK, Launch, daemonVars, ScriptStages
  <2> QED
    BY <2>1, <2>2, <2>3 DEF DaemonInv, ForkedInv, LockInv, PidInv, LockFiles
<1>6. CASE Terminate(o)
  <2>0. /\ script' \in [Operators -> ScriptStages]
        /\ UNCHANGED <<edition, pidFile, scriptFile, operators, held, apps>>
    BY <1>6, <1>t, <1>o DEF Terminate, ScriptStages
  <2>1. CASE ~Alive(held[o])
    <3>1. UNCHANGED <<conf, proc, lock, outputVars>>
      BY <1>6, <2>1 DEF Terminate
    <3> QED
      BY <2>0, <3>1, <1>t, ScriptStep DEF TypeOK, scriptFile, outputVars, wrapperVars
  <2>2. CASE Alive(held[o]) /\ proc[held[o]] \in {"serving", "ending"}
    <3>1. /\ proc' = [proc EXCEPT ![held[o]] = "ending"] /\ held[o] \in Procs
          /\ UNCHANGED <<conf, lock, outputVars>>
      BY <1>6, <2>2 DEF Terminate, Alive
    <3>2. /\ \A q \in Procs : q # held[o] => proc'[q] = proc[q]
          /\ proc'[held[o]] = "ending" /\ proc' \in [Procs -> Stages]
      BY <3>1, <1>t DEF TypeOK, Stages
    <3>3. \A q \in Procs : conf'[q] = 0 <=> proc'[q] \in {"unborn", "loading", "dead"}
      BY <2>2, <3>1, <3>2, <1>t DEF TypeOK
    <3>4. TypeOK'
      BY <2>0, <3>1, <3>2, <3>3, <1>t DEF TypeOK, scriptFile, outputVars, ScriptStages
    <3>5. \A q \in Procs : Forks(q)' = Forks(q) /\ Lock(q)' = Lock(q)
      BY <3>1 DEF Forks, Lock, Conf
    <3> QED
      BY <2>0, <2>2, <3>1, <3>2, <3>4, <3>5 DEF DaemonInv, ForkedInv, LockInv, PidInv, LockFiles
  <2>3. CASE Alive(held[o]) /\ proc[held[o]] \notin {"serving", "ending"}
    <3>1. Dies(held[o])
      BY <1>6, <2>3 DEF Terminate
    <3> QED
      BY <2>0, <2>3, <3>1, KillStep
  <2> QED
    BY <2>1, <2>2, <2>3
<1>7. CASE WaitExpires(o)
  <2>0. /\ script' \in [Operators -> ScriptStages]
        /\ UNCHANGED <<edition, pidFile, scriptFile, operators, held, apps>>
    BY <1>7, <1>t, <1>o DEF WaitExpires, ScriptStages
  <2>1. CASE ~Alive(held[o])
    <3>1. UNCHANGED <<conf, proc, lock, outputVars>>
      BY <1>7, <2>1 DEF WaitExpires
    <3> QED
      BY <2>0, <3>1, <1>t, ScriptStep DEF TypeOK, scriptFile, outputVars, wrapperVars
  <2>2. CASE Alive(held[o])
    <3>1. Dies(held[o])
      BY <1>7, <2>2 DEF WaitExpires
    <3> QED
      BY <2>0, <2>2, <3>1, KillStep
  <2> QED
    BY <2>1, <2>2
<1> QED
  BY <1>1, <1>2, <1>3, <1>4, <1>5, <1>6, <1>7

LEMMA NextDaemonInv == DaemonInv /\ [Next]_vars => DaemonInv'
<1> SUFFICES ASSUME DaemonInv, [Next]_vars
             PROVE  DaemonInv'
  OBVIOUS
<1>1. CASE Wrapper
  BY <1>1, WrapperKeepsInv
<1>2. CASE Script
  BY <1>2, ScriptKeepsInv
<1>3. CASE Edit
  <2>1. edition' \in DOMAIN Editions
        /\ UNCHANGED <<conf, proc, daemonVars, scriptFile, scriptVars, outputVars, apps>>
    BY <1>3 DEF Edit
  <2>2. TypeOK'
    BY <2>1 DEF DaemonInv, TypeOK, daemonVars, scriptFile, scriptVars, outputVars
  <2> QED
    BY <2>1, <2>2, SameWrappers DEF DaemonInv, wrapperVars, daemonVars
<1>4. CASE UNCHANGED vars
  <2>1. TypeOK'
    BY <1>4 DEF vars, DaemonInv, TypeOK, daemonVars, scriptFile, scriptVars, outputVars
  <2>2. UNCHANGED wrapperVars
    BY <1>4 DEF vars, wrapperVars, daemonVars
  <2> QED
    BY <2>1, <2>2, SameWrappers DEF DaemonInv
<1> QED
  BY <1>1, <1>2, <1>3, <1>4 DEF Next

-----------------------------------------------------------------------------
(* What a wrapper that refuses its configuration leaves behind.            *)

\* An application was launched by a wrapper that had read all the keys of the
\* process monitor and has not gone back since.
LaunchedInv ==
  \A p \in apps :
    /\ Alive(p) => Has(Conf(p), MonitorKeys)
    /\ proc[p] \in {"serving", "ending", "dead"}

\* A wrapper that is alive keeps the configuration it has read, and its place in
\* the script's pid file; it never goes back from its threads and stays dead.
LEMMA WrappersGoOn ==
  ASSUME DaemonInv, [Next]_vars, NEW p \in Procs, proc[p] # "unborn"
  PROVE  /\ proc'[p] # "unborn"
         /\ conf[p] # 0 /\ Alive(p)' => conf'[p] = conf[p]
         /\ p \in ahead /\ Alive(p)' => p \in ahead'
         /\ proc[p] \in {"serving", "ending", "dead"}
              => proc'[p] \in {"serving", "ending", "dead"}
         /\ ~Alive(p) => ~Alive(p)'
<1> USE DEF DaemonInv, TypeOK, Alive
<1>1. CASE Edit \/ UNCHANGED vars
  BY <1>1 DEF Edit, vars, outputVars
<1>2. CASE Wrapper
  <2> PICK q \in Procs :
        \/ Load(q) \/ Prints(q) \/ KeyMissing(q)
        \/ Fork(q) \/ ForkFails(q) \/ NoFork(q) \/ TakeLock(q) \/ LockRefused(q)
        \/ RecordPid(q) \/ FileFails(q) \/ Enter(q)
        \/ AppStarts(q) \/ AppEnds(q) \/ WrapperEnds(q)
    BY <1>2 DEF Wrapper
  <2>1. CASE KeyMissing(q) \/ ForkFails(q) \/ LockRefused(q) \/ FileFails(q) \/ WrapperEnds(q)
    <3>1. Dies(q)
      BY <2>1 DEF KeyMissing, ForkFails, LockRefused, FileFails, WrapperEnds
    <3> QED
      BY <3>1 DEF Dies, Ends, Closes, outputVars
  <2>2. CASE Fork(q)
    BY <2>2 DEF Fork, Unborn, Ends, Closes, outputVars
  <2>3. CASE NoFork(q) \/ TakeLock(q) \/ RecordPid(q) \/ Enter(q)
    BY <2>3 DEF NoFork, TakeLock, RecordPid, Enter, outputVars
  <2>4. CASE AppStarts(q) \/ AppEnds(q) \/ Prints(q)
    BY <2>4 DEF AppStarts, AppEnds, Prints, outputVars
  <2>5. CASE Load(q)
    BY <2>5 DEF Load
  <2> QED
    BY <2>1, <2>2, <2>3, <2>4, <2>5
<1>3. CASE Script
  <2> PICK o \in operators :
        \/ StartReads(o) \/ AlreadyRunning(o) \/ RemoveStale(o) \/ Create(o)
        \/ Launch(o) \/ Record(o)
        \/ StopReads(o) \/ Terminate(o) \/ WaitEnds(o) \/ WaitExpires(o) \/ RemoveFile(o)
    BY <1>3 DEF Script
  <2>1. CASE \/ StartReads(o) \/ AlreadyRunning(o) \/ RemoveStale(o) \/ Create(o)
             \/ StopReads(o) \/ WaitEnds(o) \/ RemoveFile(o)
    BY <2>1 DEF StartReads, AlreadyRunning, RemoveStale, Create, StopReads,
                WaitEnds, RemoveFile, outputVars
  <2>2. CASE Launch(o)
    BY <2>2 DEF Launch, Unborn
  <2>3. CASE Record(o)
    BY <2>3 DEF Record, Closes, outputVars
  <2>4. CASE Terminate(o) \/ WaitExpires(o)
    BY <2>4 DEF Terminate, WaitExpires, Dies, Ends, Closes, outputVars
  <2> QED
    BY <2>1, <2>2, <2>3, <2>4
<1> QED
  BY <1>1, <1>2, <1>3 DEF Next

\* The only step that adds an application.
LEMMA LaunchesOnly ==
  ASSUME [Next]_vars, NEW p \in apps', p \notin apps
  PROVE  AppStarts(p)
<1>1. ASSUME NEW q \in Procs, AppStarts(q) PROVE AppStarts(p)
  BY <1>1 DEF AppStarts
<1>2. \A q \in Procs : ~AppStarts(q) =>
        ~(\/ Load(q) \/ Prints(q) \/ KeyMissing(q)
          \/ Fork(q) \/ ForkFails(q) \/ NoFork(q) \/ TakeLock(q) \/ LockRefused(q)
          \/ RecordPid(q) \/ FileFails(q) \/ Enter(q) \/ AppEnds(q) \/ WrapperEnds(q))
  BY DEF Load, Prints, KeyMissing, Fork, ForkFails, NoFork, TakeLock, LockRefused, RecordPid,
         FileFails, Enter, AppEnds, WrapperEnds
<1>3. ~Edit /\ ~UNCHANGED vars
  BY DEF Edit, vars
<1>4. ~Script
  BY DEF Script, StartReads, AlreadyRunning, RemoveStale, Create, Launch, Record,
         StopReads, Terminate, WaitEnds, WaitExpires, RemoveFile
<1> QED
  BY <1>1, <1>2, <1>3, <1>4 DEF Next, Wrapper

LEMMA NextLaunchedInv ==
  ASSUME DaemonInv, LaunchedInv, [Next]_vars
  PROVE  LaunchedInv'
<1> SUFFICES ASSUME NEW p \in apps'
             PROVE  /\ Alive(p)' => Has(Conf(p), MonitorKeys)'
                    /\ proc'[p] \in {"serving", "ending", "dead"}
  BY DEF LaunchedInv
<1>1. CASE p \in apps
  <2>1. /\ p \in Procs
        /\ Alive(p) => Has(Conf(p), MonitorKeys)
        /\ proc[p] \in {"serving", "ending", "dead"}
        /\ Alive(p) => conf[p] # 0
    BY <1>1 DEF LaunchedInv, DaemonInv, TypeOK, Alive
  <2>2. /\ proc'[p] \in {"serving", "ending", "dead"}
        /\ Alive(p)' => Alive(p) /\ conf'[p] = conf[p]
    BY <2>1, WrappersGoOn
  <2> QED
    BY <2>1, <2>2 DEF Conf
<1>2. CASE p \notin apps
  <2>1. AppStarts(p)
    BY <1>2, LaunchesOnly
  <2> QED
    BY <2>1 DEF AppStarts, Conf
<1> QED
  BY <1>1, <1>2

\* A wrapper whose application runs can only miss what is read after the first
\* thread has been made.
LEMMA LaunchedMisses ==
  ASSUME DaemonInv, LaunchedInv, NEW p \in apps, KeyMissing(p)
  PROVE  KeysRead(p) \ DOMAIN Conf(p)
           \subseteq {"ping.enableHealthCheck"} \cup HealthKeys \cup HealthAPIKeys
<1>1. MonitorKeys \subseteq DOMAIN Conf(p)
  BY DEF LaunchedInv, Has, KeyMissing
<1>2. proc[p] \in {"serving", "ending"}
  BY DEF LaunchedInv, KeyMissing, Alive
<1>3. KeysRead(p) \subseteq ThreadKeys(Conf(p))
  BY <1>2 DEF KeysRead
<1>4. ThreadKeys(Conf(p))
        \subseteq {"ping.enableHealthCheck"} \cup MonitorKeys \cup HealthKeys \cup HealthAPIKeys
  BY DEF ThreadKeys
<1> QED
  BY <1>1, <1>3, <1>4

\* What is read on the way is among what readConfig looks for.
LEMMA KeysReadAreKeys ==
  ASSUME NEW p \in Procs
  PROVE  KeysRead(p) \subseteq Keys \ Accumulated
<1>1. /\ BootKeys \cup NameKeys \cup RunKeys \subseteq Keys \ Accumulated
      /\ {"ping.enableHealthCheck"} \cup MonitorKeys \subseteq Keys \ Accumulated
      /\ HealthKeys \cup HealthAPIKeys \subseteq Keys \ Accumulated
  BY DEF Keys, Accumulated, BootKeys, ConstructorKeys, NameKeys, RunKeys, MonitorKeys,
         HealthKeys, HealthAPIKeys
<1>2. ThreadKeys(Conf(p)) \subseteq Keys \ Accumulated
  BY <1>1 DEF ThreadKeys
<1> QED
  BY <1>1, <1>2 DEF KeysRead

-----------------------------------------------------------------------------
(* What stop promises a lone operator.                                     *)

\* The wrappers that run in the foreground, but for those whose output is where
\* their pid should be.
Foreground == {p \in Procs : Alive(p) /\ ~Forks(p) /\ p \notin ahead}

\* The file names the one such wrapper there may be, but for the time the script
\* takes from making the file to writing the pid into it.
Named(o) ==
  /\ script[o] \in {"idle", "judging", "terminating", "waiting"}
       => \A p \in Foreground : file /\ recorded = p
  /\ script[o] \in {"judging", "terminating", "waiting"}
       => \A p \in Foreground : held[o] = p
  /\ script[o] \in {"creating", "launching", "removing"} => Foreground = {}
  /\ script[o] = "launching" => file /\ o \in opened
  /\ script[o] = "recording" => file /\ held[o] \in out /\ Foreground \subseteq {held[o]}

AloneInv == \A o \in Operators : operators = {o} => Named(o)

\* Who makes a process.
LEMMA BornByForkOrLaunch ==
  ASSUME DaemonInv, [Next]_vars, NEW p \in Procs, proc[p] = "unborn", proc'[p] # "unborn"
  PROVE  (\E q \in Procs : Fork(q)) \/ \E o \in operators : Launch(o)
<1> USE DEF DaemonInv, TypeOK
<1>1. ~Edit /\ ~UNCHANGED vars
  BY DEF Edit, vars
<1>2. \A q \in Procs :
        ~(\/ Load(q) \/ Prints(q) \/ KeyMissing(q) \/ ForkFails(q) \/ NoFork(q)
          \/ TakeLock(q) \/ LockRefused(q)
          \/ RecordPid(q) \/ FileFails(q) \/ Enter(q)
          \/ AppStarts(q) \/ AppEnds(q) \/ WrapperEnds(q))
  BY DEF Load, Prints, KeyMissing, ForkFails, NoFork, TakeLock, LockRefused, RecordPid,
         FileFails, Enter, AppStarts, AppEnds, WrapperEnds, Dies, Alive
<1>3. \A o \in operators :
        ~(\/ StartReads(o) \/ AlreadyRunning(o) \/ RemoveStale(o) \/ Create(o) \/ Record(o)
          \/ StopReads(o) \/ WaitEnds(o) \/ RemoveFile(o))
  BY DEF StartReads, AlreadyRunning, RemoveStale, Create, Record, StopReads, WaitEnds,
         RemoveFile
<1>4. \A o \in operators : ~Terminate(o) /\ ~WaitExpires(o)
  BY DEF Terminate, WaitExpires, Dies, Alive
<1> QED
  BY <1>1, <1>2, <1>3, <1>4 DEF Next, Wrapper, Script

\* Unless the script launches one, no wrapper comes to run in the foreground.
LEMMA ForegroundShrinks ==
  ASSUME DaemonInv, [Next]_vars, \A o \in operators : ~Launch(o)
  PROVE  Foreground' \subseteq Foreground
<1> SUFFICES ASSUME NEW p \in Procs, Alive(p)', ~Forks(p)', p \notin ahead', p \notin Foreground
             PROVE  FALSE
  BY DEF Foreground
<1>1. CASE proc[p] # "unborn"
  <2>1. /\ conf[p] # 0 => conf'[p] = conf[p]
        /\ Alive(p) /\ p \notin ahead
    BY <1>1, WrappersGoOn
  <2>2. Forks(p)
    BY <2>1 DEF Foreground
  <2> QED
    BY <2>1, <2>2 DEF Forks, Conf
<1>2. CASE proc[p] = "unborn"
  <2>1. PICK q \in Procs : Fork(q)
    BY <1>2, BornByForkOrLaunch DEF Alive
  <2>2. PICK c \in Unborn : /\ proc' = [proc EXCEPT ![q] = "dead", ![c] = "locking"]
                            /\ conf' = [conf EXCEPT ![q] = 0, ![c] = conf[q]]
    BY <2>1 DEF Fork
  <2>3. p = c
    BY <1>2, <2>1, <2>2 DEF Fork, Alive, DaemonInv, TypeOK
  <2>4. conf'[p] = conf[q] /\ Conf(p)' = Conf(q)
    BY <2>2, <2>3 DEF Unborn, Conf, DaemonInv, TypeOK
  <2> QED
    BY <2>1, <2>4 DEF Fork, Forks
<1> QED
  BY <1>1, <1>2

LEMMA ScriptKeepsAlone ==
  ASSUME DaemonInv, AloneInv, Script, NEW o \in Operators, operators = {o}
  PROVE  AloneInv'
<1>1. \/ StartReads(o) \/ AlreadyRunning(o) \/ RemoveStale(o) \/ Create(o)
      \/ Launch(o) \/ Record(o)
      \/ StopReads(o) \/ Terminate(o) \/ WaitEnds(o) \/ WaitExpires(o) \/ RemoveFile(o)
  BY DEF Script
<1>2. /\ operators' = operators
      /\ script \in [Operators -> ScriptStages]
      /\ held \in [Operators -> Procs \cup {Nobody, Output}]
  BY <1>1
  DEF StartReads, AlreadyRunning, RemoveStale, Create, Launch, Record, StopReads, Terminate,
      WaitEnds, WaitExpires, RemoveFile, scriptVars, DaemonInv, TypeOK, ScriptStages
<1>3. ~Launch(o) => Foreground' \subseteq Foreground
  BY ForegroundShrinks DEF Next
<1> SUFFICES Named(o)'
  BY <1>2 DEF AloneInv
<1>4. Named(o)
  BY DEF AloneInv
<1> USE DEF Named
<1>5. CASE StartReads(o) \/ StopReads(o)
  <2>1. /\ script[o] = "idle"
        /\ ~file => script'[o] \in {"creating", "removing"}
        /\ file => script'[o] \in {"judging", "terminating"} /\ held'[o] = recorded
        /\ UNCHANGED <<file, recorded>>
    BY <1>2, <1>5 DEF StartReads, StopReads, scriptFile
  <2>2. Foreground' \subseteq Foreground
    BY <1>3, <1>5 DEF StartReads, StopReads, Launch
  <2> QED
    BY <1>4, <2>1, <2>2
<1>6. CASE AlreadyRunning(o)
  <2>1. /\ script[o] = "judging" /\ script'[o] = "idle"
        /\ UNCHANGED <<file, recorded>>
    BY <1>2, <1>6 DEF AlreadyRunning, scriptFile
  <2>2. Foreground' \subseteq Foreground
    BY <1>3, <1>6 DEF AlreadyRunning, Launch
  <2> QED
    BY <1>4, <2>1, <2>2
<1>7. CASE RemoveStale(o)
  <2>1. script[o] = "judging" /\ script'[o] = "creating" /\ ~Alive(held[o])
    BY <1>2, <1>7 DEF RemoveStale
  <2>2. Foreground' \subseteq Foreground
    BY <1>3, <1>7 DEF RemoveStale, Launch
  <2>3. Foreground = {}
    BY <1>4, <2>1 DEF Foreground
  <2> QED
    BY <2>1, <2>2, <2>3
<1>8. CASE Create(o)
  <2>1. /\ script[o] = "creating" /\ script'[o] = "launching"
        /\ file' /\ o \in opened'
    BY <1>2, <1>8 DEF Create
  <2>2. Foreground' \subseteq Foreground
    BY <1>3, <1>8 DEF Create, Launch
  <2> QED
    BY <1>4, <2>1, <2>2
<1>9. CASE Launch(o)
  <2> PICK p \in Unborn : /\ proc' = [proc EXCEPT ![p] = "loading"]
                          /\ out' = IF o \in opened THEN out \cup {p} ELSE out
                          /\ held' = [held EXCEPT ![o] = p]
    BY <1>9 DEF Launch
  <2>1. /\ script[o] = "launching" /\ script'[o] = "recording" /\ held'[o] = p
        /\ UNCHANGED <<file, conf, ahead>>
    BY <1>2, <1>9 DEF Launch
  <2>2. ASSUME NEW q \in Foreground', q # p PROVE q \in Foreground
    <3>1. q \in Procs /\ proc'[q] = proc[q] /\ conf'[q] = conf[q]
      BY <2>1, <2>2 DEF Foreground, DaemonInv, TypeOK
    <3> QED
      BY <2>1, <2>2, <3>1 DEF Foreground, Alive, Forks, Conf
  <2> QED
    BY <1>4, <2>1, <2>2
<1>10. CASE Record(o)
  <2>1. /\ script[o] = "recording" /\ script'[o] = "idle"
        /\ file' = file
        /\ held[o] \in out /\ held[o] \notin ahead => recorded' = held[o]
    BY <1>2, <1>10 DEF Record, Writes
  <2>2. Foreground' \subseteq Foreground
    BY <1>3, <1>10 DEF Record, Launch
  <2>3. \A p \in Foreground : p = held[o] /\ p \notin ahead
    BY <1>4, <2>1 DEF Foreground
  <2> QED
    BY <1>4, <2>1, <2>2, <2>3
<1>11. CASE Terminate(o)
  <2>1. /\ script[o] = "terminating" /\ script'[o] = "waiting"
        /\ UNCHANGED <<file, recorded, held>>
    BY <1>2, <1>11 DEF Terminate, scriptFile
  <2>2. Foreground' \subseteq Foreground
    BY <1>3, <1>11 DEF Terminate, Launch
  <2> QED
    BY <1>4, <2>1, <2>2
<1>12. CASE WaitEnds(o)
  <2>1. script[o] = "waiting" /\ script'[o] = "removing" /\ ~Alive(held[o])
    BY <1>2, <1>12 DEF WaitEnds
  <2>2. Foreground' \subseteq Foreground
    BY <1>3, <1>12 DEF WaitEnds, Launch
  <2>3. Foreground = {}
    BY <1>4, <2>1 DEF Foreground
  <2> QED
    BY <2>1, <2>2, <2>3
<1>13. CASE WaitExpires(o)
  <2>1. script[o] = "waiting" /\ script'[o] = "removing"
    BY <1>2, <1>13 DEF WaitExpires
  <2>2. Foreground' \subseteq Foreground
    BY <1>3, <1>13 DEF WaitExpires, Launch
  <2>3. \A p \in Foreground : p = held[o]
    BY <1>4, <2>1
  <2>4. held[o] \notin Foreground'
    BY <1>13 DEF WaitExpires, Dies, Foreground, Alive, DaemonInv, TypeOK
  <2> QED
    BY <2>1, <2>2, <2>3, <2>4
<1>14. CASE RemoveFile(o)
  <2>1. script[o] = "removing" /\ script'[o] = "idle"
    BY <1>2, <1>14 DEF RemoveFile
  <2>2. Foreground' \subseteq Foreground
    BY <1>3, <1>14 DEF RemoveFile, Launch
  <2> QED
    BY <1>4, <2>1, <2>2
<1> QED
  BY <1>1, <1>5, <1>6, <1>7, <1>8, <1>9, <1>10, <1>11, <1>12, <1>13, <1>14

\* A wrapper puts its output where a pid is, or lets go of the descriptor, only
\* while that pid is not there yet.
LEMMA WrapperKeepsAlone ==
  ASSUME DaemonInv, AloneInv, Wrapper, NEW o \in Operators, operators = {o}
  PROVE  AloneInv'
<1> PICK p \in Procs :
      \/ Load(p) \/ Prints(p) \/ KeyMissing(p)
      \/ Fork(p) \/ ForkFails(p) \/ NoFork(p) \/ TakeLock(p) \/ LockRefused(p)
      \/ RecordPid(p) \/ FileFails(p) \/ Enter(p)
      \/ AppStarts(p) \/ AppEnds(p) \/ WrapperEnds(p)
  BY DEF Wrapper
<1>1. UNCHANGED <<scriptVars, file, opened>>
  BY DEF Load, Prints, KeyMissing, Fork, ForkFails, NoFork, TakeLock, LockRefused, RecordPid,
         FileFails, Enter, AppStarts, AppEnds, WrapperEnds, scriptFile
<1>2. Foreground' \subseteq Foreground
  <2>1. \A u \in operators : ~Launch(u)
    BY <1>1 DEF Launch, scriptVars, DaemonInv, TypeOK
  <2> QED
    BY <2>1, ForegroundShrinks DEF Next
<1>3. Unrecorded = IF script[o] = "recording" THEN {held[o]} ELSE {}
  BY DEF Unrecorded
<1>4. \/ recorded' = recorded
      \/ recorded = Nobody
      \/ p \in Unrecorded
  BY DEF Load, Writes, Prints, KeyMissing, Fork, ForkFails, NoFork, TakeLock, LockRefused,
         RecordPid, FileFails, Enter, AppStarts, AppEnds, WrapperEnds, scriptFile
<1>5. script[o] = "recording" /\ held[o] \in out => held[o] \in out'
  <2>1. \/ UNCHANGED out
        \/ Ends(p)
    BY DEF Load, Prints, KeyMissing, Fork, ForkFails, NoFork, TakeLock, LockRefused,
           RecordPid, FileFails, Enter, AppStarts, AppEnds, WrapperEnds, Dies, outputVars
  <2> QED
    BY <1>3, <2>1 DEF Ends, Closes, outputVars
<1>6. Named(o)
  BY DEF AloneInv
<1>7. Named(o)'
  BY <1>1, <1>2, <1>3, <1>4, <1>5, <1>6, DaemonAssumption DEF Named, scriptVars, Foreground
<1> QED
  BY <1>1, <1>7 DEF AloneInv, scriptVars

LEMMA NextAloneInv ==
  ASSUME DaemonInv, AloneInv, [Next]_vars
  PROVE  AloneInv'
<1>1. CASE Script \/ Wrapper
  <2>1. operators' = operators
    BY <1>1
    DEF Script, StartReads, AlreadyRunning, RemoveStale, Create, Launch, Record, StopReads,
        Terminate, WaitEnds, WaitExpires, RemoveFile,
        Wrapper, Load, Prints, KeyMissing, Fork, ForkFails, NoFork, TakeLock, LockRefused,
        RecordPid, FileFails, Enter, AppStarts, AppEnds, WrapperEnds, scriptVars
  <2> SUFFICES ASSUME NEW o \in Operators, operators = {o}
               PROVE  AloneInv'
    BY <2>1 DEF AloneInv
  <2> QED
    BY <1>1, ScriptKeepsAlone, WrapperKeepsAlone
<1>2. CASE Edit \/ UNCHANGED vars
  <2>1. UNCHANGED <<conf, proc, scriptFile, scriptVars, outputVars>>
    BY <1>2 DEF Edit, vars
  <2>2. Foreground' = Foreground
    BY <2>1 DEF Foreground, Alive, Forks, Conf, outputVars
  <2> QED
    BY <2>1, <2>2 DEF AloneInv, Named, scriptFile, scriptVars, outputVars
<1> QED
  BY <1>1, <1>2 DEF Next

-----------------------------------------------------------------------------
\* Every variable of the start and stop of the service keeps its type; no wrapper
\* runs without a configuration.
THEOREM DaemonTypes == Spec => []TypeOK
<1>1. DaemonInv => TypeOK
  BY DEF DaemonInv
<1> QED
  BY InitDaemonInv, NextDaemonInv, <1>1, PTL DEF Spec

\* The lock admits one daemon per lock file, however many starts race, wherever
\* they fail and whatever is written into the configuration between them.
THEOREM OneDaemonServes == Spec => []OneServing
<1>1. DaemonInv => OneServing
  BY DEF DaemonInv, LockInv, OneServing, Daemons, Serving
<1> QED
  BY InitDaemonInv, NextDaemonInv, <1>1, PTL DEF Spec

\* The pid in the pid file beside the lock is that of the daemon that serves.
THEOREM PidFileIsRight == Spec => []PidFileNamesServing
<1>1. DaemonInv => PidFileNamesServing
  BY DEF DaemonInv, PidInv, PidFileNamesServing, Daemons, Serving
<1> QED
  BY InitDaemonInv, NextDaemonInv, <1>1, PTL DEF Spec

\* exit(1) over a missing key abandons an application only when the key is the
\* switch of the health test or one of the health monitor's: the rest has been
\* found before the first launch, in the configuration the wrapper keeps.
THEOREM RefusalLeavesNoApplication == Spec => RefusalLeavesNothing
<1>1. Init => LaunchedInv
  BY DEF Init, LaunchedInv
<1>2. DaemonInv /\ LaunchedInv /\ [Next]_vars => LaunchedInv'
  BY NextLaunchedInv
<1>3. DaemonInv /\ LaunchedInv
        => \A p \in apps :
             KeyMissing(p) => KeysRead(p) \ DOMAIN Conf(p)
               \subseteq {"ping.enableHealthCheck"} \cup HealthKeys \cup HealthAPIKeys
  BY LaunchedMisses
<1> QED
  BY InitDaemonInv, NextDaemonInv, <1>1, <1>2, <1>3, PTL DEF Spec, RefusalLeavesNothing

\* A lone operator who is told that the service is stopped has no wrapper left in
\* the foreground but one whose output was in the pid file before its pid, whatever
\* was written into the configuration between his starts and however his wrappers
\* ended.
THEOREM StoppedMeansStoppedAlone == Spec => StoppedAlone
<1>1. Init => AloneInv
  BY DEF Init, AloneInv, Named, Foreground, Alive
<1>2. DaemonInv /\ AloneInv /\ [Next]_vars => AloneInv'
  BY NextAloneInv
<1>3. DaemonInv /\ AloneInv /\ [Next]_vars
        => \A o \in operators :
             (operators = {o} /\ script[o] = "removing" /\ script'[o] = "idle")
               => \A p \in Procs : Alive(p) => Forks(p) \/ p \in ahead
  BY DEF AloneInv, Named, Foreground, DaemonInv, TypeOK
<1> QED
  BY InitDaemonInv, NextDaemonInv, <1>1, <1>2, <1>3, PTL DEF Spec, StoppedAlone

\* findMapValueOrExit never exits over a key that the file has a line for: among
\* the keys a wrapper was about to read when it refused its configuration there is
\* one that no line of the file it had read assigns.
THEOREM RefusalHasAReason ==
  Spec => [][\A p \in Procs : KeyMissing(p) =>
               \E key \in KeysRead(p) : \A i \in DOMAIN Editions[conf[p]] :
                 ~HasKey(Editions[conf[p]][i], key)]_vars
<1>1. TypeOK => \A p \in Procs : KeyMissing(p) =>
                  \E key \in KeysRead(p) : \A i \in DOMAIN Editions[conf[p]] :
                    ~HasKey(Editions[conf[p]][i], key)
  <2> SUFFICES ASSUME TypeOK, NEW p \in Procs, KeyMissing(p)
               PROVE  \E key \in KeysRead(p) : \A i \in DOMAIN Editions[conf[p]] :
                        ~HasKey(Editions[conf[p]][i], key)
    OBVIOUS
  <2>1. PICK key \in KeysRead(p) : key \notin DOMAIN Conf(p)
    BY DEF KeyMissing, Has
  <2>2. conf[p] \in DOMAIN Editions
    BY DEF KeyMissing, Alive, TypeOK
  <2>3. /\ Editions[conf[p]] \in Seq(Lines)
        /\ Conf(p) = ReadConfig(Editions[conf[p]])
    BY <2>2, DaemonAssumption DEF Conf, Maps, ReadConfigs
  <2>4. key \in Keys \ Accumulated
    BY KeysReadAreKeys
  <2> QED
    BY <2>1, <2>3, <2>4, FileIsRead DEF IsReadAs
<1> QED
  BY <1>1, DaemonTypes, PTL DEF Spec
=============================================================================
