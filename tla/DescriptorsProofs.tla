------------------------- MODULE DescriptorsProofs -------------------------
(***************************************************************************)
(* Proofs about Descriptors, for any number of descriptors and launches.   *)
(*                                                                         *)
(* First the numbers pipe() and socket() give: the lowest free one is      *)
(* free, and so is the second.  Then, that the threads never free or       *)
(* reuse each other's numbers, from what each holds: as the table says     *)
(* what a number names, numbers of different things differ.                *)
(***************************************************************************)
EXTENDS Descriptors, FiniteSetTheorems, WellFoundedInduction, TLAPS

\* A non-empty set of numbers has a least one.
LEMMA HasLeast ==
  ASSUME NEW S \in SUBSET Nat, S # {}
  PROVE  \E m \in S : \A k \in S : m <= k
<1> DEFINE Less == {pair \in Nat \X Nat : pair[1] < pair[2]}
<1>1. IsWellFoundedOn(Less, Nat)
  BY NatLessThanWellFounded DEF OpToRel
<1>2. PICK m \in S : \A k \in S : <<k, m>> \notin Less
  <2> HIDE DEF Less
  <2> QED
    BY <1>1, WFMin
<1>3. \A k \in S : ~(k < m)
  BY <1>2
<1> QED
  BY <1>3

LEMMA MinIsMember ==
  ASSUME NEW S \in SUBSET Nat, S # {}
  PROVE  Min(S) \in S
  BY HasLeast DEF Min

LEMMA OneFree ==
  ASSUME NEW table, Room(table, 1)
  PROVE  First(table) \in Fds /\ table[First(table)] = Free
<1>1. FreeFds(table) \in SUBSET Nat /\ FreeFds(table) # {}
  BY FS_EmptySet, DescriptorsAssumption DEF Room, FreeFds, Fds
<1> QED
  BY <1>1, MinIsMember DEF First, FreeFds

LEMMA TwoFree ==
  ASSUME NEW table, Room(table, 2)
  PROVE  /\ First(table) \in Fds /\ table[First(table)] = Free
         /\ Second(table) \in Fds /\ table[Second(table)] = Free
         /\ First(table) # Second(table)
<1> DEFINE F == FreeFds(table)
           G == F \ {First(table)}
<1>1. IsFiniteSet(F) /\ F \in SUBSET Nat /\ Cardinality(F) >= 2
  <2>1. IsFiniteSet(Fds)
    BY FS_Interval, DescriptorsAssumption DEF Fds
  <2> QED
    BY <2>1, FS_Subset, DescriptorsAssumption DEF FreeFds, Fds, Room
<1>2. F # {}
  BY <1>1, FS_EmptySet
<1>3. First(table) \in F
  BY <1>1, <1>2, MinIsMember DEF First
<1>4. Cardinality(G) = Cardinality(F) - 1 /\ IsFiniteSet(G)
  BY <1>1, <1>3, FS_RemoveElement
<1>5. G # {}
  <2>1. Cardinality(F) \in Nat
    BY <1>1, FS_CardinalityType
  <2> QED
    BY <1>1, <1>4, <2>1, FS_EmptySet
<1>6. Second(table) \in G
  <2>1. G \in SUBSET Nat
    BY <1>1
  <2> QED
    BY <1>5, <2>1, MinIsMember DEF Second
<1> QED
  BY <1>3, <1>6 DEF FreeFds

-----------------------------------------------------------------------------
(* Types.                                                                  *)

StageInv ==
  /\ pm # "sleep" => launch \in Launches
  /\ pm \in {"stdout", "fork"} => p_stdin \in Fds \X Fds
  /\ pm = "fork" => p_stdout \in Fds \X Fds

TypeInv == TypeOK /\ StageInv

LEMMA Kinds ==
  /\ \A w \in {"free", "std", "log", "console", "null", "lock", "socket"} : Thing(w) \in Things
  /\ \A w \in {"inR", "inW", "outR", "outW"} : \A n \in Launches : End(w, n) \in Things
  /\ Free \in Things
  BY DEF Things, Free

LEMMA FdsType == Fds \subseteq Nat /\ None \notin Fds /\ 0 \in Fds
                 /\ LogFd \in Fds /\ ConsoleFd \in Fds
  BY DescriptorsAssumption DEF Fds, None, LogFd, ConsoleFd

\* What a write to a log can do.
LEMMA LogWrites ==
  ASSUME TypeOK, NEW n \in Fds, Write(n)
  PROVE  wrapper' \in {wrapper, "gone"} /\ fed' \subseteq Launches
<1>1. InPipe(n) => fd[n].launch \in Launches
  <2> SUFFICES ASSUME fd[n].what = "inW"
               PROVE  fd[n].launch \in Launches
    BY DEF InPipe
  <2>1. fd[n] \in {Thing(w) : w \in {"free", "std", "log", "console", "null", "lock", "socket"}}
                  \cup {End(w, m) : w \in {"inR", "inW", "outR", "outW"}, m \in Launches}
    BY DEF TypeOK, Things
  <2>2. CASE fd[n] \in {Thing(w) : w \in {"free", "std", "log", "console", "null", "lock",
                                         "socket"}}
    BY <2>2 DEF Thing
  <2>3. CASE fd[n] \in {End(w, m) : w \in {"inR", "inW", "outR", "outW"}, m \in Launches}
    BY <2>3 DEF End
  <2> QED
    BY <2>1, <2>2, <2>3
<1> QED
  BY <1>1 DEF Write, TypeOK

LEMMA InitTypes == Init => TypeInv
<1> SUFFICES ASSUME Init
             PROVE  TypeInv
  OBVIOUS
<1>1. fd \in [Fds -> Things]
  BY Kinds DEF Init
<1>2. p_stdin \in Pairs /\ p_stdout \in Pairs
  BY DEF Init, Pairs
<1>3. /\ reader \in [Launches -> {"none", "created", "reading", "done"}]
      /\ hStdOut \in [Launches -> Fds \cup {None}]
  BY DEF Init
<1>4. launch \in 0..MaxLaunches
  BY DescriptorsAssumption DEF Init
<1> QED
  BY <1>1, <1>2, <1>3, <1>4, FdsType DEF Init, TypeInv, TypeOK, StageInv

LEMMA NextTypes == TypeInv /\ [Next]_vars => TypeInv'
<1> SUFFICES ASSUME TypeInv, [Next]_vars
             PROVE  TypeInv'
  OBVIOUS
<1> USE DescriptorsAssumption, FdsType
    DEF TypeInv, TypeOK, StageInv, pipeVars, staticVars, readerVars
<1>1. CASE Start
  <2>1. fd' \in [Fds -> Things]
    BY <1>1, Kinds DEF Start
  <2> QED
    BY <1>1, <2>1 DEF Start
<1>2. CASE ProcessMonitor
  <2>1. CASE Begin
    <3>1. launch' \in Launches
      BY <2>1 DEF Begin, Launches
    <3> QED
      BY <2>1, <3>1 DEF Begin, Launches
  <2>2. CASE OpenStdin
    <3>1. First(fd) \in Fds /\ Second(fd) \in Fds
      BY <2>2, TwoFree DEF OpenStdin
    <3>2. fd' \in [Fds -> Things]
      BY <2>2, <3>1, Kinds DEF OpenStdin
    <3>3. p_stdin' \in Fds \X Fds
      BY <2>2, <3>1 DEF OpenStdin
    <3> QED
      BY <2>2, <3>2, <3>3 DEF OpenStdin, Pairs
  <2>3. CASE OpenStdout
    <3>1. First(fd) \in Fds /\ Second(fd) \in Fds
      BY <2>3, TwoFree DEF OpenStdout
    <3>2. fd' \in [Fds -> Things]
      BY <2>3, <3>1, Kinds DEF OpenStdout
    <3>3. p_stdout' \in Fds \X Fds
      BY <2>3, <3>1 DEF OpenStdout
    <3> QED
      BY <2>3, <3>2, <3>3 DEF OpenStdout, Pairs
  <2>4. CASE OpenFails
    <3>1. fd' \in [Fds -> Things]
      BY <2>4, Kinds DEF OpenFails, WithoutPipe
    <3> QED
      BY <2>4, <3>1 DEF OpenFails
  <2>5. CASE ForkFails
    <3>1. fd' \in [Fds -> Things]
      BY <2>5, Kinds DEF ForkFails, WithoutPipe
    <3> QED
      BY <2>5, <3>1 DEF ForkFails
  <2>6. CASE Fork
    <3>1. fd' \in [Fds -> Things]
      BY <2>6, Kinds DEF Fork
    <3> QED
      BY <2>6, <3>1 DEF Fork
  <2>7. CASE Spawn
    BY <2>7 DEF Spawn, Pairs
  <2> QED
    BY <1>2, <2>1, <2>2, <2>3, <2>4, <2>5, <2>6, <2>7 DEF ProcessMonitor
<1>3. CASE LogMessage
  BY <1>3, LogWrites DEF LogMessage
<1>4. CASE OpenSocket
  <2>1. First(fd) \in Fds
    BY <1>4, OneFree DEF OpenSocket
  <2>2. fd' \in [Fds -> Things]
    BY <1>4, <2>1, Kinds DEF OpenSocket
  <2> QED
    BY <1>4, <2>1, <2>2 DEF OpenSocket
<1>5. CASE CloseSocket
  <2>1. fd' \in [Fds -> Things]
    BY <1>5, Kinds DEF CloseSocket
  <2> QED
    BY <1>5, <2>1 DEF CloseSocket
<1>6. ASSUME NEW n \in Launches, Reader(n) \/ AppEnds(n)
      PROVE  TypeInv'
  <2>1. CASE ReaderStarts(n)
    BY <2>1 DEF ReaderStarts
  <2>2. CASE ReaderLogs(n)
    BY <2>2, LogWrites DEF ReaderLogs
  <2>3. CASE ReaderEnds(n)
    <3>1. fd' \in [Fds -> Things]
      BY <2>3, Kinds DEF ReaderEnds
    <3> QED
      BY <2>3, <3>1, LogWrites DEF ReaderEnds
  <2>4. CASE AppEnds(n)
    BY <2>4 DEF AppEnds
  <2> QED
    BY <1>6, <2>1, <2>2, <2>3, <2>4 DEF Reader
<1>7. CASE UNCHANGED vars
  BY <1>7 DEF vars
<1> QED
  BY <1>1, <1>2, <1>3, <1>4, <1>5, <1>6, <1>7 DEF Next

\* The descriptor table keeps naming what it may name, the threads' numbers
\* stay numbers of the table.
THEOREM DescriptorTypes == Spec => []TypeOK
<1>1. TypeInv => TypeOK
  BY DEF TypeInv
<1> QED
  BY <1>1, InitTypes, NextTypes, PTL DEF Spec

-----------------------------------------------------------------------------
(* Failed launches.                                                        *)

FailInv ==
  /\ \A f \in Fds : fd[f].launch \in 0..launch
  /\ failed => pm \in {"spawn", "sleep"} /\ launch > 0 /\ HeldBy(launch) = {}
  /\ pm = "stdin" => HeldBy(launch) = {}
  /\ pm = "stdout" => HeldBy(launch) \subseteq {p_stdin[1], p_stdin[2]}
  /\ pm = "fork" => HeldBy(launch) \subseteq {p_stdin[1], p_stdin[2], p_stdout[1], p_stdout[2]}

LEMMA NextFailInv == TypeInv /\ FailInv /\ [Next]_vars => FailInv'
<1> SUFFICES ASSUME TypeInv, FailInv, [Next]_vars
             PROVE  FailInv'
  OBVIOUS
<1> USE DEF FailInv, HeldBy, pipeVars, staticVars, readerVars, Free, Thing, End
<1>t. /\ launch \in Nat /\ fd \in [Fds -> Things]
      /\ pm # "sleep" => launch > 0
  BY DescriptorsAssumption DEF TypeInv, TypeOK, StageInv, Launches
\* A step that only frees numbers, or opens what is no pipe of a launch.
<1>f. ASSUME UNCHANGED <<pm, launch, failed, p_stdin, p_stdout>>,
             \A f \in Fds : fd'[f] = fd[f] \/ fd'[f].launch = 0
      PROVE  FailInv'
  <2>1. \A f \in Fds : fd'[f].launch \in 0..launch'
    BY <1>t, <1>f
  <2>2. launch > 0 => \A f \in HeldBy(launch)' : f \in HeldBy(launch)
    BY <1>t, <1>f
  <2> HIDE DEF HeldBy
  <2> QED
    BY <1>t, <1>f, <2>1, <2>2
<1>1. CASE Start
  <2>1. UNCHANGED <<pm, launch, failed, p_stdin, p_stdout>>
    BY <1>1 DEF Start
  <2>2. \A f \in Fds : fd'[f] = fd[f] \/ fd'[f].launch = 0
    BY <1>1 DEF Start
  <2> QED
    BY <1>f, <2>1, <2>2
<1>2. CASE ProcessMonitor
  <2>1. CASE Begin
    BY <2>1, <1>t DEF Begin
  <2>2. CASE OpenStdin
    <3>1. First(fd) \in Fds /\ Second(fd) \in Fds
      BY <2>2, TwoFree DEF OpenStdin
    <3> QED
      BY <2>2, <3>1, <1>t DEF OpenStdin
  <2>3. CASE OpenStdout
    <3>1. First(fd) \in Fds /\ Second(fd) \in Fds
      BY <2>3, TwoFree DEF OpenStdout
    <3> QED
      BY <2>3, <3>1, <1>t DEF OpenStdout
  <2>4. CASE OpenFails
    BY <2>4, <1>t DEF OpenFails, WithoutPipe
  <2>5. CASE ForkFails
    BY <2>5, <1>t DEF ForkFails, WithoutPipe
  <2>6. CASE Fork
    BY <2>6, <1>t DEF Fork
  <2>7. CASE Spawn
    BY <2>7, <1>t DEF Spawn
  <2> QED
    BY <1>2, <2>1, <2>2, <2>3, <2>4, <2>5, <2>6, <2>7 DEF ProcessMonitor
<1>3. CASE LogMessage \/ OpenSocket \/ CloseSocket
  <2>1. UNCHANGED <<pm, launch, failed, p_stdin, p_stdout>>
    BY <1>3 DEF LogMessage, OpenSocket, CloseSocket
  <2>2. \A f \in Fds : fd'[f] = fd[f] \/ fd'[f].launch = 0
    BY <1>3, <1>t DEF LogMessage, OpenSocket, CloseSocket
  <2> QED
    BY <1>f, <2>1, <2>2
<1>4. ASSUME NEW n \in Launches, Reader(n) \/ AppEnds(n)
      PROVE  FailInv'
  <2>1. UNCHANGED <<pm, launch, failed, p_stdin, p_stdout>>
    BY <1>4 DEF Reader, ReaderStarts, ReaderLogs, ReaderEnds, AppEnds
  <2>2. \A f \in Fds : fd'[f] = fd[f] \/ fd'[f].launch = 0
    BY <1>4, <1>t DEF Reader, ReaderStarts, ReaderLogs, ReaderEnds, AppEnds
  <2> QED
    BY <1>f, <2>1, <2>2
<1>5. CASE UNCHANGED vars
  BY <1>5 DEF vars
<1> QED
  BY <1>1, <1>2, <1>3, <1>4, <1>5 DEF Next

LEMMA TypeInvariance == Spec => []TypeInv
  BY InitTypes, NextTypes, PTL DEF Spec

\* For any number of descriptors, and wherever the launch failed: nothing it
\* opened is still open.
THEOREM FailedLaunchIsClean == Spec => []FailedLaunchHoldsNothing
<1>1. Init => FailInv
  BY DEF Init, FailInv, HeldBy, Free, Thing
<1>2. FailInv => FailedLaunchHoldsNothing
  BY DEF FailInv, FailedLaunchHoldsNothing, HeldBy
<1> QED
  BY <1>1, <1>2, NextFailInv, TypeInvariance, PTL DEF Spec

-----------------------------------------------------------------------------
(* Who owns which number, as long as no launch has failed and each reader  *)
(* has taken up its pipe before the next launch begins.                    *)

Names(f, thing) == f \in Fds /\ fd[f] = thing

OwnInv ==
  /\ wrapper = "starting" => pm = "sleep" /\ launch = 0 /\ sock = None
  /\ \A n \in Launches : reader[n] # "none" => n <= launch
  /\ pm # "sleep" => reader[launch] = "none"
  /\ \A n \in Launches :
       /\ reader[n] = "reading" => Names(hStdOut[n], End("outR", n))
       /\ reader[n] = "created" =>
            n = launch /\ pm = "sleep" /\ Names(child_process_std_out, End("outR", n))
  /\ pm \in {"stdout", "fork"} => /\ Names(p_stdin[1], End("inR", launch))
                                  /\ Names(p_stdin[2], End("inW", launch))
  /\ pm = "fork" => /\ Names(p_stdout[1], End("outR", launch))
                    /\ Names(p_stdout[2], End("outW", launch))
  /\ pm = "spawn" => Names(child_process_std_out, End("outR", launch))
  /\ sock # None => Names(sock, Thing("socket"))

CalmInv == failed \/ OwnInv

LEMMA Different ==
  /\ \A n : {End("inR", n), End("inW", n), End("outR", n), End("outW", n)}
              \cap {Free, Thing("socket")} = {}
  /\ Thing("socket") # Free
  /\ \A m, n : /\ End("outR", m) \notin {End("inR", n), End("inW", n), End("outW", n)}
               /\ End("outR", m) = End("outR", n) => m = n
  BY DEF End, Thing, Free

LEMMA NextCalmInv ==
  ~LateReaders /\ TypeInv /\ CalmInv /\ [Next]_vars => CalmInv'
<1> SUFFICES ASSUME ~LateReaders, TypeInv, OwnInv, [Next]_vars, ~failed'
             PROVE  OwnInv'
  <2>1. failed => failed' \/ ~[Next]_vars
    BY DEF Next, Start, ProcessMonitor, Begin, OpenStdin, OpenStdout, OpenFails, ForkFails, Fork,
      Spawn, LogMessage, OpenSocket, CloseSocket, Reader, ReaderStarts, ReaderLogs, ReaderEnds,
      AppEnds, vars
  <2> QED
    BY <2>1 DEF CalmInv
<1> USE FdsType, Different DEF OwnInv, pipeVars, staticVars, readerVars
<1>t. /\ launch \in Nat /\ fd \in [Fds -> Things]
      /\ pm # "sleep" => launch \in Launches
      /\ reader \in [Launches -> {"none", "created", "reading", "done"}]
      /\ hStdOut \in [Launches -> Fds \cup {None}]
      /\ Launches \subseteq Nat
  BY DescriptorsAssumption DEF TypeInv, TypeOK, StageInv, Launches
\* What is named differently, or was free, is not touched.
<1>k. ASSUME NEW f, NEW thing, Names(f, thing), fd'[f] = fd[f]
      PROVE  Names(f, thing)'
  BY <1>k DEF Names
<1>u. ASSUME NEW f, NEW thing, Names(f, thing), UNCHANGED fd
      PROVE  Names(f, thing)'
  BY <1>u DEF Names
<1>1. CASE Start
  BY <1>1, <1>t DEF Start, Launches
<1>2. CASE ProcessMonitor
  <2>1. CASE Begin
    <3>0. \A n \in Launches : reader[n] # "created"
      BY <2>1 DEF Begin
    <3>1. /\ launch' = launch + 1 /\ launch' \in Launches /\ pm' = "stdin" /\ wrapper' = "running"
          /\ UNCHANGED <<fd, reader, hStdOut, sock>>
      BY <2>1, <1>t, DescriptorsAssumption DEF Begin, Launches, Running
    <3>2. reader[launch + 1] = "none"
      BY <1>t, <3>1
    <3> QED
      BY <1>t, <1>u, <3>0, <3>1, <3>2
  <2>2. CASE OpenStdin
    <3>1. /\ First(fd) \in Fds /\ Second(fd) \in Fds /\ First(fd) # Second(fd)
          /\ fd[First(fd)] = Free /\ fd[Second(fd)] = Free
      BY <2>2, TwoFree DEF OpenStdin
    <3>2. \A f \in Fds : fd[f] # Free => fd'[f] = fd[f]
      BY <2>2, <3>1, <1>t DEF OpenStdin
    <3>3. /\ Names(p_stdin[1], End("inR", launch))'
          /\ Names(p_stdin[2], End("inW", launch))'
      BY <2>2, <3>1, <1>t DEF OpenStdin, Names
    <3>4. ASSUME NEW n \in Launches, reader[n] = "reading"
          PROVE  Names(hStdOut[n], End("outR", n))'
      BY <2>2, <3>2, <3>4 DEF Names, OpenStdin
    <3>5. sock # None => Names(sock, Thing("socket"))'
      BY <2>2, <3>2 DEF Names, OpenStdin
    <3> QED
      BY <2>2, <3>3, <3>4, <3>5, <1>t DEF OpenStdin, Running
  <2>3. CASE OpenStdout
    <3>1. /\ First(fd) \in Fds /\ Second(fd) \in Fds /\ First(fd) # Second(fd)
          /\ fd[First(fd)] = Free /\ fd[Second(fd)] = Free
      BY <2>3, TwoFree DEF OpenStdout
    <3>2. \A f \in Fds : fd[f] # Free => fd'[f] = fd[f]
      BY <2>3, <3>1, <1>t DEF OpenStdout
    <3>3. /\ Names(p_stdout[1], End("outR", launch))'
          /\ Names(p_stdout[2], End("outW", launch))'
      BY <2>3, <3>1, <1>t DEF OpenStdout, Names
    <3>4. ASSUME NEW n \in Launches, reader[n] = "reading"
          PROVE  Names(hStdOut[n], End("outR", n))'
      BY <2>3, <3>2, <3>4 DEF Names, OpenStdout
    <3>5. sock # None => Names(sock, Thing("socket"))'
      BY <2>3, <3>2 DEF Names, OpenStdout
    <3>6. /\ Names(p_stdin[1], End("inR", launch))'
          /\ Names(p_stdin[2], End("inW", launch))'
      BY <2>3, <3>2 DEF Names, OpenStdout
    <3> QED
      BY <2>3, <3>3, <3>4, <3>5, <3>6, <1>t DEF OpenStdout, Running
  <2>4. CASE OpenFails \/ ForkFails
    BY <2>4 DEF OpenFails, ForkFails
  <2>5. CASE Fork
    <3>1. \A f \in Fds : fd[f] \notin {End("inR", launch), End("outW", launch)} => fd'[f] = fd[f]
      BY <2>5, <1>t DEF Fork, Names
    <3>2. Names(child_process_std_out, End("outR", launch))'
      BY <2>5, <3>1 DEF Fork, Names
    <3>3. ASSUME NEW n \in Launches, reader[n] = "reading"
          PROVE  Names(hStdOut[n], End("outR", n))'
      <4>1. hStdOut' = hStdOut
        BY <2>5 DEF Fork
      <4>2. hStdOut[n] \in Fds /\ fd[hStdOut[n]] = End("outR", n)
        BY <3>3 DEF Names
      <4>3. fd'[hStdOut[n]] = fd[hStdOut[n]]
        BY <3>1, <4>2
      <4> QED
        BY <4>1, <4>2, <4>3 DEF Names
    <3>4. sock # None => Names(sock, Thing("socket"))'
      BY <2>5, <3>1 DEF Names, Fork
    <3> QED
      BY <2>5, <3>2, <3>3, <3>4, <1>t DEF Fork, Running
  <2>6. CASE Spawn
    BY <2>6, <1>t, <1>u DEF Spawn, Running
  <2> QED
    BY <1>2, <2>1, <2>2, <2>3, <2>4, <2>5, <2>6 DEF ProcessMonitor
<1>3. CASE LogMessage
  <2>1. wrapper' # "starting"
    BY <1>3 DEF LogMessage, Write, Running
  <2> QED
    BY <1>3, <2>1 DEF LogMessage, Names
<1>4. CASE OpenSocket
  <2>1. First(fd) \in Fds /\ fd[First(fd)] = Free
    BY <1>4, OneFree DEF OpenSocket
  <2>2. \A f \in Fds : fd[f] # Free => fd'[f] = fd[f]
    BY <1>4, <2>1, <1>t DEF OpenSocket
  <2>3. Names(sock, Thing("socket"))'
    BY <1>4, <2>1, <1>t DEF OpenSocket, Names
  <2>4. ASSUME NEW f, NEW thing, Names(f, thing), thing # Free
        PROVE  Names(f, thing)'
    BY <2>2, <2>4 DEF Names
  <2> QED
    BY <1>4, <2>3, <2>4, <1>t DEF OpenSocket, Running
<1>5. CASE CloseSocket
  <2>1. \A f \in Fds : fd[f] # Thing("socket") => fd'[f] = fd[f]
    BY <1>5, <1>t DEF CloseSocket, Names
  <2>2. ASSUME NEW f, NEW thing, Names(f, thing), thing # Thing("socket")
        PROVE  Names(f, thing)'
    BY <2>1, <2>2 DEF Names
  <2> QED
    BY <1>5, <2>2, <1>t DEF CloseSocket, Running
<1>6. ASSUME NEW n \in Launches, Reader(n) \/ AppEnds(n)
      PROVE  OwnInv'
  <2>1. CASE ReaderStarts(n)
    BY <2>1, <1>t, <1>u DEF ReaderStarts, Running
  <2>2. CASE ReaderLogs(n)
    <3>1. wrapper' # "starting"
      BY <2>2 DEF ReaderLogs, Write, Running
    <3> QED
      BY <2>2, <3>1, <1>u DEF ReaderLogs
  <2>3. CASE ReaderEnds(n)
    <3>1. wrapper' # "starting"
      BY <2>3 DEF ReaderEnds, Write, Running
    <3>2. \A f \in Fds : fd[f] # End("outR", n) => fd'[f] = fd[f]
      BY <2>3, <1>t DEF ReaderEnds, Names
    <3>3. ASSUME NEW f, NEW thing, Names(f, thing), thing # End("outR", n)
          PROVE  Names(f, thing)'
      BY <3>2, <3>3 DEF Names
    <3>4. pm # "sleep" => n # launch
      BY <2>3 DEF ReaderEnds
    <3>5. \A m \in Launches : reader'[m] \in {"reading", "created"} => m # n /\ reader'[m] = reader[m]
      BY <2>3, <1>t DEF ReaderEnds
    <3>6. /\ UNCHANGED <<pm, launch, p_stdin, p_stdout, child_process_std_out, hStdOut, sock>>
          /\ \A m \in Launches : reader'[m] # "none" => reader[m] # "none"
          /\ \A m \in Launches : reader[m] = "none" => reader'[m] = "none"
      BY <2>3, <1>t DEF ReaderEnds
    <3>7. ASSUME NEW f, NEW w \in {"inR", "inW", "outR", "outW"}, pm # "sleep",
                 Names(f, End(w, launch))
          PROVE  Names(f, End(w, launch))'
      <4>1. End(w, launch) # End("outR", n)
        BY <3>4, <3>7 DEF End
      <4>2. launch' = launch
        BY <3>6
      <4> QED
        BY <3>2, <3>7, <4>1, <4>2 DEF Names
    <3>8. ASSUME sock # None
          PROVE  Names(sock, Thing("socket"))'
      <4>1. sock' = sock
        BY <3>6
      <4>2. sock \in Fds /\ fd[sock] = Thing("socket")
        BY <3>8 DEF Names
      <4>3. Thing("socket") # End("outR", n)
        BY DEF Thing, End
      <4>4. fd'[sock] = Thing("socket")
        BY <3>2, <4>2, <4>3
      <4> QED
        BY <4>1, <4>2, <4>4 DEF Names
    <3>9. ASSUME NEW m \in Launches, reader'[m] \in {"reading", "created"},
                 NEW f, Names(f, End("outR", m))
          PROVE  Names(f, End("outR", m))'
      BY <3>3, <3>5, <3>9
    <3> QED
      BY <1>t, <3>1, <3>5, <3>6, <3>7, <3>8, <3>9
  <2>4. CASE AppEnds(n)
    BY <2>4, <1>u DEF AppEnds
  <2> QED
    BY <1>6, <2>1, <2>2, <2>3, <2>4 DEF Reader
<1>7. CASE UNCHANGED vars
  BY <1>7, <1>u DEF vars
<1> QED
  BY <1>1, <1>2, <1>3, <1>4, <1>5, <1>6, <1>7 DEF Next

LEMMA CalmInvariance == ~LateReaders => (Spec => []CalmInv)
<1> SUFFICES ASSUME ~LateReaders
             PROVE  Spec => []CalmInv
  OBVIOUS
<1>1. Init => CalmInv
  BY DEF Init, CalmInv, OwnInv
<1>2. TypeInv /\ CalmInv /\ [Next]_vars => CalmInv'
  BY NextCalmInv
<1> QED
  BY <1>1, <1>2, TypeInvariance, PTL DEF Spec

\* As long as every reader thread runs before the next launch begins: a reader
\* reads and closes its own application's pipe, whatever else is opened and
\* closed meanwhile.
THEOREM ReaderOwnsItsPipe == ~LateReaders => (Spec => []ReaderOwnsPipe)
<1> SUFFICES ASSUME ~LateReaders
             PROVE  Spec => []ReaderOwnsPipe
  OBVIOUS
<1>1. CalmInv => ReaderOwnsPipe
  BY DEF CalmInv, OwnInv, Names, ReaderOwnsPipe
<1> QED
  BY <1>1, CalmInvariance, PTL

\* And under the same condition nobody closes the health monitor's socket for
\* it, or has it given to something else.
THEOREM SocketIsOwned == ~LateReaders => (Spec => []SocketOwned)
<1> SUFFICES ASSUME ~LateReaders
             PROVE  Spec => []SocketOwned
  OBVIOUS
<1>1. CalmInv => SocketOwned
  BY DEF CalmInv, OwnInv, Names, SocketOwned
<1> QED
  BY <1>1, CalmInvariance, PTL

-----------------------------------------------------------------------------
(* What the launches leave open.  Under the same condition the only other  *)
(* descriptor of a launch, from its fork() on, is the one its reader reads *)
(* or is about to read; and no reader is told to read descriptor 0, which  *)
(* would end it at once, as that number always names what it did.          *)

Kept(n) == IF reader[n] = "done" THEN {}
           ELSE {IF reader[n] = "reading" THEN hStdOut[n] ELSE child_process_std_out}

Left(n) == \E f \in Fds : fd[f] = End("inW", n) /\ HeldBy(n) = {f} \cup Kept(n)

LeftInv ==
  /\ fd[0].what \in {"std", "null"}
  /\ \A n \in 1..launch :
       /\ n < launch \/ pm = "sleep" => reader[n] # "none"
       /\ n < launch \/ pm \in {"spawn", "sleep"} => Left(n)

LEMMA LeftAlone ==
  ASSUME NEW n, Left(n), Kept(n)' = Kept(n),
         \A f \in Fds : fd'[f] = fd[f] \/ (fd[f].launch # n /\ fd'[f].launch # n)
  PROVE  Left(n)'
<1>1. PICK f \in Fds : fd[f] = End("inW", n) /\ HeldBy(n) = {f} \cup Kept(n)
  BY DEF Left
<1>2. HeldBy(n)' = HeldBy(n)
  BY DEF HeldBy
<1>3. fd'[f] = End("inW", n)
  BY <1>1 DEF End
<1> QED
  BY <1>1, <1>2, <1>3 DEF Left

LEMMA NextLeftInv ==
  ASSUME TypeInv, FailInv, OwnInv, LeftInv, Next, ~failed'
  PROVE  LeftInv'
<1> USE FdsType DEF pipeVars, staticVars, readerVars
<1>t. /\ launch \in 0..MaxLaunches /\ fd \in [Fds -> Things]
      /\ reader \in [Launches -> {"none", "created", "reading", "done"}]
      /\ hStdOut \in [Launches -> Fds \cup {None}]
      /\ pm # "sleep" => launch \in Launches
      /\ 1..launch \subseteq Launches /\ 1..launch \subseteq Nat \ {0}
  BY DescriptorsAssumption DEF TypeInv, TypeOK, StageInv, Launches
<1>0. \A f \in Fds : \A thing : Names(f, thing) /\ thing.what \notin {"std", "null"} => f # 0
  BY DEF LeftInv, Names
\* Nothing happens to a launch and its reader.
<1>k. ASSUME UNCHANGED <<fd, pm, launch, reader, hStdOut, child_process_std_out>>
      PROVE  LeftInv'
  BY <1>k DEF LeftInv, Left, Kept, HeldBy
\* Something happens to what is no launch's.
<1>s. ASSUME UNCHANGED <<pm, launch, reader, hStdOut, child_process_std_out>>,
             \A f \in Fds : fd'[f] = fd[f] \/ (fd[f].launch = 0 /\ fd'[f].launch = 0),
             fd'[0] = fd[0]
      PROVE  LeftInv'
  <2>1. \A n \in 1..launch : n # 0 /\ Kept(n)' = Kept(n)
    BY <1>s, <1>t DEF Kept
  <2>2. \A n \in 1..launch : Left(n) => Left(n)'
    BY <1>s, <2>1, LeftAlone
  <2> QED
    BY <1>s, <2>2 DEF LeftInv
\* The launch under way does something to its own pipes.
<1>o. ASSUME NEW n \in 1..launch, n < launch, pm # "sleep",
             UNCHANGED <<reader, hStdOut>>,
             \A f \in Fds : fd'[f] = fd[f] \/ (fd[f].launch # n /\ fd'[f].launch # n)
      PROVE  Left(n)' /\ reader'[n] # "none"
  <2>1. reader[n] \in {"reading", "done"}
    BY <1>o, <1>t DEF LeftInv, OwnInv
  <2> QED
    BY <1>o, <2>1, LeftAlone DEF LeftInv, Kept
<1>1. CASE Start
  BY <1>1, <1>t DEF Start, OwnInv, LeftInv, Thing
<1>2. CASE ProcessMonitor
  <2>1. CASE Begin
    <3>1. /\ UNCHANGED <<fd, reader, hStdOut, child_process_std_out>>
          /\ pm = "sleep" /\ pm' = "stdin" /\ launch' = launch + 1
      BY <2>1 DEF Begin
    <3>2. \A n \in 1..launch' : n < launch' => n \in 1..launch
      BY <1>t, <3>1
    <3> QED
      BY <3>1, <3>2, <1>t DEF LeftInv, Left, Kept, HeldBy
  <2>2. CASE OpenStdin \/ OpenStdout
    <3>1. /\ First(fd) \in Fds /\ fd[First(fd)] = Free
          /\ Second(fd) \in Fds /\ fd[Second(fd)] = Free
      BY <2>2, TwoFree DEF OpenStdin, OpenStdout
    <3>2. /\ UNCHANGED <<launch, reader, hStdOut>>
          /\ pm # "sleep" /\ pm' \notin {"spawn", "sleep"}
      BY <2>2 DEF OpenStdin, OpenStdout
    <3>3. \A f \in Fds : fd'[f] = fd[f] \/ (fd[f] = Free /\ fd'[f].launch = launch)
      BY <2>2, <3>1, <1>t DEF OpenStdin, OpenStdout, End
    <3>4. fd'[0] = fd[0]
      BY <3>3 DEF LeftInv, Free, Thing
    <3>5. \A n \in 1..launch : n < launch => Left(n)' /\ reader'[n] # "none"
      BY <1>o, <1>t, <3>2, <3>3 DEF Free, Thing
    <3> QED
      BY <3>2, <3>4, <3>5 DEF LeftInv
  <2>3. CASE OpenFails \/ ForkFails
    BY <2>3 DEF OpenFails, ForkFails
  <2>4. CASE Fork
    <3>1. /\ UNCHANGED <<launch, reader, hStdOut>> /\ pm = "fork" /\ pm' = "spawn"
          /\ fd' = [fd EXCEPT ![p_stdin[1]] = Free, ![p_stdout[2]] = Free]
          /\ child_process_std_out' = p_stdout[1]
      BY <2>4 DEF Fork
    <3>2. /\ Names(p_stdin[1], End("inR", launch)) /\ Names(p_stdin[2], End("inW", launch))
          /\ Names(p_stdout[1], End("outR", launch)) /\ Names(p_stdout[2], End("outW", launch))
          /\ reader[launch] = "none"
      BY <3>1 DEF OwnInv
    <3>3. \A f \in Fds : f \notin {p_stdin[1], p_stdout[2]} => fd'[f] = fd[f]
      BY <3>1, <1>t
    <3>4. fd'[p_stdin[1]] = Free /\ fd'[p_stdout[2]] = Free
      BY <3>1, <3>2, <1>t DEF Names
    <3>5. fd'[0] = fd[0]
      BY <1>0, <3>2, <3>3 DEF Names, End
    <3>6. \A n \in 1..launch : n < launch => Left(n)' /\ reader'[n] # "none"
      <4>1. \A n \in 1..launch : n < launch =>
              \A f \in Fds : fd'[f] = fd[f] \/ (fd[f].launch # n /\ fd'[f].launch # n)
        BY <3>2, <3>3, <3>4, <1>t DEF Names, End, Free, Thing
      <4> QED
        BY <1>o, <3>1, <4>1
    <3>7. Left(launch)'
      <4>1. HeldBy(launch) \subseteq {p_stdin[1], p_stdin[2], p_stdout[1], p_stdout[2]}
        BY <3>1 DEF FailInv
      <4>0. launch # 0 /\ launch' = launch
            /\ p_stdin[2] \in Fds \ {p_stdin[1], p_stdout[2]}
            /\ p_stdout[1] \in Fds \ {p_stdin[1], p_stdout[2]}
        BY <3>1, <3>2, <1>t DEF Names, End, Launches
      <4>a. /\ fd'[p_stdin[2]] = End("inW", launch) /\ fd'[p_stdout[1]] = End("outR", launch)
            /\ fd'[p_stdin[1]].launch = 0 /\ fd'[p_stdout[2]].launch = 0
        BY <3>2, <3>3, <3>4, <4>0 DEF Names, Free, Thing
      <4>b. \A f \in Fds : f \notin {p_stdin[1], p_stdin[2], p_stdout[1], p_stdout[2]}
                            => fd'[f].launch # launch
        BY <4>1, <3>3 DEF HeldBy
      <4>c. \A f \in Fds : fd'[f].launch = launch <=> f \in {p_stdin[2], p_stdout[1]}
        <5>1. fd'[p_stdin[2]].launch = launch
          BY <4>a DEF End
        <5>2. fd'[p_stdout[1]].launch = launch
          BY <4>a DEF End
        <5>3. fd'[p_stdin[1]].launch # launch /\ fd'[p_stdout[2]].launch # launch
          BY <4>0, <4>a
        <5> QED
          BY <5>1, <5>2, <5>3, <4>0, <4>b
      <4>2. HeldBy(launch)' = {p_stdin[2], p_stdout[1]}
        BY <4>0, <4>c DEF HeldBy
      <4>3. Kept(launch)' = {p_stdout[1]}
        BY <3>1, <3>2 DEF Kept
      <4>4. p_stdin[2] \in Fds /\ fd'[p_stdin[2]] = End("inW", launch')
        BY <4>0, <4>a
      <4> QED
        BY <4>0, <4>2, <4>3, <4>4 DEF Left
    <3> QED
      BY <3>1, <3>5, <3>6, <3>7, <1>t DEF LeftInv
  <2>5. CASE Spawn
    <3>1. /\ UNCHANGED <<fd, launch, hStdOut, child_process_std_out>>
          /\ pm = "spawn" /\ pm' = "sleep" /\ reader' = [reader EXCEPT ![launch] = "created"]
      BY <2>5 DEF Spawn
    <3>2. reader[launch] = "none"
      BY <3>1 DEF OwnInv
    <3>3. \A n \in 1..launch : Left(n)
      BY <3>1 DEF LeftInv
    <3>4. \A n \in 1..launch : Kept(n)' = Kept(n) /\ reader'[n] # "none"
      BY <3>1, <3>2, <1>t DEF Kept, LeftInv
    <3>5. \A n \in 1..launch : Left(n)'
      BY <3>1, <3>3, <3>4, LeftAlone
    <3> QED
      BY <3>1, <3>4, <3>5 DEF LeftInv
  <2> QED
    BY <1>2, <2>1, <2>2, <2>3, <2>4, <2>5 DEF ProcessMonitor
<1>3. CASE LogMessage
  BY <1>3, <1>k DEF LogMessage
<1>4. CASE OpenSocket
  <2>1. First(fd) \in Fds /\ fd[First(fd)] = Free
    BY <1>4, OneFree DEF OpenSocket
  <2>2. \A f \in Fds : fd'[f] = fd[f] \/ (fd[f] = Free /\ fd'[f] = Thing("socket"))
    BY <1>4, <2>1, <1>t DEF OpenSocket
  <2>3. fd'[0] = fd[0]
    BY <2>2 DEF LeftInv, Free, Thing
  <2> QED
    BY <1>4, <1>s, <2>2, <2>3 DEF OpenSocket, Free, Thing
<1>5. CASE CloseSocket
  <2>1. Names(sock, Thing("socket"))
    BY <1>5 DEF CloseSocket, OwnInv
  <2>2. \A f \in Fds : fd'[f] = fd[f] \/ (fd[f] = Thing("socket") /\ fd'[f] = Free)
    BY <1>5, <2>1, <1>t DEF CloseSocket, Names
  <2>3. fd'[0] = fd[0]
    BY <2>2 DEF LeftInv, Thing
  <2> QED
    BY <1>5, <1>s, <2>2, <2>3 DEF CloseSocket, Free, Thing
<1>6. ASSUME NEW n \in Launches, Reader(n) \/ AppEnds(n)
      PROVE  LeftInv'
  <2>1. CASE ReaderStarts(n)
    <3>1. Names(child_process_std_out, End("outR", n)) /\ child_process_std_out # 0
      BY <2>1, <1>0 DEF ReaderStarts, OwnInv, Names, End
    <3>2. /\ UNCHANGED <<fd, pm, launch, child_process_std_out>>
          /\ reader[n] = "created" /\ reader' = [reader EXCEPT ![n] = "reading"]
          /\ hStdOut' = [hStdOut EXCEPT ![n] = child_process_std_out]
      BY <2>1, <3>1 DEF ReaderStarts
    <3>3. \A m \in 1..launch : Kept(m)' = Kept(m) /\ (reader[m] # "none" => reader'[m] # "none")
      BY <3>2, <1>t DEF Kept
    <3>4. ASSUME NEW m \in 1..launch, Left(m)
          PROVE  Left(m)'
      <4>1. \A f \in Fds : fd'[f] = fd[f]
        BY <3>2
      <4> QED
        BY <3>3, <3>4, <4>1, LeftAlone
    <3> QED
      BY <3>2, <3>3, <3>4 DEF LeftInv
  <2>2. CASE ReaderLogs(n) \/ AppEnds(n)
    BY <2>2, <1>k DEF ReaderLogs, AppEnds
  <2>3. CASE ReaderEnds(n)
    <3>1. /\ UNCHANGED <<pm, launch, hStdOut, child_process_std_out>>
          /\ reader[n] = "reading" /\ reader' = [reader EXCEPT ![n] = "done"]
          /\ fd' = [fd EXCEPT ![hStdOut[n]] = Free]
      BY <2>3 DEF ReaderEnds
    <3>2. hStdOut[n] \in Fds /\ fd[hStdOut[n]] = End("outR", n) /\ hStdOut[n] # 0
      BY <3>1, <1>0 DEF OwnInv, Names, End
    <3>3. \A f \in Fds : fd'[f] = IF f = hStdOut[n] THEN Free ELSE fd[f]
      BY <3>1, <1>t
    <3>4. ASSUME NEW m \in 1..launch, Left(m)
          PROVE  Left(m)'
      <4>1. CASE m # n
        <5>1. Kept(m)' = Kept(m)
          BY <3>1, <4>1, <1>t DEF Kept
        <5>2. \A f \in Fds : fd'[f] = fd[f] \/ (fd[f].launch # m /\ fd'[f].launch # m)
          BY <3>2, <3>3, <4>1, <1>t DEF End, Free, Thing
        <5> QED
          BY <3>4, <5>1, <5>2, LeftAlone
      <4>2. CASE m = n
        <5>1. PICK f \in Fds : fd[f] = End("inW", n) /\ HeldBy(n) = {f, hStdOut[n]}
          BY <3>1, <3>4, <4>2 DEF Left, Kept
        <5>2. f # hStdOut[n] /\ fd'[f] = End("inW", n)
          <6>1. fd[f].what = "inW"
            BY <5>1 DEF End
          <6>2. fd[hStdOut[n]].what = "outR"
            BY <3>2 DEF End
          <6>3. f # hStdOut[n]
            BY <6>1, <6>2
          <6> QED
            BY <3>3, <5>1, <6>3
        <5>3. HeldBy(n)' = {f}
          <6>a. fd'[hStdOut[n]] = Free /\ Free.launch = 0
            <7>1. fd'[hStdOut[n]] = Free
              BY <3>2, <3>3
            <7>2. Free.launch = 0
              BY DEF Free, Thing
            <7> QED
              BY <7>1, <7>2
          <6>b. n # 0
            BY <1>t, <4>2
          <6>c. fd'[f].launch = n
            BY <5>2 DEF End
          <6>1. fd'[hStdOut[n]].launch = 0 /\ n # 0 /\ fd'[f].launch = n
            BY <6>a, <6>b, <6>c
          <6>2. \A g \in Fds : g \notin {f, hStdOut[n]} => fd'[g].launch # n
            BY <3>3, <5>1 DEF HeldBy
          <6> QED
            BY <5>1, <6>1, <6>2 DEF HeldBy
        <5>4. Kept(n)' = {}
          BY <3>1, <1>t DEF Kept
        <5> QED
          BY <4>2, <5>2, <5>3, <5>4 DEF Left, End
      <4> QED
        BY <4>1, <4>2
    <3>5. fd'[0] = fd[0]
      BY <3>2, <3>3
    <3>6. \A m \in 1..launch : reader[m] # "none" => reader'[m] # "none"
      BY <3>1, <1>t
    <3> QED
      BY <3>1, <3>4, <3>5, <3>6 DEF LeftInv
  <2> QED
    BY <1>6, <2>1, <2>2, <2>3 DEF Reader
<1> QED
  BY <1>1, <1>2, <1>3, <1>4, <1>5, <1>6 DEF Next

LEMMA FailureStays == failed /\ [Next]_vars => failed'
  BY DEF Next, Start, ProcessMonitor, Begin, OpenStdin, OpenStdout, OpenFails, ForkFails, Fork,
    Spawn, LogMessage, OpenSocket, CloseSocket, Reader, ReaderStarts, ReaderLogs, ReaderEnds,
    AppEnds, vars, pipeVars, staticVars, readerVars

\* Whatever else is opened and closed meanwhile, a launch whose reader thread is
\* done leaves the write end of its application's stdin open and nothing else.
THEOREM OneIsLeftOpen == ~LateReaders => (Spec => []OneLeftOpen)
<1> SUFFICES ASSUME ~LateReaders
             PROVE  Spec => []OneLeftOpen
  OBVIOUS
<1>1. Init => FailInv /\ (failed \/ LeftInv)
  <2> SUFFICES ASSUME Init
               PROVE  FailInv /\ LeftInv
    OBVIOUS
  <2>1. FailInv
    BY DEF Init, FailInv, HeldBy, Free, Thing
  <2>a. 0 \in Fds
    BY DescriptorsAssumption DEF Fds
  <2>b. fd[0] = Thing("std")
    BY <2>a DEF Init, LogFd, ConsoleFd
  <2>2. fd[0].what = "std" /\ launch = 0
    BY <2>b DEF Init, Thing
  <2>3. 1..launch = {}
    BY <2>2
  <2> QED
    BY <2>1, <2>2, <2>3 DEF LeftInv
<1>2. TypeInv /\ FailInv /\ CalmInv /\ (failed \/ LeftInv) /\ [Next]_vars
        => (failed \/ LeftInv)'
  <2> SUFFICES ASSUME TypeInv, FailInv, CalmInv, failed \/ LeftInv, [Next]_vars, ~failed'
               PROVE  LeftInv'
    OBVIOUS
  <2>1. OwnInv /\ LeftInv
    BY FailureStays DEF CalmInv
  <2>2. CASE UNCHANGED vars
    BY <2>1, <2>2 DEF vars, LeftInv, Left, Kept, HeldBy
  <2> QED
    BY <2>1, <2>2, NextLeftInv
<1>3. TypeInv /\ CalmInv /\ (failed \/ LeftInv) => OneLeftOpen
  <2> SUFFICES ASSUME TypeInv, OwnInv, LeftInv, NEW n \in Launches, reader[n] = "done"
               PROVE  \E f \in Fds : HeldBy(n) = {f} /\ fd[f] = End("inW", n)
    BY DEF CalmInv, OneLeftOpen
  <2>1. n \in 1..launch /\ (n = launch => pm = "sleep")
    BY DescriptorsAssumption DEF OwnInv, Launches, TypeInv, TypeOK
  <2>2. Left(n)
    BY <2>1 DEF LeftInv, TypeInv, TypeOK
  <2> QED
    BY <2>2 DEF Left, Kept
<1> QED
  BY <1>1, <1>2, <1>3, TypeInvariance, NextFailInv, CalmInvariance, PTL DEF Spec
=============================================================================
