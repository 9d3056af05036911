----------------------------- MODULE ConfigProofs -----------------------------
(***************************************************************************)
(* What readConfig makes of a file, for every file: an induction over its  *)
(* lines.                                                                  *)
(***************************************************************************)
EXTENDS Config, FiniteSetTheorems, WellFoundedInduction, TLAPS

\* Induction up to a number: of those that fail there would be a least one.
LEMMA UpTo ==
  ASSUME NEW bound \in Nat, NEW S, 0 \in S,
         \A n \in 1..bound : n - 1 \in S => n \in S
  PROVE  \A n \in 0..bound : n \in S
<1> DEFINE Less == {pair \in Nat \X Nat : pair[1] < pair[2]}
           Fails == (0..bound) \ S
<1>1. IsWellFoundedOn(Less, Nat)
  BY NatLessThanWellFounded DEF OpToRel
<1>2. ASSUME Fails # {} PROVE FALSE
  <2>1. PICK n \in Fails : \A m \in Fails : <<m, n>> \notin Less
    <3>1. Fails \subseteq Nat
      OBVIOUS
    <3> HIDE DEF Less, Fails
    <3> QED
      BY <1>1, <1>2, <3>1, WFMin
  <2>2. n \in 1..bound /\ n - 1 \in 0..bound
    OBVIOUS
  <2>3. <<n - 1, n>> \in Less
    BY <2>2
  <2> QED
    BY <2>1, <2>2, <2>3
<1> QED
  BY <1>2

-----------------------------------------------------------------------------
(* The turns of the loop.                                                  *)

NoKeys == [key \in Accumulated |-> <<>>]

\* The recursive definition has a solution.
LEMMA TurnsAreDefined ==
  ASSUME NEW lines \in Seq(Lines)
  PROVE  MapsOfTurns(lines) =
           [n \in 0..Len(lines) |->
              IF n = 0 THEN NoKeys ELSE ReadLine(MapsOfTurns(lines)[n - 1], lines[n])]
<1> DEFINE Turns(m, f) ==
             f = [n \in 0..m |-> IF n = 0 THEN NoKeys ELSE ReadLine(f[n - 1], lines[n])]
           Defined == {m \in 0..Len(lines) : \E f : Turns(m, f)}
<1>1. 0 \in Defined
  <2>1. Turns(0, [n \in 0..0 |-> NoKeys])
    OBVIOUS
  <2>2. \E f : Turns(0, f)
    BY <2>1
  <2> QED
    BY <2>2
<1>2. ASSUME NEW m \in 1..Len(lines), m - 1 \in Defined
      PROVE  m \in Defined
  <2> PICK f : Turns(m - 1, f)
    BY <1>2
  <2> DEFINE g == [n \in 0..m |-> IF n = m THEN ReadLine(f[m - 1], lines[m]) ELSE f[n]]
  <2>1. Turns(m, g)
    <3>1. ASSUME NEW n \in 0..m
          PROVE  g[n] = IF n = 0 THEN NoKeys ELSE ReadLine(g[n - 1], lines[n])
      <4>1. CASE n = m
        BY <4>1
      <4>2. CASE n # m
        <5>1. n \in 0..(m - 1) /\ g[n] = f[n]
          BY <4>2
        <5>2. n # 0 => g[n - 1] = f[n - 1]
          BY <5>1
        <5>3. f[n] = IF n = 0 THEN NoKeys ELSE ReadLine(f[n - 1], lines[n])
          BY <5>1
        <5> QED
          BY <5>1, <5>2, <5>3
      <4> QED
        BY <4>1, <4>2
    <3> HIDE DEF g
    <3>2. g = [n \in 0..m |-> g[n]]
      BY DEF g
    <3> QED
      BY <3>1, <3>2
  <2>2. \E h : Turns(m, h)
    <3> HIDE DEF g, Turns
    <3> QED
      BY <2>1
  <2> QED
    BY <2>2
<1>3. Len(lines) \in Defined
  <2>1. Len(lines) \in Nat
    OBVIOUS
  <2> HIDE DEF Defined
  <2>2. \A n \in 0..Len(lines) : n \in Defined
    BY <1>1, <1>2, <2>1, UpTo
  <2> QED
    BY <2>1, <2>2
<1>4. MapsOfTurns(lines) = CHOOSE f : Turns(Len(lines), f)
  BY DEF MapsOfTurns, NoKeys
<1> QED
  BY <1>3, <1>4

-----------------------------------------------------------------------------
(* One turn.                                                               *)

\* What a line adds to the map, key by key.
LEMMA LineIsRead ==
  ASSUME NEW map, NEW line, Accumulated \subseteq DOMAIN map
  PROVE  /\ \A key \in Keys \ Accumulated :
              /\ key \in DOMAIN ReadLine(map, line) <=> key \in DOMAIN map \/ HasKey(line, key)
              /\ key \in DOMAIN map => ReadLine(map, line)[key] = map[key]
              /\ key \notin DOMAIN map /\ HasKey(line, key)
                   => ReadLine(map, line)[key] = <<line.value>>
         /\ \A key \in Accumulated :
              /\ key \in DOMAIN ReadLine(map, line)
              /\ ReadLine(map, line)[key] = IF StartsWithKey(line, key)
                                            THEN Append(map[key], line.value) ELSE map[key]
<1>1. CASE \E key \in Accumulated : StartsWithKey(line, key)
  <2> PICK own \in Accumulated : StartsWithKey(line, own)
    BY <1>1
  <2>1. line.key = own
    BY DEF StartsWithKey
  <2>2. ReadLine(map, line) = [map EXCEPT ![own] = Append(@, line.value)]
    BY <1>1, <2>1 DEF ReadLine
  <2>3. \A key \in Keys \ Accumulated : ~HasKey(line, key)
    BY <2>1 DEF HasKey
  <2>4. \A key \in Accumulated : StartsWithKey(line, key) <=> key = own
    BY <2>1 DEF StartsWithKey
  <2> QED
    BY <2>2, <2>3, <2>4
<1>2. CASE /\ ~\E key \in Accumulated : StartsWithKey(line, key)
           /\ \E key \in Keys \ (Accumulated \cup DOMAIN map) : HasKey(line, key)
  <2> PICK own \in Keys \ (Accumulated \cup DOMAIN map) : HasKey(line, own)
    BY <1>2
  <2> DEFINE new == [key \in {own} \cup DOMAIN map |->
                       IF key = own THEN <<line.value>> ELSE map[key]]
  <2>1. line.key = own
    BY DEF HasKey
  <2>2. ReadLine(map, line) = new
    BY <1>2, <2>1 DEF ReadLine
  <2>3. \A key \in Keys \ Accumulated : HasKey(line, key) <=> key = own
    BY <2>1 DEF HasKey
  <2> QED
    BY <1>2, <2>2, <2>3
<1>3. CASE /\ ~\E key \in Accumulated : StartsWithKey(line, key)
           /\ ~\E key \in Keys \ (Accumulated \cup DOMAIN map) : HasKey(line, key)
  BY <1>3 DEF ReadLine
<1> QED
  BY <1>1, <1>2, <1>3

-----------------------------------------------------------------------------
(* The induction.                                                          *)

Value == [kind : STRING, number : Int, text : STRING]

Assigning(lines, n, key) == {i \in 1..n : HasKey(lines[i], key)}
Starting(lines, n, key) == {i \in 1..n : StartsWithKey(lines[i], key)}

\* IsReadAs of the first n lines.
ReadSoFar(lines, n, map) ==
  /\ Accumulated \subseteq DOMAIN map
  /\ \A key \in Keys \ Accumulated :
       /\ key \in DOMAIN map <=> Assigning(lines, n, key) # {}
       /\ \A i \in Assigning(lines, n, key) :
            (\A j \in Assigning(lines, n, key) : i <= j) => map[key] = <<lines[i].value>>
  /\ \A key \in Accumulated :
       /\ map[key] \in Seq(Value)
       /\ Len(map[key]) = Cardinality(Starting(lines, n, key))
       /\ \A i \in Starting(lines, n, key) :
            map[key][Cardinality(Starting(lines, i, key))] = lines[i].value

LEMMA NothingRead ==
  ASSUME NEW lines \in Seq(Lines)
  PROVE  ReadSoFar(lines, 0, NoKeys)
<1>1. \A key : Assigning(lines, 0, key) = {} /\ Starting(lines, 0, key) = {}
  BY DEF Assigning, Starting
<1>2. Cardinality({}) = 0
  BY FS_EmptySet
<1>3. DOMAIN NoKeys = Accumulated /\ \A key \in Accumulated : NoKeys[key] = <<>>
  BY DEF NoKeys
<1>4. <<>> \in Seq(Value) /\ Len(<<>>) = 0
  OBVIOUS
<1> QED
  BY <1>1, <1>2, <1>3, <1>4 DEF ReadSoFar

\* The lines that start with a key, counted up to one of them.
LEMMA Counted ==
  ASSUME NEW lines \in Seq(Lines), NEW n \in 1..Len(lines), NEW key
  PROVE  /\ IsFiniteSet(Starting(lines, n, key))
         /\ Cardinality(Starting(lines, n, key)) \in Nat
         /\ StartsWithKey(lines[n], key)
              => Cardinality(Starting(lines, n, key))
                   = Cardinality(Starting(lines, n - 1, key)) + 1
         /\ ~StartsWithKey(lines[n], key)
              => Starting(lines, n, key) = Starting(lines, n - 1, key)
         /\ \A i \in Starting(lines, n, key) :
              Cardinality(Starting(lines, i, key)) \in 1..Cardinality(Starting(lines, n, key))
<1>1. ASSUME NEW m \in Nat
      PROVE  /\ IsFiniteSet(Starting(lines, m, key))
             /\ Cardinality(Starting(lines, m, key)) \in Nat
  <2>1. IsFiniteSet(1..m) /\ Starting(lines, m, key) \subseteq 1..m
    BY FS_Interval DEF Starting
  <2> QED
    BY <2>1, FS_Subset, FS_CardinalityType
<1>2. ASSUME StartsWithKey(lines[n], key)
      PROVE  Cardinality(Starting(lines, n, key))
               = Cardinality(Starting(lines, n - 1, key)) + 1
  <2>1. /\ Starting(lines, n, key) = Starting(lines, n - 1, key) \cup {n}
        /\ n \notin Starting(lines, n - 1, key)
    BY <1>2 DEF Starting
  <2>2. IsFiniteSet(Starting(lines, n - 1, key))
    BY <1>1
  <2> QED
    BY <2>1, <2>2, FS_AddElement
<1>3. ASSUME ~StartsWithKey(lines[n], key)
      PROVE  Starting(lines, n, key) = Starting(lines, n - 1, key)
  BY <1>3 DEF Starting
<1>4. ASSUME NEW i \in Starting(lines, n, key)
      PROVE  Cardinality(Starting(lines, i, key)) \in 1..Cardinality(Starting(lines, n, key))
  <2>1. i \in 1..n
    BY DEF Starting
  <2>2. Starting(lines, i, key) \subseteq Starting(lines, n, key)
    BY <2>1 DEF Starting
  <2>3. i \in Starting(lines, i, key)
    BY <2>1 DEF Starting
  <2>4. /\ Cardinality(Starting(lines, i, key)) \in Nat
        /\ Cardinality(Starting(lines, n, key)) \in Nat
        /\ IsFiniteSet(Starting(lines, i, key))
        /\ IsFiniteSet(Starting(lines, n, key))
    BY <1>1, <2>1
  <2>5. Cardinality(Starting(lines, i, key)) <= Cardinality(Starting(lines, n, key))
    BY <2>2, <2>4, FS_Subset
  <2>6. Cardinality(Starting(lines, i, key)) # 0
    BY <2>3, <2>4, FS_EmptySet
  <2> QED
    BY <2>4, <2>5, <2>6
<1> QED
  BY <1>1, <1>2, <1>3, <1>4

LEMMA TurnReadsOn ==
  ASSUME NEW lines \in Seq(Lines), NEW n \in 1..Len(lines), NEW map,
         ReadSoFar(lines, n - 1, map)
  PROVE  ReadSoFar(lines, n, ReadLine(map, lines[n]))
<1> DEFINE new == ReadLine(map, lines[n])
<1>1. /\ \A key \in Keys \ Accumulated :
           /\ key \in DOMAIN new <=> key \in DOMAIN map \/ HasKey(lines[n], key)
           /\ key \in DOMAIN map => new[key] = map[key]
           /\ key \notin DOMAIN map /\ HasKey(lines[n], key) => new[key] = <<lines[n].value>>
      /\ \A key \in Accumulated :
           /\ key \in DOMAIN new
           /\ new[key] = IF StartsWithKey(lines[n], key)
                         THEN Append(map[key], lines[n].value) ELSE map[key]
  BY LineIsRead DEF ReadSoFar
<1>2. lines[n] \in Lines /\ lines[n].value \in Value
  <2>1. lines[n] \in Lines
    OBVIOUS
  <2> QED
    BY <2>1 DEF Lines, Value
<1> HIDE DEF new
<1>3. ASSUME NEW key \in Keys \ Accumulated
      PROVE  /\ key \in DOMAIN new <=> Assigning(lines, n, key) # {}
             /\ \A i \in Assigning(lines, n, key) :
                  (\A j \in Assigning(lines, n, key) : i <= j) => new[key] = <<lines[i].value>>
  <2>1. \A i : i \in Assigning(lines, n, key)
          <=> i \in Assigning(lines, n - 1, key) \/ (i = n /\ HasKey(lines[n], key))
    BY DEF Assigning
  <2>2. \A i \in Assigning(lines, n - 1, key) : i \in Nat /\ i < n
    BY DEF Assigning
  <2>3. /\ key \in DOMAIN map <=> Assigning(lines, n - 1, key) # {}
        /\ \A i \in Assigning(lines, n - 1, key) :
             (\A j \in Assigning(lines, n - 1, key) : i <= j) => map[key] = <<lines[i].value>>
    BY DEF ReadSoFar
  <2>4. /\ key \in DOMAIN new <=> key \in DOMAIN map \/ HasKey(lines[n], key)
        /\ key \in DOMAIN map => new[key] = map[key]
        /\ key \notin DOMAIN map /\ HasKey(lines[n], key) => new[key] = <<lines[n].value>>
    BY <1>1
  <2>5. ASSUME NEW i \in Assigning(lines, n, key),
               \A j \in Assigning(lines, n, key) : i <= j
        PROVE  new[key] = <<lines[i].value>>
    <3>1. CASE i = n
      <4>1. ASSUME NEW j \in Assigning(lines, n - 1, key) PROVE FALSE
        <5>1. j \in Assigning(lines, n, key) /\ j \in Nat /\ j < n
          BY <2>1, <2>2
        <5> QED
          BY <2>5, <3>1, <5>1
      <4>2. HasKey(lines[n], key)
        BY <2>1, <3>1, <4>1
      <4> QED
        BY <2>3, <2>4, <3>1, <4>1, <4>2
    <3>2. CASE i # n
      BY <2>1, <2>3, <2>4, <2>5, <3>2
    <3> QED
      BY <3>1, <3>2
  <2> QED
    BY <2>1, <2>3, <2>4, <2>5
<1>4. ASSUME NEW key \in Accumulated
      PROVE  /\ new[key] \in Seq(Value)
             /\ Len(new[key]) = Cardinality(Starting(lines, n, key))
             /\ \A i \in Starting(lines, n, key) :
                  new[key][Cardinality(Starting(lines, i, key))] = lines[i].value
  <2>1. /\ map[key] \in Seq(Value)
        /\ Len(map[key]) = Cardinality(Starting(lines, n - 1, key))
        /\ \A i \in Starting(lines, n - 1, key) :
             map[key][Cardinality(Starting(lines, i, key))] = lines[i].value
    BY DEF ReadSoFar
  <2>2. CASE ~StartsWithKey(lines[n], key)
    BY <1>1, <2>1, <2>2, Counted
  <2>3. CASE StartsWithKey(lines[n], key)
    <3>1. new[key] = Append(map[key], lines[n].value)
      BY <1>1, <2>3
    <3>2. Cardinality(Starting(lines, n, key)) = Len(map[key]) + 1
      BY <2>1, <2>3, Counted
    <3>3. ASSUME NEW i \in Starting(lines, n, key), i # n
          PROVE  new[key][Cardinality(Starting(lines, i, key))] = lines[i].value
      <4>1. i \in Starting(lines, n - 1, key) /\ i \in 1..(n - 1)
        BY <3>3 DEF Starting
      <4>2. Cardinality(Starting(lines, i, key))
              \in 1..Cardinality(Starting(lines, n - 1, key))
        <5>1. n - 1 \in 1..Len(lines)
          BY <4>1
        <5> QED
          BY <4>1, <5>1, Counted
      <4> QED
        BY <1>2, <2>1, <3>1, <4>1, <4>2
    <3>4. new[key][Cardinality(Starting(lines, n, key))] = lines[n].value
      BY <1>2, <2>1, <3>1, <3>2
    <3>5. new[key] \in Seq(Value) /\ Len(new[key]) = Len(map[key]) + 1
      BY <1>2, <2>1, <3>1
    <3> QED
      BY <3>2, <3>3, <3>4, <3>5
  <2> QED
    BY <2>2, <2>3
<1>5. Accumulated \subseteq DOMAIN new
  BY <1>1
<1> QED
  BY <1>3, <1>4, <1>5 DEF ReadSoFar, new

-----------------------------------------------------------------------------
\* Of every file, of whatever length, readConfig keeps the first line that
\* assigns an ordinary key and each line that starts with an accumulated one, in
\* their order: the map is what it should be, and so whoever finds a key missing
\* has a file without a line for it.
THEOREM FileIsRead ==
  ASSUME NEW lines \in Seq(Lines)
  PROVE  IsReadAs(lines, ReadConfig(lines))
<1> DEFINE Maps == MapsOfTurns(lines)
           Read == {n \in 0..Len(lines) : ReadSoFar(lines, n, Maps[n])}
<1>1. Maps[0] = NoKeys /\ \A n \in 1..Len(lines) : Maps[n] = ReadLine(Maps[n - 1], lines[n])
  <2> HIDE DEF Maps
  <2>1. Maps = [n \in 0..Len(lines) |->
                  IF n = 0 THEN NoKeys ELSE ReadLine(Maps[n - 1], lines[n])]
    BY TurnsAreDefined DEF Maps
  <2>2. Len(lines) \in Nat
    OBVIOUS
  <2> QED
    BY <2>1, <2>2
<1> HIDE DEF Maps
<1>2. 0 \in Read
  BY <1>1, NothingRead
<1>3. \A n \in 1..Len(lines) : n - 1 \in Read => n \in Read
  BY <1>1, TurnReadsOn
<1>4. ReadSoFar(lines, Len(lines), ReadConfig(lines))
  <2>1. Len(lines) \in Nat
    OBVIOUS
  <2>2. \A n \in 0..Len(lines) : n \in Read
    <3> HIDE DEF Read
    <3> QED
      BY <1>2, <1>3, <2>1, UpTo
  <2> QED
    BY <2>1, <2>2 DEF ReadConfig, Maps
<1>5. ASSUME NEW key \in Keys \ Accumulated
      PROVE  {i \in DOMAIN lines : HasKey(lines[i], key)} = Assigning(lines, Len(lines), key)
  BY DEF Assigning
<1>6. ASSUME NEW key \in Accumulated
      PROVE  {i \in DOMAIN lines : StartsWithKey(lines[i], key)}
               = Starting(lines, Len(lines), key)
  BY DEF Starting
<1>7. ASSUME NEW key, NEW i \in Starting(lines, Len(lines), key)
      PROVE  {j \in Starting(lines, Len(lines), key) : j <= i} = Starting(lines, i, key)
  BY DEF Starting
<1>8. ASSUME NEW key \in Keys \ Accumulated
      PROVE  LET at == {i \in DOMAIN lines : HasKey(lines[i], key)}
             IN  /\ key \in DOMAIN ReadConfig(lines) <=> at # {}
                 /\ \A i \in at :
                      (\A j \in at : i <= j) => ReadConfig(lines)[key] = <<lines[i].value>>
  BY <1>4, <1>5 DEF ReadSoFar
<1>9. ASSUME NEW key \in Accumulated
      PROVE  LET at == {i \in DOMAIN lines : StartsWithKey(lines[i], key)}
             IN  /\ Len(ReadConfig(lines)[key]) = Cardinality(at)
                 /\ \A i \in at : ReadConfig(lines)[key][Cardinality({j \in at : j <= i})]
                                    = lines[i].value
  <2> DEFINE at == Starting(lines, Len(lines), key)
  <2>1. /\ Len(ReadConfig(lines)[key]) = Cardinality(at)
        /\ \A i \in at : ReadConfig(lines)[key][Cardinality(Starting(lines, i, key))]
                           = lines[i].value
    BY <1>4 DEF ReadSoFar
  <2>2. \A i \in at : ReadConfig(lines)[key][Cardinality({j \in at : j <= i})]
                        = lines[i].value
    BY <1>7, <2>1
  <2> HIDE DEF at
  <2>3. {i \in DOMAIN lines : StartsWithKey(lines[i], key)} = at
    BY <1>6 DEF at
  <2> QED
    BY <2>1, <2>2, <2>3
<1> QED
  BY <1>8, <1>9 DEF IsReadAs
=============================================================================
