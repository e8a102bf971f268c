------------------------- MODULE LoopLevels_proofs -------------------------
(***************************************************************************)
(* Proofs about two components that share nothing but this module.         *)
(* LoopLevels, for any loops, faders and history of sent levels: the store *)
(* adopts a level only if somebody else wrote it.  FavoritesMove, for any  *)
(* library, plan and cuts: its undo takes what it finds, what is undone is *)
(* as before, every favourite reads as it did, and no command loses what   *)
(* was saved.                                                              *)
(***************************************************************************)
EXTENDS LoopLevels, FavoritesMove, SequenceTheorems, FiniteSetTheorems, WellFoundedInduction, TLAPS

\* No report is handled between a send and its note.
Orderly == "early" \notin Trouble

-----------------------------------------------------------------------------
(* Numbers.                                                                  *)

LEMMA Ordered ==
  ASSUME NEW x \in Nat, NEW y \in Nat, NEW m \in Nat, NEW n \in Nat, x <= m, y <= n
  PROVE  x * y \in Nat /\ x * y <= m * n
<1>1. x * y \in Nat /\ m * y \in Nat /\ m * n \in Nat
  OBVIOUS
<1>2. (m - x) * y \in Nat /\ (n - y) * m \in Nat
  <2>1. m - x \in Nat /\ n - y \in Nat
    OBVIOUS
  <2>2. \A i, j \in Nat : i * j \in Nat
    OBVIOUS
  <2>3. QED
    BY <2>1, <2>2
<1>3. (m - x) * y = m * y - x * y /\ (n - y) * m = m * n - m * y
  OBVIOUS
<1>4. QED
  BY <1>1, <1>2, <1>3

\* Dividing by d what is at most k times d leaves at most k.
LEMMA Quotient ==
  ASSUME NEW x \in Nat, NEW d \in Nat \ {0}, NEW k \in Nat, x <= k * d
  PROVE  x \div d \in 0..k
<1> DEFINE q == x \div d
           r == x % d
<1>1. q \in Int /\ r \in 0..(d - 1) /\ x = d * q + r
  BY Z3
<1> HIDE DEF q, r
<1>2. q >= 0
  <2>1. CASE q < 0
    <3>1. (0 - q) - 1 \in Nat /\ d * ((0 - q) - 1) \in Nat
      BY <1>1, <2>1
    <3>2. d * ((0 - q) - 1) = (0 - d * q) - d
      BY <1>1
    <3>3. d * q \in Int
      BY <1>1
    <3>4. QED
      BY <1>1, <3>1, <3>2, <3>3
  <2>2. QED
    BY <1>1, <2>1
<1>3. q <= k
  <2>1. CASE q > k
    <3>1. (q - k) - 1 \in Nat /\ d * ((q - k) - 1) \in Nat
      BY <1>1, <2>1
    <3>2. d * ((q - k) - 1) = (d * q - k * d) - d
      BY <1>1
    <3>3. d * q \in Int /\ k * d \in Int
      BY <1>1
    <3>4. QED
      BY <1>1, <3>1, <3>2, <3>3
  <2>2. QED
    BY <1>1, <2>1
<1>4. QED
  BY <1>1, <1>2, <1>3 DEF q

\* Relative pickup keeps a position on the fader.
LEMMA ScaledIsTravel ==
  ASSUME NEW prev \in Travel, NEW raw \in Travel, NEW ref \in Travel
  PROVE  Scaled(prev, raw, ref) \in Travel
<1>1. Top \in Nat
  BY LevelAssumption
<1>2. CASE raw < prev
  <2>0. ~(raw > prev)
    BY <1>1, <1>2 DEF Travel
  <2>1. ref * raw \in Nat /\ ref * raw <= ref * prev
    BY <1>1, <1>2, Ordered DEF Travel
  <2>2. (ref * raw) \div prev \in 0..ref
    BY <1>1, <1>2, <2>1, Quotient DEF Travel
  <2>3. Scaled(prev, raw, ref) = (ref * raw) \div prev
    BY <1>2, <2>0, Zenon DEF Scaled
  <2>4. QED
    BY <1>1, <2>2, <2>3 DEF Travel
<1>3. CASE raw > prev
  <2>0. ~(raw < prev)
    BY <1>1, <1>3 DEF Travel
  <2>1. /\ Top - ref \in Nat /\ raw - prev \in Nat /\ Top - prev \in Nat \ {0}
        /\ raw - prev <= Top - prev
    BY <1>1, <1>3 DEF Travel
  <2>2. (Top - ref) * (raw - prev) \in Nat
        /\ (Top - ref) * (raw - prev) <= (Top - ref) * (Top - prev)
    BY <2>1, Ordered
  <2>3. ((Top - ref) * (raw - prev)) \div (Top - prev) \in 0..(Top - ref)
    BY <2>1, <2>2, Quotient
  <2>4. Scaled(prev, raw, ref) = ref + ((Top - ref) * (raw - prev)) \div (Top - prev)
    BY <1>3, <2>0, Zenon DEF Scaled
  <2>5. QED
    BY <1>1, <2>3, <2>4 DEF Travel
<1>4. CASE raw = prev
  <2>0. ~(raw < prev) /\ ~(raw > prev)
    BY <1>1, <1>4 DEF Travel
  <2>1. Scaled(prev, raw, ref) = ref
    BY <1>4, <2>0, Zenon DEF Scaled
  <2>2. QED
    BY <2>1
<1>5. QED
  BY <1>1, <1>2, <1>3, <1>4 DEF Travel

\* Two positions make a level.
LEMMA ProductIsLevel ==
  ASSUME NEW u \in Travel, NEW m \in Travel
  PROVE  u * m \in Level
<1>1. Top \in Nat
  BY LevelAssumption
<1>2. u * m \in Nat /\ u * m <= Top * Top /\ Top * Top \in Nat
  BY <1>1, Ordered DEF Travel
<1>3. QED
  BY <1>2 DEF Level

\* The position a level implies is on the fader.
LEMMA ImpliedIsTravel ==
  ASSUME TypeOK, NEW level \in Level
  PROVE  Implied(level) \in Travel
<1>1. Top \in Nat /\ level \in Nat /\ master \in Nat
  BY LevelAssumption DEF Level, TypeOK, Travel
<1>2. ASSUME master # 0, ~(level \div master > Top)
      PROVE  level \div master \in Travel
  <2>1. level <= level * master
    <3>1. level * (master - 1) \in Nat
      BY <1>1, <1>2, Ordered
    <3>2. level * (master - 1) = level * master - level /\ level * master \in Nat
      BY <1>1, <1>2
    <3>3. QED
      BY <1>1, <3>1, <3>2
  <2>2. level \div master \in 0..level
    BY <1>1, <1>2, <2>1, Quotient
  <2>3. QED
    BY <1>1, <1>2, <2>2 DEF Travel
<1>3. QED
  BY <1>1, <1>2 DEF Implied, Travel

\* The ramp stays between where it is and where it goes.
LEMMA TowardIsLevel ==
  ASSUME NEW c \in Level, NEW t \in Level
  PROVE  Toward(c, t) \in Level
<1>1. Top * Top \in Nat
  BY LevelAssumption
<1>2. QED
  BY <1>1 DEF Toward, Level

-----------------------------------------------------------------------------
(* The inductive invariant.                                                  *)

\* What was sent of a loop, its ramp has passed through.
SentIsRamped == \A l \in Loops : Len(sent[l]) > 0 => current[l] # None

\* Echoes come in before History further levels are remembered.
AgesInTime ==
  /\ History \in Nat
  /\ ~noted => \A l \in Loops : flight[l] # None => flight[l].age < History

\* A level the bench wrote is the one sent last, or about to be remembered as
\* such; or nobody ever wrote one.
LevelIsSent ==
  \A l \in Loops :
    ~wet[l].song =>
      \/ Len(sent[l]) = 0 /\ reported[l] = wet[l].level /\ (noted \/ current[l] = None)
      \/ noted /\ Len(sent[l]) > 0 /\ sent[l][Len(sent[l])] = wet[l].level
      \/ ~noted /\ current[l] # None /\ wet[l].level = current[l]

\* Where among the levels sent the echo under way is.
EchoAt(l, n) ==
  /\ sent[l][n] = flight[l].level
  /\ n + flight[l].age >= Len(sent[l])
  /\ noted \/ flight[l].age + 1 < History

\* An echo under way is of a level that is still remembered, or about to be.
EchoIsKnown ==
  \A l \in Loops :
    flight[l] # None /\ ~flight[l].song =>
      \/ \E n \in 1..Len(sent[l]) : EchoAt(l, n)
      \/ ~noted /\ current[l] # None /\ flight[l].level = current[l] /\ flight[l].age = 0

Typed == TypeOK /\ AgesInTime
IInv  == Typed /\ SentIsRamped /\ LevelIsSent /\ EchoIsKnown

LEMMA Begins == Init => IInv
<1>1. SUFFICES ASSUME Init PROVE IInv
  OBVIOUS
<1>2. /\ Top \in Nat \ {0} /\ Rest \in Nat /\ History \in Nat \ {0}
      /\ 0 \in Loops /\ Loops \subseteq Nat /\ Faders \subseteq Loops /\ MaxMoves \in Nat /\ MaxSongs \in Nat
  BY LevelAssumption
<1>3. Top \in Travel /\ Top * Top \in Level
  <2>1. Top \in Travel
    BY <1>2 DEF Travel
  <2>2. QED
    BY <2>1, ProductIsLevel
<1>4. Len(<<>>) = 0 /\ <<>> \in Seq(Level)
  BY EmptySeq
<1>5. TypeOK
  <2>1. /\ user \in [Loops -> Travel] /\ master \in Travel
        /\ anchor \in [Faders -> Travel \cup {None}]
        /\ target \in [Loops -> Level \cup {None}] /\ current \in [Loops -> Level \cup {None}]
        /\ \A l \in Loops : target[l] # None => current[l] # None
        /\ sent \in [Loops -> Seq(Level)] /\ \A l \in Loops : Len(sent[l]) <= History
    BY <1>1, <1>2, <1>3, <1>4 DEF Init
  <2>2. /\ since \in 0..Rest /\ noted \in BOOLEAN
        /\ wet \in [Loops -> [level : Level, song : BOOLEAN]]
        /\ reported \in [Loops -> Level]
        /\ flight \in [Loops -> Report \cup {None}]
        /\ loaded \subseteq Loops
        /\ moves \in 0..MaxMoves /\ songs \in 0..MaxSongs
    BY <1>1, <1>2, <1>3 DEF Init
  <2>3. offset \in Loops
    BY <1>1, <1>2 DEF Init
  <2>4. QED
    BY <2>1, <2>2, <2>3 DEF TypeOK
<1>6. AgesInTime /\ SentIsRamped /\ LevelIsSent /\ EchoIsKnown
  BY <1>1, <1>2, <1>4 DEF Init, AgesInTime, SentIsRamped, LevelIsSent, EchoIsKnown
<1>7. QED
  BY <1>5, <1>6 DEF IInv, Typed

-----------------------------------------------------------------------------
(* The sender.                                                               *)

\* What a pass of the ramp leaves of the sender, its types and its echoes.
Passed ==
  /\ target' \in [Loops -> Level \cup {None}] /\ current' \in [Loops -> Level \cup {None}]
  /\ \A l \in Loops : target'[l] # None => current'[l] # None
  /\ since' \in 0..Rest /\ noted' \in BOOLEAN
  /\ wet' \in [Loops -> [level : Level, song : BOOLEAN]]
  /\ AgesInTime'
  /\ SentIsRamped' /\ LevelIsSent' /\ EchoIsKnown'

LEMMA NoneIsNoLevel == None \notin Level
<1>1. None \notin Int /\ Top * Top \in Nat
  BY LevelAssumption
<1>2. QED
  BY <1>1 DEF Level

LEMMA PassKeeps ==
  ASSUME IInv, noted,
         NEW c \in [Loops -> Level \cup {None}], NEW t \in [Loops -> Level \cup {None}],
         \A l \in Loops : t[l] # None => c[l] # None,
         \A l \in Loops : current[l] # None => c[l] # None,
         TickFrom(c, t),
         sent' = sent, reported' = reported, flight' = flight
  PROVE  Passed
<1> DEFINE now == [l \in Loops |-> IF t[l] = None THEN c[l] ELSE Toward(c[l], t[l])]
<1>1. now \in [Loops -> Level \cup {None}]
      /\ \A l \in Loops : c[l] # None => now[l] # None
  <2>1. ASSUME NEW l \in Loops
        PROVE  now[l] \in Level \cup {None} /\ (c[l] # None => now[l] # None)
    <3>1. CASE t[l] = None
      BY <3>1
    <3>2. CASE t[l] # None
      <4>1. c[l] \in Level /\ t[l] \in Level
        BY <3>2
      <4>2. now[l] \in Level
        BY <3>2, <4>1, TowardIsLevel
      <4>3. QED
        BY <4>2, NoneIsNoLevel
    <3>3. QED
      BY <3>1, <3>2
  <2>2. QED
    BY <2>1
<1>2. /\ current' = now /\ target' = t
      /\ \/ /\ now # c /\ EchoesInTime
            /\ since' = 0 /\ noted' = FALSE
            /\ wet' = [l \in Loops |-> IF now[l] = None THEN wet[l]
                                       ELSE [level |-> now[l], song |-> FALSE]]
         \/ /\ since' = (IF since < Rest THEN since + 1 ELSE since)
            /\ noted' = TRUE /\ wet' = wet
  BY DEF TickFrom
<1> HIDE DEF now
<1>3. /\ ~noted' => EchoesInTime
      /\ noted' => wet' = wet
      /\ ~noted' => wet' = [l \in Loops |-> IF now[l] = None THEN wet[l]
                                            ELSE [level |-> now[l], song |-> FALSE]]
      /\ noted' \in BOOLEAN
  BY <1>2
<1>4. /\ current' = now /\ target' = t
      /\ since' = 0 \/ since' = (IF since < Rest THEN since + 1 ELSE since)
  BY <1>2
<1>5. since \in 0..Rest /\ Rest \in Nat /\ History \in Nat \ {0}
  BY LevelAssumption DEF IInv, Typed, TypeOK
<1>6. since' \in 0..Rest
  BY <1>4, <1>5
<1>7. wet' \in [Loops -> [level : Level, song : BOOLEAN]]
  <2>1. wet \in [Loops -> [level : Level, song : BOOLEAN]]
    BY DEF IInv, Typed, TypeOK
  <2>2. ASSUME NEW l \in Loops
        PROVE  wet'[l] \in [level : Level, song : BOOLEAN]
    <3>1. CASE ~noted' /\ now[l] # None
      <4>1. wet'[l] = [level |-> now[l], song |-> FALSE] /\ now[l] \in Level
        BY <1>1, <1>3, <3>1
      <4>2. QED
        BY <4>1
    <3>2. CASE ~(~noted' /\ now[l] # None)
      BY <1>3, <2>1, <3>2
    <3>3. QED
      BY <3>1, <3>2
  <2>3. QED
    BY <1>3, <2>1, <2>2
<1>8. /\ target' \in [Loops -> Level \cup {None}] /\ current' \in [Loops -> Level \cup {None}]
      /\ \A l \in Loops : target'[l] # None => current'[l] # None
      /\ \A l \in Loops : current[l] # None => current'[l] # None
  BY <1>1, <1>4
<1>9. AgesInTime'
  <2>1. ~noted' => \A l \in Loops : flight[l] # None => flight[l].age < History - 1
    BY <1>3 DEF EchoesInTime
  <2>2. flight \in [Loops -> Report \cup {None}]
    BY DEF IInv, Typed, TypeOK
  <2>3. ASSUME ~noted', NEW l \in Loops, flight[l] # None
        PROVE  flight[l].age < History
    <3>1. flight[l].age < History - 1 /\ flight[l].age \in 0..History
      BY <2>1, <2>2, <2>3 DEF Report
    <3>2. QED
      BY <1>5, <3>1
  <2>4. QED
    BY <1>5, <2>3 DEF AgesInTime
<1>10. SentIsRamped'
  BY <1>8 DEF IInv, SentIsRamped
<1>11. LevelIsSent'
  <2>1. ASSUME NEW l \in Loops, ~wet'[l].song
        PROVE  \/ Len(sent[l]) = 0 /\ reported[l] = wet'[l].level /\ (noted' \/ current'[l] = None)
               \/ noted' /\ Len(sent[l]) > 0 /\ sent[l][Len(sent[l])] = wet'[l].level
               \/ ~noted' /\ current'[l] # None /\ wet'[l].level = current'[l]
    <3>1. CASE ~noted' /\ now[l] # None
      BY <1>1, <1>3, <1>4, <3>1, NoneIsNoLevel
    <3>2. CASE ~(~noted' /\ now[l] # None)
      <4>1. wet'[l] = wet[l]
        BY <1>3, <3>2
      <4>2. \/ Len(sent[l]) = 0 /\ reported[l] = wet[l].level
            \/ Len(sent[l]) > 0 /\ sent[l][Len(sent[l])] = wet[l].level
        BY <2>1, <4>1 DEF IInv, LevelIsSent
      <4>3. CASE ~noted'
        <5>1. ~(Len(sent[l]) > 0)
          BY <1>4, <1>8, <3>2, <4>3 DEF IInv, SentIsRamped
        <5>2. current'[l] = None
          BY <1>4, <3>2, <4>3
        <5>3. QED
          BY <4>1, <4>2, <5>1, <5>2
      <4>4. CASE noted'
        BY <4>1, <4>2, <4>4
      <4>5. QED
        BY <4>3, <4>4
    <3>3. QED
      BY <3>1, <3>2
  <2>2. QED
    BY <2>1 DEF LevelIsSent
<1>12. EchoIsKnown'
  <2>1. flight \in [Loops -> Report \cup {None}] /\ sent \in [Loops -> Seq(Level)]
    BY DEF IInv, Typed, TypeOK
  <2>2. ASSUME NEW l \in Loops, flight[l] # None, ~flight[l].song
        PROVE  \E n \in 1..Len(sent[l]) : EchoAt(l, n)'
    <3>1. PICK n \in 1..Len(sent[l]) : EchoAt(l, n)
      BY <2>2 DEF IInv, EchoIsKnown
    <3>2. noted' \/ flight[l].age + 1 < History
      <4>1. ~noted' => flight[l].age < History - 1
        BY <1>3, <2>2 DEF EchoesInTime
      <4>2. flight[l].age \in 0..History
        BY <2>1, <2>2 DEF Report
      <4>3. QED
        BY <1>3, <1>5, <4>1, <4>2
    <3>3. EchoAt(l, n)'
      BY <3>1, <3>2 DEF EchoAt
    <3>4. QED
      BY <3>3
  <2>3. QED
    BY <2>2 DEF EchoIsKnown
<1>13. QED
  BY <1>3, <1>6, <1>7, <1>8, <1>9, <1>10, <1>11, <1>12 DEF Passed

LEMMA TickKeeps ==
  ASSUME IInv, Tick
  PROVE  IInv'
<1>1. /\ noted /\ TickFrom(current, target)
      /\ sent' = sent /\ reported' = reported /\ flight' = flight
      /\ user' = user /\ master' = master /\ offset' = offset /\ anchor' = anchor
      /\ loaded' = loaded /\ moves' = moves /\ songs' = songs
  BY DEF Tick, store
<1>2. Passed
  <2>1. /\ current \in [Loops -> Level \cup {None}] /\ target \in [Loops -> Level \cup {None}]
        /\ \A l \in Loops : target[l] # None => current[l] # None
    BY DEF IInv, Typed, TypeOK
  <2>2. QED
    BY <1>1, <2>1, PassKeeps
<1>3. TypeOK'
  BY <1>1, <1>2 DEF IInv, Typed, TypeOK, Passed
<1>4. QED
  BY <1>2, <1>3 DEF IInv, Typed, Passed

\* What is remembered of the levels sent, with one more.
Remembered(l) ==
  LET all == Append(sent[l], current[l])
  IN  IF Len(all) > History THEN Tail(all) ELSE all

LEMMA RememberedIs ==
  ASSUME Typed, NEW l \in Loops, current[l] # None
  PROVE  /\ Remembered(l) \in Seq(Level)
         /\ Len(Remembered(l)) > 0 /\ Len(Remembered(l)) <= History
         /\ Remembered(l)[Len(Remembered(l))] = current[l]
         /\ \/ /\ Len(Remembered(l)) = Len(sent[l]) + 1
               /\ \A n \in 1..Len(sent[l]) : Remembered(l)[n] = sent[l][n]
            \/ /\ Len(Remembered(l)) = Len(sent[l]) /\ Len(sent[l]) = History
               /\ \A n \in 2..Len(sent[l]) : Remembered(l)[n - 1] = sent[l][n]
<1> DEFINE s == sent[l]
           x == current[l]
           all == Append(s, x)
<1>1. s \in Seq(Level) /\ Len(s) <= History /\ Len(s) \in Nat /\ x \in Level
      /\ History \in Nat \ {0}
  BY LevelAssumption, LenProperties DEF Typed, TypeOK
<1>2. Remembered(l) = IF Len(all) > History THEN Tail(all) ELSE all
  BY DEF Remembered
<1> HIDE DEF s, x
<1>3. /\ all \in Seq(Level) /\ Len(all) = Len(s) + 1
      /\ \A n \in 1..Len(s) : all[n] = s[n]
      /\ all[Len(s) + 1] = x
  BY <1>1, AppendProperties
<1> HIDE DEF all
<1>4. CASE Len(all) > History
  <2>1. Len(s) = History /\ Len(all) > 1
    BY <1>1, <1>3, <1>4
  <2>2. all # <<>>
    BY <2>1, EmptySeq
  <2>3. /\ Tail(all) \in Seq(Level) /\ Len(Tail(all)) = Len(all) - 1
        /\ \A n \in 1..(Len(all) - 1) : Tail(all)[n] = all[n + 1]
    BY <1>3, <2>2, HeadTailProperties
  <2>4. Remembered(l) = Tail(all) /\ Len(Remembered(l)) = Len(s)
    BY <1>1, <1>2, <1>3, <1>4, <2>3
  <2>5. Remembered(l)[Len(Remembered(l))] = x
    BY <1>1, <1>3, <2>1, <2>3, <2>4
  <2>6. ASSUME NEW n \in 2..Len(s)
        PROVE  Remembered(l)[n - 1] = s[n]
    <3>1. n - 1 \in 1..(Len(all) - 1) /\ (n - 1) + 1 = n /\ n \in 1..Len(s)
      BY <1>1, <1>3
    <3>2. QED
      BY <1>3, <2>3, <2>4, <3>1
  <2>7. /\ Remembered(l) \in Seq(Level)
        /\ Len(Remembered(l)) > 0 /\ Len(Remembered(l)) <= History
        /\ Len(Remembered(l)) = Len(s) /\ Len(s) = History
    <3>1. Remembered(l) \in Seq(Level) /\ Len(Remembered(l)) = History
      BY <2>1, <2>3, <2>4
    <3>2. QED
      BY <1>1, <2>1, <3>1
  <2>8. QED
    BY <2>5, <2>6, <2>7 DEF s, x
<1>5. CASE ~(Len(all) > History)
  <2>1. Remembered(l) = all
    BY <1>2, <1>5
  <2>2. QED
    BY <1>1, <1>3, <1>5, <2>1 DEF s, x
<1>6. QED
  BY <1>4, <1>5

LEMMA NoteKeeps ==
  ASSUME IInv, Note
  PROVE  IInv'
<1>1. /\ ~noted /\ noted'
      /\ user' = user /\ master' = master /\ offset' = offset /\ anchor' = anchor
      /\ target' = target /\ current' = current /\ since' = since /\ wet' = wet
      /\ reported' = reported /\ loaded' = loaded /\ moves' = moves /\ songs' = songs
      /\ noted' = TRUE
      /\ sent' = [l \in Loops |-> IF current[l] = None THEN sent[l] ELSE Remembered(l)]
      /\ flight' = [l \in Loops |->
                      IF flight[l] = None THEN None ELSE [flight[l] EXCEPT !.age = @ + 1]]
  BY DEF Note, store, Remembered
<1>2. TypeOK /\ AgesInTime /\ SentIsRamped /\ LevelIsSent /\ EchoIsKnown
      /\ History \in Nat \ {0}
  BY LevelAssumption DEF IInv, Typed
<1>3. \A l \in Loops : sent[l] \in Seq(Level) /\ Len(sent[l]) \in Nat /\ Len(sent[l]) <= History
  BY <1>2, LenProperties DEF TypeOK
<1>4. ASSUME NEW l \in Loops
      PROVE  sent'[l] \in Seq(Level) /\ Len(sent'[l]) <= History
  <2>1. CASE current[l] = None
    BY <1>1, <1>3, <2>1
  <2>2. CASE current[l] # None
    BY <1>1, <1>2, <2>2, RememberedIs DEF Typed
  <2>3. QED
    BY <2>1, <2>2
<1>5. ASSUME NEW l \in Loops, flight[l] # None
      PROVE  /\ flight[l] \in Report
             /\ flight[l].age \in Nat /\ flight[l].age < History
             /\ flight'[l] \in Report
             /\ flight'[l].level = flight[l].level /\ flight'[l].song = flight[l].song
             /\ flight'[l].age = flight[l].age + 1
  <2>1. flight[l] \in Report /\ flight[l].age < History
    BY <1>1, <1>2, <1>5 DEF TypeOK, AgesInTime
  <2>2. flight'[l] = [flight[l] EXCEPT !.age = @ + 1]
    BY <1>1, <1>5
  <2>3. flight[l].age \in Nat /\ flight[l].age + 1 \in 0..History
    BY <1>2, <2>1 DEF Report
  <2>4. QED
    BY <2>1, <2>2, <2>3 DEF Report
<1>6. TypeOK'
  <2>1. sent' \in [Loops -> Seq(Level)] /\ \A l \in Loops : Len(sent'[l]) <= History
    BY <1>1, <1>4
  <2>2. flight' \in [Loops -> Report \cup {None}]
    BY <1>1, <1>5
  <2>3. QED
    BY <1>1, <1>2, <2>1, <2>2 DEF TypeOK
<1>7. AgesInTime'
  BY <1>1, <1>2 DEF AgesInTime
<1>8. SentIsRamped'
  BY <1>1, <1>2 DEF SentIsRamped
<1>9. LevelIsSent'
  <2>1. ASSUME NEW l \in Loops, ~wet[l].song
        PROVE  \/ Len(sent'[l]) = 0 /\ reported[l] = wet[l].level
               \/ Len(sent'[l]) > 0 /\ sent'[l][Len(sent'[l])] = wet[l].level
    <3>1. CASE current[l] = None
      BY <1>1, <1>2, <2>1, <3>1 DEF LevelIsSent
    <3>2. CASE current[l] # None
      <4>1. sent'[l] = Remembered(l) /\ Len(sent'[l]) > 0
            /\ sent'[l][Len(sent'[l])] = current[l]
        BY <1>1, <1>2, <3>2, RememberedIs DEF Typed
      <4>2. QED
        BY <1>1, <1>2, <2>1, <3>2, <4>1 DEF LevelIsSent
    <3>3. QED
      BY <3>1, <3>2
  <2>2. QED
    BY <1>1, <2>1 DEF LevelIsSent
<1>10. EchoIsKnown'
  <2>1. ASSUME NEW l \in Loops, flight[l] # None, ~flight[l].song
        PROVE  \E n \in 1..Len(sent'[l]) : EchoAt(l, n)'
    <3> DEFINE now == sent'[l]
    <3>1. /\ flight[l].age \in Nat /\ flight'[l].level = flight[l].level
          /\ flight'[l].age = flight[l].age + 1
      BY <1>5, <2>1
    <3>2. ASSUME NEW n \in 1..Len(now), now[n] = flight[l].level,
                 n + (flight[l].age + 1) >= Len(now)
          PROVE  \E k \in 1..Len(sent'[l]) : EchoAt(l, k)'
      BY <1>1, <3>1, <3>2 DEF EchoAt
    <3> HIDE DEF now
    <3>3. CASE current[l] = None
      <4>1. now = sent[l]
        BY <1>1, <3>3 DEF now
      <4>2. PICK n \in 1..Len(sent[l]) : EchoAt(l, n)
        BY <1>2, <2>1, <3>3 DEF EchoIsKnown
      <4>3. n + (flight[l].age + 1) >= Len(sent[l]) /\ sent[l][n] = flight[l].level
        BY <1>3, <3>1, <4>2 DEF EchoAt
      <4>4. QED
        BY <3>2, <4>1, <4>3
    <3>4. CASE current[l] # None
      <4>1. now = Remembered(l)
        BY <1>1, <3>4 DEF now
      <4>2. /\ now \in Seq(Level) /\ Len(now) > 0 /\ now[Len(now)] = current[l]
            /\ \/ /\ Len(now) = Len(sent[l]) + 1
                  /\ \A n \in 1..Len(sent[l]) : now[n] = sent[l][n]
               \/ /\ Len(now) = Len(sent[l]) /\ Len(sent[l]) = History
                  /\ \A n \in 2..Len(sent[l]) : now[n - 1] = sent[l][n]
        BY <1>2, <3>4, <4>1, RememberedIs DEF Typed
      <4>3. Len(now) \in Nat
        BY <4>2, LenProperties
      <4>4. CASE flight[l].level = current[l]
        <5>1. Len(now) \in 1..Len(now) /\ Len(now) + (flight[l].age + 1) >= Len(now)
          BY <3>1, <4>2, <4>3
        <5>2. QED
          BY <3>2, <4>2, <4>4, <5>1
      <4>5. ASSUME NEW n \in 1..Len(sent[l]), EchoAt(l, n)
            PROVE  \E k \in 1..Len(sent'[l]) : EchoAt(l, k)'
        <5>1. /\ sent[l][n] = flight[l].level /\ n + flight[l].age >= Len(sent[l])
              /\ flight[l].age + 1 < History
          BY <1>1, <4>5 DEF EchoAt
        <5>2. CASE /\ Len(now) = Len(sent[l]) + 1
                   /\ \A m \in 1..Len(sent[l]) : now[m] = sent[l][m]
          <6>1. n \in 1..Len(now) /\ n + (flight[l].age + 1) >= Len(now)
            BY <1>3, <3>1, <5>1, <5>2
          <6>2. now[n] = flight[l].level
            BY <5>1, <5>2
          <6>3. QED
            BY <3>2, <6>1, <6>2
        <5>3. CASE /\ Len(now) = Len(sent[l]) /\ Len(sent[l]) = History
                   /\ \A m \in 2..Len(sent[l]) : now[m - 1] = sent[l][m]
          <6>1. n \in 2..Len(sent[l])
            BY <1>2, <1>3, <3>1, <5>1, <5>3
          <6>2. now[n - 1] = flight[l].level
            BY <5>1, <5>3, <6>1
          <6>3. n - 1 \in 1..Len(now) /\ (n - 1) + (flight[l].age + 1) >= Len(now)
            BY <1>3, <3>1, <5>1, <5>3, <6>1
          <6>4. QED
            BY <3>2, <6>2, <6>3
        <5>4. QED
          BY <4>2, <5>2, <5>3
      <4>6. QED
        BY <1>2, <2>1, <4>4, <4>5 DEF EchoIsKnown
    <3>5. QED
      BY <3>3, <3>4
  <2>2. QED
    BY <1>1, <1>5, <2>1 DEF EchoIsKnown
<1>11. QED
  BY <1>6, <1>7, <1>8, <1>9, <1>10 DEF IInv, Typed

-----------------------------------------------------------------------------
(* The faders.                                                               *)

\* A move counts, and leaves the engine's side alone.
Moved ==
  /\ noted /\ moves' \in 0..MaxMoves
  /\ sent' = sent /\ reported' = reported /\ flight' = flight
  /\ loaded' = loaded /\ songs' = songs

LEMMA SubmitKeeps ==
  ASSUME IInv, Moved, NEW ls, NEW changed \in SUBSET ls, Submit(ls, changed),
         user' \in [Loops -> Travel], master' \in Travel
  PROVE  Passed
<1> DEFINE t == [l \in Loops |-> IF l \in changed THEN user'[l] * master' ELSE target[l]]
           c == Seeded(ls)
<1>1. /\ user \in [Loops -> Travel] /\ master \in Travel
      /\ target \in [Loops -> Level \cup {None}] /\ current \in [Loops -> Level \cup {None}]
      /\ \A l \in Loops : target[l] # None => current[l] # None
  BY DEF IInv, Typed, TypeOK
<1>2. c = [l \in Loops |-> IF l \in ls /\ current[l] = None THEN WetFor(l) ELSE current[l]]
  BY DEF Seeded
<1>3. \A l \in Loops : WetFor(l) \in Level /\ user'[l] * master' \in Level
  BY <1>1, ProductIsLevel DEF WetFor
<1>4. c \in [Loops -> Level \cup {None}] /\ t \in [Loops -> Level \cup {None}]
  BY <1>1, <1>2, <1>3
<1>5. /\ \A l \in Loops : current[l] # None => c[l] # None
      /\ \A l \in ls \cap Loops : c[l] # None
  BY <1>2, <1>3, NoneIsNoLevel
<1>6. \A l \in Loops : t[l] # None => c[l] # None
  BY <1>1, <1>5
<1>7. TickFrom(c, t)
  BY DEF Submit
<1> HIDE DEF c, t
<1>8. QED
  BY <1>4, <1>5, <1>6, <1>7, PassKeeps DEF Moved

\* With a pass made and the store's types in order, a move is done.
LEMMA MoveKeeps ==
  ASSUME IInv, Moved, Passed,
         user' \in [Loops -> Travel], master' \in Travel, offset' \in Loops,
         anchor' \in [Faders -> Travel \cup {None}]
  PROVE  IInv'
<1>1. TypeOK'
  BY DEF IInv, Typed, TypeOK, Passed, Moved
<1>2. QED
  BY <1>1 DEF IInv, Typed, Passed

LEMMA HandsKeep ==
  ASSUME IInv, Hands
  PROVE  IInv' /\ flight' = flight
<1>1. /\ user \in [Loops -> Travel] /\ master \in Travel /\ offset \in Loops
      /\ anchor \in [Faders -> Travel \cup {None}]
      /\ moves \in 0..MaxMoves /\ MaxMoves \in Nat
  BY LevelAssumption DEF IInv, Typed, TypeOK
<1>2. Moving => noted /\ moves' \in 0..MaxMoves
  BY <1>1 DEF Moving
<1>3. ASSUME NEW raw \in Travel, MoveMaster(raw)
      PROVE  IInv' /\ flight' = flight
  <2>1. /\ Moved /\ master' = raw /\ user' = user /\ offset' = offset /\ anchor' = anchor
        /\ Submit(Loops, Loops)
    BY <1>2, <1>3 DEF MoveMaster, Moved
  <2>2. Passed
    <3>1. Loops \in SUBSET Loops
      OBVIOUS
    <3>2. QED
      BY <1>1, <2>1, <3>1, SubmitKeeps
  <2>3. QED
    BY <1>1, <2>1, <2>2, MoveKeeps DEF Moved
<1>4. ASSUME NEW f \in Faders, NEW raw \in Travel, MoveFader(f, raw)
      PROVE  IInv' /\ flight' = flight
  <2> DEFINE changed == IF anchor[f] # None THEN Shown(f) ELSE {}
  <2>1. /\ Moved /\ master' = master /\ offset' = offset
        /\ anchor' = [anchor EXCEPT ![f] = raw]
        /\ user' = [l \in Loops |-> IF l \in changed THEN Scaled(anchor[f], raw, user[l])
                                    ELSE user[l]]
        /\ Submit(Shown(f), changed)
    BY <1>2, <1>4 DEF MoveFader, Moved
  <2>2. user' \in [Loops -> Travel]
    <3>1. ASSUME NEW l \in Loops
          PROVE  user'[l] \in Travel
      <4>1. CASE l \in changed
        <5>1. anchor[f] \in Travel /\ user[l] \in Travel
          BY <1>1, <4>1
        <5>2. user'[l] = Scaled(anchor[f], raw, user[l])
          BY <2>1, <4>1
        <5>3. QED
          BY <5>1, <5>2, ScaledIsTravel
      <4>2. CASE l \notin changed
        BY <1>1, <2>1, <4>2
      <4>3. QED
        BY <4>1, <4>2
    <3>2. QED
      BY <2>1, <3>1
  <2>3. Passed
    <3>1. changed \in SUBSET Shown(f)
      OBVIOUS
    <3>2. QED
      BY <1>1, <2>1, <2>2, <3>1, SubmitKeeps
  <2>4. QED
    BY <1>1, <2>1, <2>2, <2>3, MoveKeeps DEF Moved
<1>5. ASSUME NEW o \in Loops, SetView(o)
      PROVE  IInv' /\ flight' = flight
  <2>1. /\ Moved /\ offset' = o /\ anchor' = [f \in Faders |-> None]
        /\ user' = user /\ master' = master /\ wet' = wet
        /\ target' = target /\ current' = current /\ since' = since /\ noted' = noted
    BY <1>2, <1>5 DEF SetView, Moved, sender
  <2>2. Passed
    BY <2>1 DEF Moved, Passed, IInv, Typed, TypeOK, AgesInTime, SentIsRamped, LevelIsSent,
                EchoIsKnown, EchoAt
  <2>3. QED
    BY <1>1, <2>1, <2>2, MoveKeeps DEF Moved
<1>6. QED
  BY <1>3, <1>4, <1>5 DEF Hands

-----------------------------------------------------------------------------
(* The engine's reports.                                                     *)

LEMMA SongKeeps ==
  ASSUME IInv, Song
  PROVE  IInv' /\ flight' = flight
<1>1. PICK l \in Loops, level \in SongLevels : LoadSong(l, level)
  BY DEF Song
<1>2. /\ songs < MaxSongs /\ songs' = songs + 1
      /\ wet' = [wet EXCEPT ![l] = [level |-> level, song |-> TRUE]]
      /\ loaded' = loaded \cup {l}
      /\ user' = user /\ master' = master /\ offset' = offset /\ anchor' = anchor
      /\ target' = target /\ current' = current /\ sent' = sent /\ since' = since
      /\ noted' = noted /\ reported' = reported /\ flight' = flight /\ moves' = moves
  BY <1>1 DEF LoadSong, store, sender
<1>3. level \in Level /\ MaxSongs \in Nat
  BY LevelAssumption DEF Level
<1>4. TypeOK'
  <2>1. songs' \in 0..MaxSongs /\ loaded' \subseteq Loops
    BY <1>2, <1>3 DEF IInv, Typed, TypeOK
  <2>2. wet' \in [Loops -> [level : Level, song : BOOLEAN]]
    BY <1>2, <1>3 DEF IInv, Typed, TypeOK
  <2>3. QED
    BY <1>2, <2>1, <2>2 DEF IInv, Typed, TypeOK
<1>5. \A k \in Loops : ~wet'[k].song => wet'[k] = wet[k]
  BY <1>2 DEF IInv, Typed, TypeOK
<1>6. LevelIsSent'
  BY <1>2, <1>5 DEF IInv, LevelIsSent
<1>7. AgesInTime' /\ SentIsRamped' /\ EchoIsKnown'
  BY <1>2 DEF IInv, Typed, AgesInTime, SentIsRamped, EchoIsKnown, EchoAt
<1>8. QED
  BY <1>2, <1>4, <1>6, <1>7 DEF IInv, Typed

LEMMA ReportKeeps ==
  ASSUME IInv, NEW l \in Loops, ReportLevel(l)
  PROVE  IInv' /\ user' = user
<1>1. /\ flight[l] = None /\ reported[l] # wet[l].level
      /\ reported' = [reported EXCEPT ![l] = wet[l].level]
      /\ flight' = [flight EXCEPT ![l] = [level |-> wet[l].level, song |-> wet[l].song,
                                          age |-> 0]]
      /\ user' = user /\ master' = master /\ offset' = offset /\ anchor' = anchor
      /\ target' = target /\ current' = current /\ sent' = sent /\ since' = since
      /\ noted' = noted /\ wet' = wet /\ loaded' = loaded /\ moves' = moves /\ songs' = songs
  BY DEF ReportLevel, store, sender
<1>2. /\ TypeOK /\ AgesInTime /\ SentIsRamped /\ LevelIsSent /\ EchoIsKnown
      /\ History \in Nat \ {0}
  BY LevelAssumption DEF IInv, Typed
<1>3. wet[l].level \in Level /\ wet[l].song \in BOOLEAN
  BY <1>2 DEF TypeOK
<1>4. /\ \A k \in Loops : k # l => flight'[k] = flight[k]
      /\ flight'[l] = [level |-> wet[l].level, song |-> wet[l].song, age |-> 0]
      /\ flight'[l] \in Report
      /\ flight'[l].level = wet[l].level /\ flight'[l].song = wet[l].song /\ flight'[l].age = 0
  BY <1>1, <1>2, <1>3 DEF TypeOK, Report
<1>5. TypeOK'
  <2>1. reported' \in [Loops -> Level] /\ flight' \in [Loops -> Report \cup {None}]
    BY <1>1, <1>2, <1>3, <1>4 DEF TypeOK
  <2>2. QED
    BY <1>1, <1>2, <2>1 DEF TypeOK
<1>6. AgesInTime'
  BY <1>1, <1>2, <1>4 DEF AgesInTime
<1>7. SentIsRamped'
  BY <1>1, <1>2 DEF SentIsRamped
<1>8. LevelIsSent'
  BY <1>1, <1>2 DEF LevelIsSent, TypeOK
<1>9. EchoIsKnown'
  <2>1. ASSUME NEW k \in Loops, k # l, flight'[k] # None, ~flight'[k].song
        PROVE  \/ \E n \in 1..Len(sent[k]) : EchoAt(k, n)'
               \/ ~noted /\ current[k] # None /\ flight'[k].level = current[k] /\ flight'[k].age = 0
    BY <1>1, <1>2, <1>4, <2>1 DEF EchoIsKnown, EchoAt
  <2>2. ASSUME ~wet[l].song
        PROVE  \/ \E n \in 1..Len(sent[l]) : EchoAt(l, n)'
               \/ ~noted /\ current[l] # None /\ flight'[l].level = current[l] /\ flight'[l].age = 0
    <3>1. CASE noted /\ Len(sent[l]) > 0 /\ sent[l][Len(sent[l])] = wet[l].level
      <4>1. Len(sent[l]) \in Nat
        BY <1>2, LenProperties DEF TypeOK
      <4>2. PICK n \in 1..Len(sent[l]) : n = Len(sent[l])
        BY <3>1, <4>1
      <4>3. n + 0 >= Len(sent[l])
        BY <4>1, <4>2
      <4>4. EchoAt(l, n)'
        BY <1>1, <1>4, <3>1, <4>2, <4>3 DEF EchoAt
      <4>5. QED
        BY <4>4
    <3>2. CASE ~noted /\ current[l] # None /\ wet[l].level = current[l]
      BY <1>4, <3>2
    <3>3. QED
      BY <1>1, <1>2, <2>2, <3>1, <3>2 DEF LevelIsSent
  <2>3. QED
    BY <1>1, <1>4, <2>1, <2>2 DEF EchoIsKnown
<1>10. QED
  BY <1>1, <1>5, <1>6, <1>7, <1>8, <1>9 DEF IInv, Typed

LEMMA TakeKeeps ==
  ASSUME IInv, NEW l \in Loops, TakeReport(l)
  PROVE  /\ IInv'
         /\ \A k \in Loops : k # l => flight'[k] = flight[k] /\ user'[k] = user[k]
         /\ Orderly /\ user'[l] # user[l] => flight[l].song
<1> DEFINE level == flight[l].level
           adopts == level # WetFor(l) /\ ~WasEmitted(l, level) /\ Implied(level) # user[l]
<1>1. /\ flight[l] # None /\ (noted \/ "early" \in Trouble)
      /\ flight' = [flight EXCEPT ![l] = None]
      /\ user' = [user EXCEPT ![l] = IF adopts THEN Implied(level) ELSE @]
      /\ anchor' = [f \in Faders |-> IF adopts /\ l \in Shown(f) THEN None ELSE anchor[f]]
      /\ master' = master /\ offset' = offset
      /\ target' = target /\ current' = current /\ sent' = sent /\ since' = since
      /\ noted' = noted /\ wet' = wet /\ reported' = reported
      /\ loaded' = loaded /\ moves' = moves /\ songs' = songs
  BY DEF TakeReport, sender
<1>2. TypeOK /\ AgesInTime /\ SentIsRamped /\ LevelIsSent /\ EchoIsKnown
  BY DEF IInv, Typed
<1>3. level \in Level /\ Implied(level) \in Travel
  <2>1. level \in Level
    BY <1>1, <1>2 DEF TypeOK, Report
  <2>2. QED
    BY <1>2, <2>1, ImpliedIsTravel
<1>4. Orderly /\ ~flight[l].song => ~adopts
  <2>1. ASSUME Orderly, ~flight[l].song
        PROVE  WasEmitted(l, level)
    <3>1. noted
      BY <1>1, <2>1 DEF Orderly
    <3>2. PICK n \in 1..Len(sent[l]) : EchoAt(l, n)
      BY <1>1, <1>2, <2>1, <3>1 DEF EchoIsKnown
    <3>3. QED
      BY <3>2 DEF EchoAt, WasEmitted
  <2>2. QED
    BY <2>1
<1> HIDE DEF adopts, level
<1>5. /\ user' \in [Loops -> Travel] /\ anchor' \in [Faders -> Travel \cup {None}]
      /\ flight' \in [Loops -> Report \cup {None}]
      /\ \A k \in Loops : k # l => flight'[k] = flight[k] /\ user'[k] = user[k]
      /\ flight'[l] = None
      /\ user'[l] # user[l] => adopts
  BY <1>1, <1>2, <1>3 DEF TypeOK
<1>6. TypeOK'
  BY <1>1, <1>2, <1>5 DEF TypeOK
<1>7. AgesInTime' /\ SentIsRamped' /\ LevelIsSent'
  BY <1>1, <1>2, <1>5 DEF AgesInTime, SentIsRamped, LevelIsSent
<1>8. EchoIsKnown'
  BY <1>1, <1>2, <1>5 DEF EchoIsKnown, EchoAt
<1>9. QED
  BY <1>4, <1>5, <1>6, <1>7, <1>8 DEF IInv, Typed

-----------------------------------------------------------------------------
(* The theorems.                                                             *)

LEMMA Keeps ==
  ASSUME IInv, [Next]_vars
  PROVE  IInv'
<1>1. CASE UNCHANGED vars
  BY <1>1 DEF vars, IInv, Typed, TypeOK, AgesInTime, SentIsRamped, LevelIsSent, EchoIsKnown, EchoAt
<1>2. CASE Next
  BY <1>2, HandsKeep, SongKeeps, TickKeeps, NoteKeeps, ReportKeeps, TakeKeeps DEF Next, Main
<1>3. QED
  BY <1>1, <1>2

LEMMA Invariance == Spec => []IInv
<1>1. IInv /\ [Next]_vars => IInv'
  BY Keeps
<1>2. QED
  BY <1>1, Begins, PTL DEF Spec

\* The variables have their types, however many loops and faders there are and
\* however far the faders go: in particular relative pickup never leaves the
\* travel of a fader, nor does an adopted level.
THEOREM Typing == Spec => []TypeOK
<1>1. IInv => TypeOK
  BY DEF IInv, Typed
<1>2. QED
  BY <1>1, Invariance, PTL

\* As long as no report is handled between a send and its note, the store
\* adopts what a song load wrote and nothing else, for any ramp and history.
THEOREM EchoesAreKnown ==
  ASSUME Orderly
  PROVE  Spec => OnlyForeignIsAdopted
<1>1. ASSUME IInv, [Next]_vars
      PROVE  [\A l \in Loops :
                flight[l] # None /\ flight'[l] = None /\ user'[l] # user[l] => flight[l].song]_vars
  <2>1. SUFFICES ASSUME NEW l \in Loops, flight[l] # None, flight'[l] = None, user'[l] # user[l]
                 PROVE  flight[l].song
    OBVIOUS
  <2>2. PICK k \in Loops : TakeReport(k)
    <3>1. ~(UNCHANGED vars)
      BY <2>1 DEF vars
    <3>2. ~Hands /\ ~Song
      BY <1>1, <2>1, HandsKeep, SongKeeps
    <3>3. ~Tick /\ ~Note
      BY <2>1 DEF Tick, Note, store
    <3>4. \A k \in Loops : ~ReportLevel(k)
      BY <1>1, <2>1, ReportKeeps
    <3>5. QED
      BY <1>1, <3>1, <3>2, <3>3, <3>4 DEF Next, Main
  <2>3. k = l
    BY <1>1, <2>1, <2>2, TakeKeeps
  <2>4. QED
    BY <1>1, <2>1, <2>2, <2>3, TakeKeeps
<1>2. QED
  BY <1>1, Invariance, PTL DEF Spec, OnlyForeignIsAdopted

-----------------------------------------------------------------------------
(* FavoritesMove: the inductive invariant.                                   *)

\* The files an operation changes, and what a command leaves in them.
OpPaths(op) == {op.from} \cup ({op.to} \ {Nil})
Wanted(cmd, op, p) == IF (cmd = "run") = (p = op.from) THEN Nil ELSE op.bytes
Elsewhere == {p \in Patches : \A op \in run.ops : p \notin OpPaths(op)}
Awaited   == UNION {DOMAIN u.bytes : u \in job.puts}

MoveShape ==
  /\ files \in Library /\ saved \in Saved /\ edits \in Nat
  /\ git = [head |-> git.head, staged |-> git.staged, kept |-> git.kept]
  /\ git.head \in Library /\ git.staged \in Library
  /\ run = [state |-> run.state, base |-> run.base, ops |-> run.ops, found |-> run.found,
            wrote |-> run.wrote, writing |-> run.writing, favorites |-> run.favorites]
  /\ run.state \in {"none", "started", "done", "undone"} /\ run.writing \in Labels \cup {Nil}
  /\ run.base \in Library /\ run.found \in Saved
  /\ run.wrote = [l \in Labels |-> run.wrote[l]]
  /\ job = [cmd |-> job.cmd, at |-> job.at, puts |-> job.puts, labels |-> job.labels, new |-> job.new]
  /\ job.cmd \in {"run", "undo"} /\ job.at \in Stages /\ job.labels \subseteq Labels
  /\ edited \in BOOLEAN /\ before.half \in BOOLEAN

\* The manifest's operations: a file of the player's goes, and perhaps to
\* "tuned", each to a place of its own.
OpsFit ==
  /\ \A op \in run.ops :
       /\ op.from \in Patches /\ op.from[1] \in {"fav", "own"}
       /\ op.bytes \in Bytes /\ op.bytes = run.base[op.from]
       /\ op.to # Nil => op.to \in Patches /\ op.to[1] = "tuned"
  /\ \A op, o \in run.ops : op.from = o.from \/ (op.to = o.to /\ op.to # Nil) => op = o

\* A command under way: its stage, what it has to put into files, the settings
\* it has to write, and those it wrote.
JobFits ==
  /\ Idle => job = NoJob
  /\ ~Idle => job.new \in Saved
  /\ ~Idle /\ job.cmd = "run" => run.state = "started" /\ ~edited /\ undo = "none"
  /\ ~Idle /\ job.cmd = "undo" => /\ run.state \in {"started", "done"}
                                  /\ undo \in {"plain", "forced"} /\ job.new = run.found
PutsFit ==
  /\ job.puts # {} <=> job.at \in {"file", "stage"}
  /\ \A u \in job.puts :
       /\ u.half \in 1..2
       /\ \E op \in run.ops : /\ u.file = op.from /\ DOMAIN u.bytes \subseteq OpPaths(op)
                              /\ \A p \in DOMAIN u.bytes : u.bytes[p] = Wanted(job.cmd, op, p)
LabelsFit ==
  /\ job.at \in {"writing", "write", "wrote"} => job.labels # {}
  /\ job.at \in {"writing", "wrote"} => job.cmd = "run"
  /\ job.at \in {"last", "state"} => job.labels = {}
  /\ job.at = "last" => job.cmd = "undo"
  /\ ~Idle /\ job.cmd = "run" => /\ job.at \in {"write", "wrote"} => run.writing = Label
                                 /\ job.at \notin {"write", "wrote"} => run.writing = Nil
                                 /\ job.at = "wrote" => saved[Label] = job.new[Label]
  /\ ~Idle /\ job.cmd = "undo" => /\ job.labels \subseteq {"store", "index"}
                                  /\ \A l \in {"store", "index"} \ job.labels : saved[l] = run.found[l]

\* What is no longer to be put into files is there, and staged, and committed.
PutsDone ==
  /\ ~Idle => \A op \in run.ops : \A p \in OpPaths(op) \ Awaited :
                files[p] = Wanted(job.cmd, op, p) /\ git.staged[p] = files[p]
  /\ job.at = "stage" => \A p \in DOMAIN First(job.puts).bytes : files[p] = First(job.puts).bytes[p]
  /\ job.at \in {"writing", "write", "wrote", "last", "state"} => run.ops = {} \/ git.head = git.staged

\* git has what a run took as its base, and what is committed since.
HistoryKept == Range(git.head) \subseteq git.kept /\ Range(run.base) \subseteq git.kept

FilesKept == ~Idle \/ ~edited => ~FilesChanged
SettingsKnown ==
  run.state \in {"started", "done"} /\ (~edited \/ (~Idle /\ undo = "plain")) => ~SettingsChanged

\* No run makes up a setting.
NoneMadeUp ==
  /\ run.wrote["store"] # Nil => run.wrote["store"] \in Store
                                 /\ Settings(run.wrote["store"]) \subseteq Settings(run.found.store)
  /\ ~Idle => Settings(job.new.store) \subseteq Settings(run.found.store)

\* The manifest has what the run found; what it does not speak of is as it was.
FoundBefore ==
  /\ run.base = before.head /\ run.found = before.saved
  /\ \A op \in run.ops : /\ before.files[op.from] = op.bytes
                         /\ op.to # Nil => before.files[op.to] = Nil
  /\ before.files \in Library
  /\ ~edited => \A p \in Elsewhere : /\ files[p] = before.files[p]
                                     /\ git.head[p] = before.head[p]
                                     /\ git.staged[p] = before.head[p]

\* Unless an undo was left half done, no commit has a file that is not there:
\* what a run moves has its place to itself in HEAD too.
Gone(p) == files[p] = Nil => git.head[p] = Nil /\ git.staged[p] = Nil
Settled == Idle /\ (run.state \in {"none", "undone"} \/ (run.state = "done" /\ undo = "none"))
Clean ==
  ~before.half => /\ \A p \in Elsewhere : Gone(p)
                  /\ Settled => \A p \in Patches : Gone(p)
                  /\ \A op \in run.ops : op.to # Nil => run.base[op.to] = Nil

\* What a run has still to write, and what it wrote, is as its favourites need it.
FavoritesFit ==
  /\ \A f \in run.favorites : f.after \in Patches
  /\ ~Idle /\ job.cmd = "run" =>
       /\ \A l \in Labels \ job.labels : saved[l] = job.new[l]
       /\ Spares => \A f \in run.favorites : Follows(job.new, f)

MoveIInv ==
  /\ MoveShape /\ OpsFit /\ JobFits /\ PutsFit /\ LabelsFit /\ PutsDone /\ HistoryKept
  /\ FilesKept /\ SettingsKnown /\ NoneMadeUp /\ FoundBefore /\ Clean /\ FavoritesFit
  /\ UndoneIsAsBefore /\ FavoritesStay

-----------------------------------------------------------------------------
(* FavoritesMove: what is first and last, and what is computed row by row.    *)

\* Of finitely many there is one that comes after no other.
LEMMA SomeIsFirst ==
  ASSUME NEW S, IsFiniteSet(S), NEW T \in SUBSET S, T # {}, NEW R,
         \A a \in S : <<a, a>> \notin R,
         \A a, b, c \in S : <<a, b>> \in R /\ <<b, c>> \in R => <<a, c>> \in R
  PROVE  \E a \in T : \A b \in T : <<b, a>> \notin R
<1> DEFINE Below(a) == {b \in T : <<b, a>> \in R}
           Ordering == StrictSubsetOrdering(S)
<1>1. \A a \in T : Below(a) \in FiniteSubsetsOf(S)
  BY FS_Subset DEF FiniteSubsetsOf
<1>2. PICK x \in {Below(a) : a \in T} : \A y \in {Below(a) : a \in T} : ~ (<<y, x>> \in Ordering)
  <2>1. IsWellFoundedOn(Ordering, FiniteSubsetsOf(S))
    BY FS_StrictSubsetOrderingWellFounded
  <2>2. {Below(a) : a \in T} \subseteq FiniteSubsetsOf(S) /\ {Below(a) : a \in T} # {}
    <3> HIDE DEF Below
    <3>1. QED
      BY <1>1
  <2>3. QED
    BY <2>1, <2>2, WFMin
<1>3. PICK a \in T : x = Below(a)
  BY <1>2
<1>4. ASSUME NEW b \in T, <<b, a>> \in R PROVE FALSE
  <2>1. b \in Below(a) /\ b \notin Below(b) /\ Below(b) \subseteq Below(a)
    BY <1>4
  <2>2. <<Below(b), Below(a)>> \in Ordering
    BY <2>1 DEF StrictSubsetOrdering
  <2>3. QED
    BY <1>2, <1>3, <2>2
<1>5. QED
  BY <1>4

LEMMA NilIsNone ==
  /\ Nil \notin Patches /\ Nil \notin Bytes /\ Nil \notin Labels /\ Nil \notin Store
  /\ Nil \notin Index /\ Patches \subseteq Keys /\ Patches \subseteq Bytes
BY NilAssumption DEF Keys, Bytes

LEMMA PatchParts ==
  ASSUME NEW p \in Patches
  PROVE  p[1] \in Places /\ p[2] \in Names /\ p[2] \in Nat /\ Stem(p) \in Keys /\ p \in Keys
BY MoveAssumption DEF Patches, Keys

LEMMA FinitePatches == IsFiniteSet(Patches)
<1>1. IsFiniteSet(Places)
  <2>1. IsFiniteSet({"fav"})
    BY FS_EmptySet, FS_AddElement, {"fav"} = {} \cup {"fav"}
  <2>2. IsFiniteSet({"fav", "stock"})
    BY <2>1, FS_AddElement, {"fav", "stock"} = {"fav"} \cup {"stock"}
  <2>3. IsFiniteSet({"fav", "stock", "own"})
    BY <2>2, FS_AddElement, {"fav", "stock", "own"} = {"fav", "stock"} \cup {"own"}
  <2>4. Places = {"fav", "stock", "own"} \cup {"tuned"}
    BY DEF Places
  <2>5. QED
    BY <2>3, <2>4, FS_AddElement
<1>2. QED
  BY <1>1, MoveAssumption, FS_Product DEF Patches

LEMMA PrecedesOrders ==
  /\ \A p \in Patches : ~Precedes(p, p)
  /\ \A p, q, r \in Patches : Precedes(p, q) /\ Precedes(q, r) => Precedes(p, r)
<1>1. \A p \in Patches : p[2] \in Nat
  BY PatchParts
<1>2. \A p \in Patches : ~Precedes(p, p)
  BY <1>1 DEF Precedes
<1>3. ASSUME NEW p \in Patches, NEW q \in Patches, NEW r \in Patches, Precedes(p, q), Precedes(q, r)
      PROVE  Precedes(p, r)
  <2>1. p[2] \in Nat /\ q[2] \in Nat /\ r[2] \in Nat
    BY <1>1
  <2>2. QED
    BY <2>1, <1>3 DEF Precedes
<1>4. QED
  BY <1>2, <1>3

LEMMA LastIsOne ==
  ASSUME NEW rows, rows # {}, \A r \in rows : r.file \in Patches
  PROVE  LastRow(rows) \in rows
<1> DEFINE R == {x \in Patches \X Patches : Precedes(x[2], x[1])}
           T == {r.file : r \in rows}
<1>1. \A a, b \in Patches : <<a, b>> \in R <=> Precedes(b, a)
  OBVIOUS
<1>2. T \in SUBSET Patches /\ T # {}
  OBVIOUS
<1> HIDE DEF R
<1>3. PICK a \in T : \A b \in T : <<b, a>> \notin R
  <2>1. /\ \A p \in Patches : <<p, p>> \notin R
        /\ \A p, q, r \in Patches : <<p, q>> \in R /\ <<q, r>> \in R => <<p, r>> \in R
    BY <1>1, PrecedesOrders
  <2> HIDE DEF T
  <2>2. QED
    BY <1>2, <2>1, FinitePatches, SomeIsFirst
<1>4. PICK r \in rows : r.file = a
  BY <1>3
<1>5. \A q \in rows : ~Precedes(r.file, q.file)
  BY <1>1, <1>3, <1>4
<1>6. QED
  BY <1>5 DEF LastRow

LEMMA FirstIsOne ==
  ASSUME NEW puts, puts # {}, \A u \in puts : u.file \in Patches /\ u.half \in 1..2
  PROVE  First(puts) \in puts
<1> DEFINE S == Patches \X (1..2)
           R == {x \in S \X S : Precedes(x[1][1], x[2][1])
                                \/ (x[1][1] = x[2][1] /\ x[1][2] < x[2][2])}
           T == {<<u.file, u.half>> : u \in puts}
<1>1. \A a, b \in S : <<a, b>> \in R <=> Precedes(a[1], b[1]) \/ (a[1] = b[1] /\ a[2] < b[2])
  OBVIOUS
<1>2. T \in SUBSET S /\ T # {}
  <2>1. \A u \in puts : <<u.file, u.half>> \in S
    OBVIOUS
  <2> HIDE DEF S
  <2>2. QED
    BY <2>1
<1>3. IsFiniteSet(S)
  <2>1. IsFiniteSet(1..2)
    <3>1. 1 \in Int /\ 2 \in Int
      OBVIOUS
    <3>2. QED
      BY <3>1, FS_Interval
  <2>2. QED
    BY <2>1, FinitePatches, FS_Product
<1>4. \A a \in S : a[1] \in Patches /\ a[2] \in 1..2
  OBVIOUS
<1> HIDE DEF R
<1>5. PICK a \in T : \A b \in T : <<b, a>> \notin R
  <2> HIDE DEF S
  <2>1. \A p \in S : <<p, p>> \notin R
    BY <1>1, <1>4, PrecedesOrders
  <2>2. ASSUME NEW p \in S, NEW q \in S, NEW r \in S, <<p, q>> \in R, <<q, r>> \in R
        PROVE  <<p, r>> \in R
    <3>1. /\ p[1] \in Patches /\ q[1] \in Patches /\ r[1] \in Patches
          /\ p[2] \in 1..2 /\ q[2] \in 1..2 /\ r[2] \in 1..2
      BY <1>4
    <3>2. /\ Precedes(p[1], q[1]) \/ (p[1] = q[1] /\ p[2] < q[2])
          /\ Precedes(q[1], r[1]) \/ (q[1] = r[1] /\ q[2] < r[2])
      BY <1>1, <2>2
    <3>3. Precedes(p[1], r[1]) \/ (p[1] = r[1] /\ p[2] < r[2])
      BY <3>1, <3>2, PrecedesOrders
    <3>4. QED
      BY <1>1, <3>3
  <2> HIDE DEF T
  <2>3. QED
    BY <1>2, <1>3, <2>1, <2>2, SomeIsFirst
<1>6. PICK u \in puts : a = <<u.file, u.half>>
  BY <1>5
<1>7. ASSUME NEW v \in puts PROVE ~PutBefore(v, u)
  <2> DEFINE b == <<v.file, v.half>>
  <2>1. b \in T /\ b \in S /\ a \in S
    BY <1>6
  <2>2. <<b, a>> \notin R
    BY <1>5, <2>1
  <2>3. a[1] = u.file /\ a[2] = u.half /\ b[1] = v.file /\ b[2] = v.half
    BY <1>6
  <2> HIDE DEF b
  <2>4. QED
    BY <1>1, <2>1, <2>2, <2>3 DEF PutBefore
<1>8. QED
  BY <1>7 DEF First

\* Of sets of rows one has no smaller one among them.
LEMMA SmallestIsOne ==
  ASSUME NEW rows, IsFiniteSet(rows), NEW C \in SUBSET (SUBSET rows), C # {}
  PROVE  \E t \in C : \A u \in SUBSET t : u # t => u \notin C
<1> DEFINE Ordering == StrictSubsetOrdering(rows)
<1>1. IsWellFoundedOn(Ordering, FiniteSubsetsOf(rows))
  BY FS_StrictSubsetOrderingWellFounded
<1>2. C \subseteq FiniteSubsetsOf(rows)
  BY FS_Subset DEF FiniteSubsetsOf
<1>3. PICK t \in C : \A u \in C : ~ (<<u, t>> \in Ordering)
  BY <1>1, <1>2, WFMin
<1>4. QED
  BY <1>3 DEF StrictSubsetOrdering

\* What is computed row by row is what its definition says.
LEMMA RowByRow ==
  ASSUME NEW rows, IsFiniteSet(rows), NEW s \in Store,
         \A t \in SUBSET rows : t # {} => LastRow(t) \in t
  PROVE  \E f : \A t \in SUBSET rows :
                  f[t] = IF t = {} THEN s ELSE Rekey(f[t \ {LastRow(t)}], LastRow(t))
<1> DEFINE Due(f, t)   == IF t = {} THEN s ELSE Rekey(f[t \ {LastRow(t)}], LastRow(t))
           Sol(f, top) == \A t \in SUBSET top : f[t] = Due(f, t)
<1>1. ASSUME NEW C \in SUBSET (SUBSET rows), C # {}
      PROVE  \E t \in C : \A u \in SUBSET t : u # t => u \notin C
  BY <1>1, SmallestIsOne
<1>2. ASSUME NEW f, NEW h, NEW a \in SUBSET rows, NEW b \in SUBSET rows, Sol(f, a), Sol(h, b),
             NEW t \in SUBSET (a \cap b)
      PROVE  f[t] = h[t]
  <2> DEFINE C == {u \in SUBSET (a \cap b) : f[u] # h[u]}
  <2>1. SUFFICES ASSUME C # {} PROVE FALSE
    BY <2>1
  <2>2. PICK u \in C : \A v \in SUBSET u : v # u => v \notin C
    BY <1>1, <2>1
  <2>3. u \in SUBSET a /\ u \in SUBSET b /\ u \in SUBSET rows /\ f[u] # h[u]
    BY <2>2
  <2>4. f[u] = Due(f, u) /\ h[u] = Due(h, u)
    BY <1>2, <2>3
  <2>5. u # {}
    BY <2>3, <2>4
  <2> DEFINE v == u \ {LastRow(u)}
  <2>6. v \in SUBSET u /\ v # u /\ v \in SUBSET (a \cap b)
    BY <2>3, <2>5
  <2>7. f[v] = h[v]
    BY <2>2, <2>6
  <2>8. QED
    BY <2>3, <2>4, <2>5, <2>7
<1> DEFINE Some(top) == CHOOSE f : Sol(f, top)
           Val(t) == IF t = {} THEN s
                     ELSE Rekey(Some(t \ {LastRow(t)})[t \ {LastRow(t)}], LastRow(t))
<1>3. \A top \in SUBSET rows : \E f : Sol(f, top)
  <2> DEFINE C == {top \in SUBSET rows : ~ \E f : Sol(f, top)}
  <2>1. SUFFICES ASSUME C # {} PROVE FALSE
    BY <2>1
  <2>2. PICK top \in C : \A u \in SUBSET top : u # top => u \notin C
    BY <1>1, <2>1
  <2>3. top \in SUBSET rows /\ \A u \in SUBSET top : u # top => \E f : Sol(f, u)
    BY <2>2
  <2> DEFINE h == [t \in SUBSET top |-> Val(t)]
  <2>4. ASSUME NEW t \in SUBSET top PROVE h[t] = Due(h, t)
    <3>1. h[t] = Val(t)
      OBVIOUS
    <3>2. CASE t = {}
      BY <3>1, <3>2
    <3>3. CASE t # {}
      <4> DEFINE u == t \ {LastRow(t)}
      <4>1. LastRow(t) \in t /\ u \in SUBSET top /\ u # top /\ u \in SUBSET rows
        BY <2>3, <3>3
      <4>2. h[u] = Val(u)
        BY <4>1
      <4>3. Sol(Some(u), u)
        <5>1. \E f : Sol(f, u)
          BY <2>3, <4>1
        <5> HIDE DEF Sol
        <5>2. QED
          BY <5>1
      <4>4. Some(u)[u] = Due(Some(u), u)
        BY <4>3
      <4>5. Some(u)[u] = Val(u)
        <5>1. CASE u = {}
          BY <4>4, <5>1
        <5>2. CASE u # {}
          <6> DEFINE w == u \ {LastRow(u)}
          <6>1. LastRow(u) \in u /\ w \in SUBSET top /\ w # top /\ w \in SUBSET rows /\ w \in SUBSET u
            BY <4>1, <5>2
          <6>2. Sol(Some(w), w)
            <7>1. \E f : Sol(f, w)
              BY <2>3, <6>1
            <7> HIDE DEF Sol
            <7>2. QED
              BY <7>1
          <6>3. Some(u)[w] = Some(w)[w]
            <7>1. w \in SUBSET (u \cap w)
              BY <6>1
            <7> HIDE DEF Sol, Some, w, u
            <7>2. QED
              BY <1>2, <4>1, <4>3, <6>1, <6>2, <7>1
          <6> HIDE DEF Some
          <6>4. QED
            BY <4>4, <5>2, <6>3
        <5>3. QED
          BY <5>1, <5>2
      <4> HIDE DEF Some
      <4>6. QED
        BY <3>1, <3>3, <4>2, <4>5
    <3>4. QED
      BY <3>2, <3>3
  <2> HIDE DEF h
  <2>5. Sol(h, top)
    BY <2>4
  <2>6. QED
    BY <2>2, <2>5
<1>4. QED
  BY <1>3

-----------------------------------------------------------------------------
(* What a plan reads and what it makes of it.                                *)

\* What is saved, by part.
LEMMA SavedParts ==
  ASSUME NEW s
  PROVE  s \in Saved <=> /\ s = [store |-> s.store, index |-> s.index, last |-> s.last]
                         /\ s.store \in Store /\ s.index \in Index /\ s.last \in Patches
BY DEF Saved

\* An index is its version and what it holds of some patches.
LEMMA IndexParts ==
  ASSUME NEW v \in 1..2, NEW c
  PROVE  /\ c \in UNION {[S -> Names \cup {Nil}] : S \in SUBSET Patches} <=>
              c = [p \in DOMAIN c |-> c[p]] /\ DOMAIN c \subseteq Patches
              /\ \A p \in DOMAIN c : c[p] \in Names \cup {Nil}
         /\ [version |-> v, copy |-> c] \in Index <=>
              c = [p \in DOMAIN c |-> c[p]] /\ DOMAIN c \subseteq Patches
              /\ \A p \in DOMAIN c : c[p] \in Names \cup {Nil}
<1> DEFINE Copies == UNION {[S -> Names \cup {Nil}] : S \in SUBSET Patches}
           Fits == c = [p \in DOMAIN c |-> c[p]] /\ DOMAIN c \subseteq Patches
                   /\ \A p \in DOMAIN c : c[p] \in Names \cup {Nil}
<1>1. ASSUME c \in Copies PROVE Fits
  BY <1>1
<1>2. ASSUME Fits PROVE c \in Copies
  <2>1. c \in [DOMAIN c -> Names \cup {Nil}] /\ DOMAIN c \in SUBSET Patches
    BY <1>2
  <2>2. QED
    BY <2>1
<1>3. [version |-> v, copy |-> c] \in Index <=> c \in Copies
  <2> DEFINE r == [version |-> v, copy |-> c]
  <2>1. r.version = v /\ r.copy = c
    OBVIOUS
  <2> HIDE DEF Copies
  <2>2. Index = [version : 1..2, copy : Copies]
    BY DEF Index, Copies
  <2>3. QED
    BY <2>1, <2>2
<1>4. QED
  BY <1>1, <1>2, <1>3

LEMMA SavedIndex ==
  ASSUME saved \in Saved
  PROVE  /\ saved.index \in Index /\ Favorites \subseteq Patches
         /\ saved.index.version \in 1..2
         /\ saved.index = [version |-> saved.index.version, copy |-> saved.index.copy]
         /\ \A p \in Favorites : saved.index.copy[p] \in Names \cup {Nil}
<1>1. saved.index \in Index
  BY SavedParts
<1>2. PICK v \in 1..2, c \in UNION {[S -> Names \cup {Nil}] : S \in SUBSET Patches} :
        saved.index = [version |-> v, copy |-> c]
  BY <1>1 DEF Index
<1>3. QED
  BY <1>1, <1>2, IndexParts DEF Favorites

\* A row's file was found; its old and its new key are patches.
RowFits(r) ==
  /\ r = [file |-> r.file, old |-> r.old, klass |-> r.klass, after |-> r.after]
  /\ r.file \in Found /\ r.after \in Patches /\ r.old \in Patches \cup {Nil}
  /\ r.klass = "tuned" => r.after = <<"tuned", r.file[2]>>

LEMMA FoundFits ==
  ASSUME NEW p \in Found
  PROVE  p \in Patches /\ There(p) /\ p[1] \in {"fav", "own"} /\ p[2] \in Names
BY PatchParts DEF Found

LEMMA OldKeyFits ==
  ASSUME saved \in Saved, NEW p \in Patches
  PROVE  OldKey(p) \in Patches \cup {Nil}
<1> DEFINE named == {k \in Favorites : p[1] = "fav" /\ saved.index.copy[k] = p[2]}
<1>1. Favorites \subseteq Patches /\ named \subseteq Favorites
  BY SavedIndex
<1>2. named # {} => (CHOOSE k \in named : TRUE) \in named
  <2> HIDE DEF named
  <2>1. QED
    OBVIOUS
<1>3. OldKey(p) = CASE named # {}    -> CHOOSE k \in named : TRUE
                    [] p \in Favorites -> p
                    [] OTHER         -> Nil
  BY DEF OldKey
<1> HIDE DEF named
<1>4. QED
  BY <1>1, <1>2, <1>3

LEMMA TargetFits ==
  ASSUME saved \in Saved, NEW p \in Patches
  PROVE  /\ Target(p) \in Patches
         /\ Klass(p) = "tuned" => Target(p) = <<"tuned", p[2]>>
<1>1. ASSUME Klass(p) = "pointer" PROVE Pointed(p) \in Patches
  <2> DEFINE namesake == {q \in Same(p) : q[2] = p[2]}
  <2>1. Same(p) # {} /\ Same(p) \subseteq Patches /\ namesake \subseteq Same(p)
    BY <1>1 DEF Klass, Same
  <2>2. (CHOOSE q \in Same(p) : TRUE) \in Same(p)
    BY <2>1
  <2>3. namesake # {} => (CHOOSE q \in namesake : TRUE) \in namesake
    <3> HIDE DEF namesake
    <3>1. QED
      OBVIOUS
  <2>4. Pointed(p) = CASE OldKey(p) \in Same(p) -> OldKey(p)
                       [] namesake # {}         -> CHOOSE q \in namesake : TRUE
                       [] OTHER                 -> CHOOSE q \in Same(p) : TRUE
    BY DEF Pointed
  <2> HIDE DEF namesake
  <2>5. QED
    BY <2>1, <2>2, <2>3, <2>4
<1>2. <<"stock", p[2]>> \in Patches /\ <<"tuned", p[2]>> \in Patches
  BY PatchParts DEF Patches, Places
<1>3. QED
  BY <1>1, <1>2 DEF Target

LEMMA RowsFit ==
  ASSUME saved \in Saved
  PROVE  /\ \A r \in FileRows : RowFits(r)
         /\ \A r, q \in FileRows : r.file = q.file => r = q
<1>1. ASSUME NEW p \in Found
      PROVE  RowFits([file |-> p, old |-> OldKey(p), klass |-> Klass(p), after |-> Target(p)])
  BY FoundFits, OldKeyFits, TargetFits DEF RowFits
<1>2. QED
  BY <1>1 DEF FileRows

LEMMA FiniteRows == IsFiniteSet(FileRows)
<1> DEFINE row(p) == [file |-> p, old |-> OldKey(p), klass |-> Klass(p), after |-> Target(p)]
           f == [p \in Found |-> row(p)]
<1>1. IsFiniteSet(Found)
  BY FinitePatches, FS_Subset DEF Found
<1>2. f \in Surjection(Found, FileRows)
  <2>1. FileRows = {row(p) : p \in Found}
    BY DEF FileRows
  <2> HIDE DEF row
  <2>2. f \in [Found -> FileRows] /\ \A r \in FileRows : \E p \in Found : f[p] = r
    BY <2>1
  <2>3. QED
    BY <2>2 DEF Surjection
<1> HIDE DEF f
<1>3. QED
  BY <1>1, <1>2, FS_Surjection

\* An entry is what was chosen and what was captured, where they are known.
LEMMA EntryParts ==
  ASSUME NEW e
  PROVE  e \in Entry <=> /\ e = [x \in DOMAIN e |-> e[x]]
                         /\ DOMAIN e \subseteq {"chosen", "captured"}
                         /\ \A x \in DOMAIN e : e[x] \in Keys \cup Edits
<1> DEFINE Fits == /\ e = [x \in DOMAIN e |-> e[x]]
                   /\ DOMAIN e \subseteq {"chosen", "captured"}
                   /\ \A x \in DOMAIN e : e[x] \in Keys \cup Edits
<1>1. ASSUME e \in Entry PROVE Fits
  BY <1>1 DEF Entry
<1>2. ASSUME Fits PROVE e \in Entry
  <2>1. e \in [DOMAIN e -> Keys \cup Edits] /\ DOMAIN e \in SUBSET {"chosen", "captured"}
    BY <1>2
  <2>2. QED
    BY <2>1 DEF Entry
<1>3. QED
  BY <1>1, <1>2

\* The settings of a store are the values of its entries.
LEMMA SettingsAre ==
  ASSUME NEW s, NEW x
  PROVE  x \in Settings(s) <=> \E k \in Keys : s[k] # Nil /\ \E y \in DOMAIN s[k] : x = s[k][y]
<1>1. Settings(s) = UNION {Range(s[k]) : k \in {k \in Keys : s[k] # Nil}}
  BY DEF Settings
<1>2. \A k : x \in Range(s[k]) <=> \E y \in DOMAIN s[k] : x = s[k][y]
  BY DEF Range
<1>3. QED
  BY <1>1, <1>2

LEMMA OverFits ==
  ASSUME NEW f \in Entry, NEW g \in Entry
  PROVE  /\ Over(f, g) \in Entry
         /\ \A x \in DOMAIN Over(f, g) : \/ x \in DOMAIN f /\ Over(f, g)[x] = f[x]
                                         \/ x \in DOMAIN g /\ Over(f, g)[x] = g[x]
<1>1. \A x \in DOMAIN Over(f, g) : \/ x \in DOMAIN f /\ Over(f, g)[x] = f[x]
                                   \/ x \in DOMAIN g /\ Over(f, g)[x] = g[x]
  BY DEF Over
<1>2. /\ Over(f, g) = [x \in DOMAIN Over(f, g) |-> Over(f, g)[x]]
      /\ DOMAIN Over(f, g) = DOMAIN f \cup DOMAIN g
  BY DEF Over
<1> HIDE DEF Over
<1>3. QED
  <2> DEFINE h == Over(f, g)
  <2>1. h = [x \in DOMAIN h |-> h[x]] /\ DOMAIN h = DOMAIN f \cup DOMAIN g
    BY <1>2
  <2>2. \A x \in DOMAIN h : (x \in DOMAIN f /\ h[x] = f[x]) \/ (x \in DOMAIN g /\ h[x] = g[x])
    BY <1>1
  <2> HIDE DEF h
  <2>3. DOMAIN h \subseteq {"chosen", "captured"} /\ \A x \in DOMAIN h : h[x] \in Keys \cup Edits
    BY <2>1, <2>2, EntryParts
  <2>4. h \in Entry
    BY <2>1, <2>3, EntryParts
  <2>5. QED
    BY <1>1, <2>4 DEF h

LEMMA KeptFits ==
  ASSUME NEW klass, NEW e \in Entry
  PROVE  /\ Kept(klass, e) \in Entry
         /\ \A x \in DOMAIN Kept(klass, e) : x \in DOMAIN e /\ Kept(klass, e)[x] = e[x]
<1> DEFINE h == Restrict(e, DOMAIN e \ {"captured"})
<1>1. /\ h = [x \in DOMAIN h |-> h[x]] /\ DOMAIN h = DOMAIN e \ {"captured"}
      /\ \A x \in DOMAIN h : h[x] = e[x]
  BY DEF Restrict
<1>2. Kept(klass, e) = IF klass = "tuned" THEN e ELSE h
  BY DEF Kept
<1> HIDE DEF h
<1>3. DOMAIN h \subseteq {"chosen", "captured"} /\ \A x \in DOMAIN h : h[x] \in Keys \cup Edits
  BY <1>1, EntryParts
<1>4. h \in Entry
  BY <1>1, <1>3, EntryParts
<1>5. QED
  BY <1>1, <1>2, <1>4

\* A row's settings go to its new key; none is made up.
LEMMA RekeyKeeps ==
  ASSUME NEW s \in Store, NEW row, RowFits(row)
  PROVE  Rekey(s, row) \in Store /\ Settings(Rekey(s, row)) \subseteq Settings(s)
<1> DEFINE hit   == IF s[row.file] # Nil THEN row.file ELSE Stem(row.file)
           moved == IF s[hit] = Nil THEN Nil ELSE Kept(row.klass, s[hit])
           left  == [s EXCEPT ![row.file] = Nil]
           base  == IF left[row.after] = Nil /\ row.klass = "tuned" /\ row.old # Nil
                    THEN left[row.old] ELSE left[row.after]
           new   == Merged(base, moved)
           In(e) == \A x \in DOMAIN e : e[x] \in Settings(s)
<1>1. /\ row.file \in Keys /\ row.after \in Keys /\ Stem(row.file) \in Keys
      /\ row.old # Nil => row.old \in Keys
  BY FoundFits, PatchParts DEF RowFits
<1>2. \A k \in Keys : s[k] = Nil \/ (s[k] \in Entry /\ In(s[k]))
  BY SettingsAre DEF Store
<1>3. moved = Nil \/ (moved \in Entry /\ In(moved))
  <2>1. hit \in Keys
    BY <1>1
  <2> HIDE DEF hit
  <2>2. QED
    BY <1>2, <2>1, KeptFits
<1>4. /\ left \in Store /\ \A k \in Keys : left[k] = Nil \/ left[k] = s[k]
      /\ \A e \in Entry : [left EXCEPT ![row.after] = e] \in Store
  BY <1>1 DEF Store
<1> HIDE DEF moved, left
<1>5. base = Nil \/ (base \in Entry /\ In(base))
  BY <1>1, <1>2, <1>4
<1> HIDE DEF base
<1>6. new = Nil \/ (new \in Entry /\ In(new))
  <2>1. CASE moved = Nil \/ base = Nil
    BY <1>3, <1>5, <2>1 DEF Merged
  <2>2. CASE moved # Nil /\ base # Nil
    <3>1. new = Over(moved, base)
      BY <2>2 DEF Merged
    <3>2. moved \in Entry /\ base \in Entry /\ In(moved) /\ In(base)
      BY <1>3, <1>5, <2>2
    <3> HIDE DEF new
    <3>3. QED
      BY <3>1, <3>2, OverFits
  <2>3. QED
    BY <2>1, <2>2
<1>7. Rekey(s, row) = IF row.klass = "user" THEN s
                      ELSE IF new = Nil \/ (base = Nil /\ DOMAIN new = {}) THEN left
                      ELSE [left EXCEPT ![row.after] = new]
  BY DEF Rekey, new, base, left, moved
<1> HIDE DEF new
<1>8. Settings(left) \subseteq Settings(s)
  <2>1. ASSUME NEW x \in Settings(left) PROVE x \in Settings(s)
    <3>1. PICK k \in Keys : left[k] # Nil /\ \E y \in DOMAIN left[k] : x = left[k][y]
      BY <2>1, SettingsAre
    <3>2. QED
      BY <1>2, <1>4, <3>1
  <2>2. QED
    BY <2>1
<1>9. ASSUME new # Nil
      PROVE  Settings([left EXCEPT ![row.after] = new]) \subseteq Settings(s)
  <2> DEFINE t == [left EXCEPT ![row.after] = new]
  <2>1. \A k \in Keys : t[k] = left[k] \/ t[k] = new
    BY <1>1, <1>4 DEF Store
  <2> HIDE DEF t
  <2>2. ASSUME NEW x \in Settings(t) PROVE x \in Settings(s)
    <3>1. PICK k \in Keys : t[k] # Nil /\ \E y \in DOMAIN t[k] : x = t[k][y]
      BY <2>2, SettingsAre
    <3>2. QED
      BY <1>2, <1>4, <1>6, <1>9, <2>1, <3>1
  <2>3. QED
    BY <2>2 DEF t
<1>10. QED
  BY <1>4, <1>6, <1>7, <1>8, <1>9

\* The new store, from no row to all of them.
LEMMA RekeyedIs ==
  ASSUME saved \in Saved
  PROVE  /\ \A t \in SUBSET FileRows : t # {} => LastRow(t) \in t
         /\ \A t \in SUBSET FileRows : Rekeyed[t] =
              IF t = {} THEN saved.store ELSE Rekey(Rekeyed[t \ {LastRow(t)}], LastRow(t))
<1> DEFINE rows  == FileRows
           Sum(f) == [t \in SUBSET rows |->
                        IF t = {} THEN saved.store ELSE Rekey(f[t \ {LastRow(t)}], LastRow(t))]
           P(f)   == f = Sum(f)
<1>1. \A t \in SUBSET rows : t # {} => LastRow(t) \in t
  BY RowsFit, FoundFits, LastIsOne DEF RowFits
<1>2. \E f : P(f)
  <2> DEFINE s == saved.store
  <2>1. IsFiniteSet(rows) /\ s \in Store
    BY FiniteRows, SavedParts
  <2> HIDE DEF rows, s
  <2>2. PICK f : \A t \in SUBSET rows :
                   f[t] = IF t = {} THEN s ELSE Rekey(f[t \ {LastRow(t)}], LastRow(t))
    BY <1>1, <2>1, RowByRow
  <2> DEFINE h == [t \in SUBSET rows |-> f[t]]
  <2>3. h = [t \in SUBSET rows |-> IF t = {} THEN s ELSE Rekey(h[t \ {LastRow(t)}], LastRow(t))]
    <3>1. \A t \in SUBSET rows : h[t] = IF t = {} THEN s ELSE Rekey(h[t \ {LastRow(t)}], LastRow(t))
      BY <1>1, <2>2
    <3>2. QED
      BY <3>1
  <2>4. QED
    BY <2>3 DEF s
<1>3. Rekeyed = CHOOSE f : P(f)
  BY DEF Rekeyed
<1>4. P(Rekeyed)
  <2> HIDE DEF P
  <2>1. QED
    BY <1>2, <1>3
<1>5. \A t \in SUBSET rows : Rekeyed[t] = Sum(Rekeyed)[t]
  <2> HIDE DEF Sum
  <2>1. QED
    BY <1>4
<1>6. QED
  BY <1>1, <1>5

\* It has its type and no setting the old one has not.
LEMMA NewStoreKeeps ==
  ASSUME saved \in Saved
  PROVE  /\ NewStore \in Store /\ Settings(NewStore) \subseteq Settings(saved.store)
         /\ \A t \in SUBSET FileRows : Rekeyed[t] \in Store
<1> DEFINE K == {s \in Store : Settings(s) \subseteq Settings(saved.store)}
           C == {t \in SUBSET FileRows : Rekeyed[t] \notin K}
<1>1. saved.store \in K
  BY SavedParts
<1>2. \A x \in K, r \in FileRows : Rekey(x, r) \in K
  BY RowsFit, RekeyKeeps
<1> HIDE DEF K
<1>3. ASSUME C # {} PROVE FALSE
  <2>1. PICK t \in C : \A u \in SUBSET t : u # t => u \notin C
    <3> DEFINE D == C
    <3>1. D \in SUBSET (SUBSET FileRows) /\ D # {}
      BY <1>3
    <3> HIDE DEF D
    <3>2. \E t \in D : \A u \in SUBSET t : u # t => u \notin D
      BY <3>1, FiniteRows, SmallestIsOne
    <3>3. QED
      BY <3>2 DEF D
  <2>2. t \in SUBSET FileRows /\ Rekeyed[t] \notin K /\ t # {}
    BY <1>1, <2>1, RekeyedIs
  <2> DEFINE u == t \ {LastRow(t)}
  <2>3. LastRow(t) \in t /\ u \in SUBSET t /\ u # t
    BY <2>2, RekeyedIs
  <2>4. Rekeyed[u] \in K
    BY <2>1, <2>2, <2>3
  <2>5. Rekeyed[t] = Rekey(Rekeyed[u], LastRow(t))
    BY <2>2, RekeyedIs
  <2>6. QED
    BY <1>2, <2>2, <2>3, <2>4, <2>5
<1>4. \A t \in SUBSET FileRows : Rekeyed[t] \in K
  BY <1>3
<1>5. QED
  BY <1>4 DEF K, NewStore

LEMMA NewFits ==
  ASSUME saved \in Saved
  PROVE  New \in Saved /\ New.store = NewStore /\ Changed \subseteq Labels
<1>1. NewIndex \in Index
  <2> DEFINE v == 2
             c == [k \in {r.after : r \in Rows} |-> Nil]
  <2>1. \A r \in Rows : r.after \in Patches
    BY RowsFit, SavedIndex DEF Rows, IndexRows, RowFits
  <2>2. c = [p \in DOMAIN c |-> c[p]] /\ DOMAIN c \subseteq Patches
        /\ \A p \in DOMAIN c : c[p] \in Names \cup {Nil}
    BY <2>1
  <2>3. NewIndex = [version |-> v, copy |-> c] /\ v \in 1..2
    BY DEF NewIndex
  <2> HIDE DEF v, c
  <2>4. QED
    BY <2>2, <2>3, IndexParts
<1>2. NewLast \in Patches
  <2> DEFINE moved == {r \in FileOps : r.file = saved.last}
  <2>1. moved # {} => (CHOOSE r \in moved : TRUE) \in moved
    <3> HIDE DEF moved
    <3>1. QED
      OBVIOUS
  <2>2. \A r \in moved : r.after \in Patches
    BY RowsFit DEF FileOps, RowFits
  <2>3. NewLast = IF moved = {} THEN saved.last ELSE (CHOOSE r \in moved : TRUE).after
    BY DEF NewLast
  <2> HIDE DEF moved
  <2>4. saved.last \in Patches
    BY SavedParts
  <2>5. QED
    BY <2>1, <2>2, <2>3, <2>4
<1>3. NewStore \in Store
  BY NewStoreKeeps
<1>4. New \in Saved /\ New.store = NewStore
  BY <1>1, <1>2, <1>3 DEF New, Saved
<1>5. QED
  BY <1>4 DEF Changed

\* A row's settings: where its file's key was, nothing; at its new key what the
\* browser read for it, over what was there; elsewhere as before.
Carried(s, row) ==
  LET read == Reads(s, row.file) IN IF read = Nil THEN <<>> ELSE Kept(row.klass, read)
Has(e, fields) == \A x \in DOMAIN fields : e # Nil /\ x \in DOMAIN e /\ e[x] = fields[x]
ReadsAs(s, f) ==
  LET now == Reads(s, f.after)
  IN \A x \in DOMAIN f.read : now # Nil /\ x \in DOMAIN now /\ now[x] = f.read[x]

LEMMA NilIsNoEntry == Nil \notin Entry
BY NilAssumption

LEMMA NothingIsEmpty == DOMAIN <<>> = {}
OBVIOUS

LEMMA RekeyIs ==
  ASSUME NEW s \in Store, NEW row, RowFits(row), row.klass # "user", row.file # row.after
  PROVE  /\ \A k \in Keys : k # row.file /\ k # row.after => Rekey(s, row)[k] = s[k]
         /\ Has(Rekey(s, row)[row.after], Carried(s, row))
<1> DEFINE hit   == IF s[row.file] # Nil THEN row.file ELSE Stem(row.file)
           moved == IF s[hit] = Nil THEN Nil ELSE Kept(row.klass, s[hit])
           left  == [s EXCEPT ![row.file] = Nil]
           base  == IF left[row.after] = Nil /\ row.klass = "tuned" /\ row.old # Nil
                    THEN left[row.old] ELSE left[row.after]
           new   == Merged(base, moved)
           r     == Rekey(s, row)
<1>1. /\ row.file \in Keys /\ row.after \in Keys
      /\ Stem(row.file) \in Keys
  BY FoundFits, PatchParts DEF RowFits
<1>2. s[hit] = Reads(s, row.file)
  BY DEF Reads
<1>3. Carried(s, row) = IF moved = Nil THEN <<>> ELSE moved
  <2>1. s[hit] # Nil => Kept(row.klass, s[hit]) # Nil
    <3>1. s[hit] # Nil => s[hit] \in Entry
      <4>1. hit \in Keys
        BY <1>1
      <4> HIDE DEF hit
      <4>2. QED
        BY <4>1 DEF Store
    <3>2. Nil \notin Entry
      BY NilIsNoEntry
    <3> HIDE DEF hit
    <3>3. QED
      BY <3>1, <3>2, KeptFits
  <2> HIDE DEF hit
  <2>2. QED
    BY <1>2, <2>1 DEF Carried
<1>4. r = IF new = Nil \/ (base = Nil /\ DOMAIN new = {}) THEN left
          ELSE [left EXCEPT ![row.after] = new]
  BY DEF Rekey
<1>5. /\ left \in [Keys -> Entry \cup {Nil}]
      /\ \A k \in Keys : k # row.file => left[k] = s[k]
  BY <1>1 DEF Store
<1>6. moved # Nil => new # Nil /\ Has(new, moved)
  <2>1. moved # Nil /\ base = Nil => new = moved
    BY DEF Merged
  <2>2. moved # Nil /\ base # Nil => new = Over(moved, base)
    BY DEF Merged
  <2>3. moved # Nil /\ base # Nil => new # Nil /\ Has(new, moved)
    <3>1. ASSUME moved # Nil, base # Nil PROVE new # Nil /\ Has(new, moved)
      <4>1. moved \in Entry /\ base \in Entry
        <5>1. left[row.after] \in Entry \cup {Nil}
          BY <1>1, <1>5
        <5>2. row.old # Nil => left[row.old] \in Entry \cup {Nil}
          BY <1>5, PatchParts DEF RowFits
        <5>3. base \in Entry
          <6> HIDE DEF left
          <6>1. QED
            BY <3>1, <5>1, <5>2
        <5>4. moved \in Entry
          <6>1. s[hit] \in Entry
            <7>1. hit \in Keys
              BY <1>1
            <7>2. s[hit] # Nil
              BY <3>1
            <7> HIDE DEF hit
            <7>3. QED
              BY <7>1, <7>2 DEF Store
          <6> HIDE DEF hit
          <6>2. QED
            BY <3>1, <6>1, KeptFits
        <5>5. QED
          BY <5>3, <5>4
      <4> HIDE DEF moved, base, new
      <4>2. new = Over(moved, base) /\ Over(moved, base) \in Entry /\ Nil \notin Entry
        BY <2>2, <3>1, <4>1, OverFits, NilIsNoEntry
      <4>3. \A x \in DOMAIN moved : x \in DOMAIN Over(moved, base) /\ Over(moved, base)[x] = moved[x]
        BY DEF Over
      <4>4. QED
        BY <4>2, <4>3 DEF Has
    <3>2. QED
      BY <3>1
  <2> HIDE DEF moved, base, new
  <2>4. QED
    BY <2>1, <2>3 DEF Has
<1> HIDE DEF moved, base, new, left, r
<1>7. \A k \in Keys : k # row.file /\ k # row.after => r[k] = s[k]
  BY <1>4, <1>5
<1>8. Has(r[row.after], Carried(s, row))
  <2>1. CASE moved = Nil
    BY <1>3, <2>1, NothingIsEmpty DEF Has
  <2>2. CASE moved # Nil /\ base = Nil /\ DOMAIN new = {}
    BY <1>3, <1>6, <2>2 DEF Has
  <2>3. CASE moved # Nil /\ ~(base = Nil /\ DOMAIN new = {})
    <3>1. r[row.after] = new
      BY <1>1, <1>4, <1>5, <1>6, <2>3
    <3>2. QED
      BY <1>3, <1>6, <2>3, <3>1
  <2>4. QED
    BY <2>1, <2>2, <2>3
<1>9. QED
  BY <1>7, <1>8 DEF r

\* Where a row of the plan leads, and which of them moves a file.
LEMMA RowsAre ==
  ASSUME saved \in Saved
  PROVE  /\ \A r \in Rows : r.after \in Patches
         /\ \A r \in FileOps : r \in FileRows /\ r \in Rows /\ r.klass # "user"
         /\ \A r \in FileRows \ FileOps : r.klass = "user" /\ r.after = r.file
         /\ \A r \in Rows \ FileRows : r.file = Nil /\ r.klass = "index-only"
<1>1. \A r \in FileRows : r.klass = "user" => r.after = r.file
  BY DEF FileRows, Target
<1>2. QED
  BY <1>1, RowsFit, SavedIndex DEF Rows, IndexRows, FileOps, RowFits

\* No row that moves a file touches the key of another one's file, or a bare name.
LEMMA RekeyedLeaves ==
  ASSUME saved \in Saved, \A r \in Rows, q \in FileOps : r.after # q.file, NEW k \in Keys
  PROVE  \A t \in SUBSET FileRows :
           (\A r \in t \cap FileOps : k # r.file /\ k # r.after) => Rekeyed[t][k] = saved.store[k]
<1> DEFINE Apart(t) == \A r \in t \cap FileOps : k # r.file /\ k # r.after
           C == {t \in SUBSET FileRows : Apart(t) /\ Rekeyed[t][k] # saved.store[k]}
<1>1. SUFFICES ASSUME C # {} PROVE FALSE
  BY <1>1
<1>2. PICK t \in C : \A u \in SUBSET t : u # t => u \notin C
  <2> DEFINE D == C
  <2>1. D \in SUBSET (SUBSET FileRows) /\ D # {}
    BY <1>1
  <2> HIDE DEF D
  <2>2. \E t \in D : \A u \in SUBSET t : u # t => u \notin D
    BY <2>1, FiniteRows, SmallestIsOne
  <2>3. QED
    BY <2>2 DEF D
<1>3. t \in SUBSET FileRows /\ Apart(t) /\ Rekeyed[t][k] # saved.store[k]
  BY <1>2
<1>4. t # {}
  BY <1>3, RekeyedIs
<1> DEFINE last == LastRow(t)
           u    == t \ {last}
<1>5. last \in t /\ Rekeyed[t] = Rekey(Rekeyed[u], last)
  BY <1>3, <1>4, RekeyedIs
<1>6. u \in SUBSET t /\ u # t /\ u \in SUBSET FileRows /\ Apart(u)
  BY <1>3, <1>5
<1>7. Rekeyed[u][k] = saved.store[k]
  BY <1>2, <1>6
<1>8. Rekeyed[u] \in Store
  BY <1>6, NewStoreKeeps
<1> HIDE DEF u, C
<1>9. CASE last \in FileOps
  <2>1. RowFits(last) /\ last.klass # "user" /\ last.file # last.after /\ k # last.file /\ k # last.after
    BY <1>3, <1>5, <1>9, RowsFit, RowsAre
  <2> HIDE DEF last
  <2>2. Rekey(Rekeyed[u], last)[k] = Rekeyed[u][k]
    BY <1>8, <2>1, RekeyIs
  <2>3. QED
    BY <1>3, <1>5, <1>7, <2>2
<1>10. CASE last \notin FileOps
  <2>1. last.klass = "user"
    BY <1>3, <1>5, <1>10, RowsAre
  <2>2. Rekey(Rekeyed[u], last) = Rekeyed[u]
    BY <2>1 DEF Rekey
  <2>3. QED
    BY <1>3, <1>5, <1>7, <2>2
<1>11. QED
  BY <1>9, <1>10

\* Where rows move files to, one of them has there what was read for its file.
LEMMA RekeyedHas ==
  ASSUME saved \in Saved, \A r \in Rows, q \in FileOps : r.after # q.file, NEW a \in Patches
  PROVE  \A t \in SUBSET FileRows :
           (\E r \in t \cap FileOps : r.after = a) =>
             \E r \in t \cap FileOps : r.after = a /\ Has(Rekeyed[t][a], Carried(saved.store, r))
<1> DEFINE Goes(t) == \E r \in t \cap FileOps : r.after = a
           Fed(t)  == \E r \in t \cap FileOps : r.after = a /\ Has(Rekeyed[t][a], Carried(saved.store, r))
           C == {t \in SUBSET FileRows : Goes(t) /\ ~Fed(t)}
<1>1. SUFFICES ASSUME C # {} PROVE FALSE
  BY <1>1
<1>2. PICK t \in C : \A u \in SUBSET t : u # t => u \notin C
  <2> DEFINE D == C
  <2>1. D \in SUBSET (SUBSET FileRows) /\ D # {}
    BY <1>1
  <2> HIDE DEF D
  <2>2. \E t \in D : \A u \in SUBSET t : u # t => u \notin D
    BY <2>1, FiniteRows, SmallestIsOne
  <2>3. QED
    BY <2>2 DEF D
<1>3. t \in SUBSET FileRows /\ Goes(t) /\ ~Fed(t)
  BY <1>2
<1> DEFINE last == LastRow(t)
           u    == t \ {last}
<1>4. last \in t /\ Rekeyed[t] = Rekey(Rekeyed[u], last)
  BY <1>3, RekeyedIs
<1>5. u \in SUBSET t /\ u # t /\ u \in SUBSET FileRows
  BY <1>3, <1>4
<1>6. Goes(u) => Fed(u)
  <2> HIDE DEF Goes, Fed, u
  <2>1. QED
    BY <1>2, <1>5
<1>7. Rekeyed[u] \in Store
  BY <1>5, NewStoreKeeps
<1>8. \A r \in t : RowFits(r) /\ r.after \in Patches /\ r.file \in Patches
  BY <1>3, RowsFit, FoundFits DEF RowFits
<1>9. CASE last \in FileOps /\ last.after = a
  <2>1. last.klass # "user" /\ last.file # last.after
    BY <1>9, RowsAre
  <2>2. \A r \in u \cap FileOps : last.file # r.file /\ last.file # r.after
    BY <1>3, <1>4, <1>9, RowsFit, RowsAre
  <2>3. Rekeyed[u][last.file] = saved.store[last.file]
    BY <1>4, <1>5, <1>8, <2>2, RekeyedLeaves, PatchParts
  <2>4. Stem(last.file) \in Keys /\ Stem(last.file) \notin Patches
    BY <1>4, <1>8, PatchParts DEF Stem, Patches, Places
  <2>5. Rekeyed[u][Stem(last.file)] = saved.store[Stem(last.file)]
    BY <1>5, <1>8, <2>4, RekeyedLeaves
  <2>6. Carried(Rekeyed[u], last) = Carried(saved.store, last)
    BY <2>3, <2>5 DEF Carried, Reads
  <2>7. RowFits(last)
    BY <1>4, <1>8
  <2> HIDE DEF last, u
  <2>8. Has(Rekey(Rekeyed[u], last)[last.after], Carried(Rekeyed[u], last))
    BY <1>7, <2>1, <2>7, RekeyIs
  <2>9. QED
    BY <1>3, <1>4, <1>9, <2>6, <2>8
<1>10. CASE ~(last \in FileOps /\ last.after = a)
  <2>1. Goes(u)
    BY <1>3, <1>10
  <2>2. PICK r \in u \cap FileOps : r.after = a /\ Has(Rekeyed[u][a], Carried(saved.store, r))
    BY <1>6, <2>1
  <2>3. Rekeyed[t][a] = Rekeyed[u][a]
    <3>1. CASE last \in FileOps
      <4>1. RowFits(last) /\ last.klass # "user" /\ last.file # last.after /\ a # last.after
        BY <1>4, <1>8, <1>10, <3>1, RowsAre
      <4>2. a # last.file
        BY <2>2, <3>1, RowsAre
      <4>3. a \in Keys
        BY PatchParts
      <4> HIDE DEF last, u
      <4>4. QED
        BY <1>4, <1>7, <4>1, <4>2, <4>3, RekeyIs
    <3>2. CASE last \notin FileOps
      <4>1. last.klass = "user"
        BY <1>3, <1>4, <3>2, RowsAre
      <4>2. QED
        BY <1>4, <4>1 DEF Rekey
    <3>3. QED
      BY <3>1, <3>2
  <2>4. QED
    BY <1>3, <1>5, <2>2, <2>3
<1>11. QED
  BY <1>9, <1>10

\* What the plan makes of the settings is what its favourites need.
LEMMA NewFollows ==
  ASSUME saved \in Saved, \A r \in Rows, q \in FileOps : r.after # q.file, NEW row \in Rows,
         NEW f, f = Snapshot(row)
  PROVE  /\ f.after \in DOMAIN New.index.copy
         /\ \/ \E g \in {Snapshot(r) : r \in Rows} \ {f} : g.after = f.after
            \/ ReadsAs(New.store, f)
<1> DEFINE key  == IF row.file # Nil THEN row.file ELSE row.after
           read == Reads(saved.store, key)
           fits(r) == /\ Snapshot(r).after = r.after
                      /\ r \in FileOps => Snapshot(r).read = Carried(saved.store, r)
           a    == row.after
<1>1. f.after = a /\ f.read = IF read = Nil THEN <<>> ELSE Kept(row.klass, read)
  BY DEF Snapshot
<1>2. f.after \in DOMAIN New.index.copy
  BY <1>1 DEF New, NewIndex
<1>3. a \in Patches /\ a \in Keys /\ Stem(a) \in Keys /\ Stem(a) \notin Patches
  BY RowsAre, PatchParts DEF Stem, Patches, Places
<1>4. New.store = Rekeyed[FileRows] /\ New.store \in Store
  BY NewStoreKeeps DEF New, NewStore
<1>5. \A r \in FileOps : r.file \in Patches /\ r.after \in Patches /\ r \in FileRows
  BY RowsFit, RowsAre, FoundFits DEF RowFits
<1>6. New.store[Stem(a)] = saved.store[Stem(a)]
  <2>1. \A r \in FileRows \cap FileOps : Stem(a) # r.file /\ Stem(a) # r.after
    BY <1>3, <1>5
  <2>2. QED
    BY <1>3, <1>4, <2>1, RekeyedLeaves
<1>7. CASE \E r \in FileOps : r.after = a
  <2>1. PICK r \in FileOps : r.after = a /\ Has(New.store[a], Carried(saved.store, r))
    <3>1. \E r \in FileRows \cap FileOps : r.after = a
      BY <1>5, <1>7
    <3> HIDE DEF a
    <3>2. \E r \in FileRows \cap FileOps : r.after = a /\ Has(Rekeyed[FileRows][a], Carried(saved.store, r))
      BY <1>3, <3>1, RekeyedHas
    <3>3. QED
      BY <1>4, <3>2
  <2>2. r \in Rows /\ r.file # Nil
    BY <2>1, <1>5, RowsAre, NilIsNone
  <2>3. Snapshot(r).after = a /\ Snapshot(r).read = Carried(saved.store, r)
    BY <2>1, <2>2 DEF Snapshot, Carried
  <2>4. CASE Snapshot(r) # f
    BY <1>1, <1>2, <2>2, <2>3, <2>4
  <2>5. CASE Snapshot(r) = f
    <3>1. f.read = Carried(saved.store, r)
      BY <2>3, <2>5
    <3>2. \A x \in DOMAIN f.read : /\ New.store[a] # Nil /\ x \in DOMAIN New.store[a]
                                   /\ New.store[a][x] = f.read[x]
      BY <2>1, <3>1 DEF Has
    <3>3. ReadsAs(New.store, f)
      BY <1>1, <3>2 DEF ReadsAs, Reads
    <3>4. QED
      BY <1>2, <3>3
  <2>6. QED
    BY <2>4, <2>5
<1>8. CASE \A r \in FileOps : r.after # a
  <2>1. New.store[a] = saved.store[a]
    <3>1. \A r \in FileRows \cap FileOps : a # r.file /\ a # r.after
      BY <1>8
    <3>2. QED
      BY <1>3, <1>4, <3>1, RekeyedLeaves
  <2>2. row \notin FileOps
    BY <1>8
  <2>3. key = a
    BY <2>2, RowsAre
  <2>4. read = Reads(New.store, a)
    BY <1>6, <2>1, <2>3 DEF Reads
  <2>5. read = Nil \/ read \in Entry
    <3>1. saved.store \in Store
      BY SavedParts
    <3>2. QED
      BY <1>3, <2>3, <3>1 DEF Reads, Store
  <2> HIDE DEF read, key
  <2>6. ReadsAs(New.store, f)
    <3>1. CASE read = Nil
      BY <1>1, <3>1, NothingIsEmpty DEF ReadsAs
    <3>2. CASE read # Nil
      BY <1>1, <2>4, <2>5, <3>2, KeptFits DEF ReadsAs
    <3>3. QED
      BY <3>1, <3>2
  <2>7. QED
    BY <1>2, <2>6
<1>9. QED
  BY <1>7, <1>8

-----------------------------------------------------------------------------
(* The first state.                                                          *)

LEMMA MoveStarts == MoveInit => MoveIInv
<1> SUFFICES ASSUME MoveInit PROVE MoveIInv
  OBVIOUS
<1>1. /\ files \in Library /\ saved \in Saved /\ run = NoRun /\ job = NoJob
      /\ git = [head |-> files, staged |-> files, kept |-> Range(files)]
      /\ undo = "none" /\ edited = FALSE /\ edits = 0
      /\ before = [files |-> files, saved |-> saved, head |-> files, half |-> FALSE]
  BY DEF MoveInit, Committed
<1>2. /\ run.state = "none" /\ run.base = files /\ run.ops = {} /\ run.found = saved
      /\ run.wrote = [l \in Labels |-> Nil] /\ run.writing = Nil
      /\ run = [state |-> run.state, base |-> run.base, ops |-> run.ops, found |-> run.found,
                wrote |-> run.wrote, writing |-> run.writing, favorites |-> run.favorites]
  BY <1>1 DEF NoRun
<1>3. job.at = "none" /\ job.cmd = "run" /\ job.puts = {} /\ job.labels = {} /\ Idle
  BY <1>1 DEF NoJob, Idle, Doing
<1>4. MoveShape
  <2>1. job = [cmd |-> job.cmd, at |-> job.at, puts |-> job.puts, labels |-> job.labels, new |-> job.new]
    BY <1>1 DEF NoJob
  <2>2. QED
    BY <1>1, <1>2, <1>3, <2>1 DEF MoveShape, Stages
<1>5. OpsFit /\ JobFits /\ PutsFit /\ LabelsFit /\ PutsDone
  BY <1>1, <1>2, <1>3 DEF OpsFit, JobFits, PutsFit, LabelsFit, PutsDone
<1>6. HistoryKept
  BY <1>1, <1>2 DEF HistoryKept
<1>7. FilesKept /\ SettingsKnown
  BY <1>2 DEF FilesKept, FilesChanged, SettingsKnown
<1>8. NoneMadeUp
  BY <1>2, <1>3 DEF NoneMadeUp, Labels
<1>9. FoundBefore
  BY <1>1, <1>2 DEF FoundBefore
<1>10. Clean
  BY <1>1, <1>2 DEF Clean, Gone
<1>11. UndoneIsAsBefore
  BY <1>2 DEF UndoneIsAsBefore, Resting
<1>12. FavoritesFit /\ FavoritesStay
  <2>1. run.favorites = {}
    BY <1>1 DEF NoRun
  <2>2. QED
    BY <1>2, <1>3, <2>1 DEF FavoritesFit, FavoritesStay, Resting
<1>13. QED
  BY <1>4, <1>5, <1>6, <1>7, <1>8, <1>9, <1>10, <1>11, <1>12 DEF MoveIInv

-----------------------------------------------------------------------------
(* The steps.                                                                *)

\* No two operations share a file.
LEMMA PathsApart ==
  ASSUME OpsFit
  PROVE  /\ \A op \in run.ops : /\ OpPaths(op) \subseteq Patches /\ op.from \in OpPaths(op)
                                /\ op.from # op.to /\ op.bytes # Nil
                                /\ op.to # Nil => op.to \in OpPaths(op)
                                /\ \A p \in OpPaths(op) : p = op.from \/ (p = op.to /\ op.to # Nil)
         /\ \A op, o \in run.ops : \A p \in OpPaths(op) \cap OpPaths(o) : op = o
<1>1. ASSUME NEW op \in run.ops
      PROVE  /\ OpPaths(op) \subseteq Patches /\ op.from \in OpPaths(op)
             /\ op.from # op.to /\ op.bytes # Nil
             /\ op.to # Nil => op.to \in OpPaths(op)
             /\ \A p \in OpPaths(op) : p = op.from \/ (p = op.to /\ op.to # Nil)
  BY NilIsNone DEF OpsFit, OpPaths
<1>2. ASSUME NEW op \in run.ops, NEW o \in run.ops, NEW p \in OpPaths(op) \cap OpPaths(o)
      PROVE  op = o
  <2>1. /\ p = op.from \/ (p = op.to /\ op.to # Nil)
        /\ p = o.from \/ (p = o.to /\ o.to # Nil)
    BY <1>1
  <2>2. op.from # o.to \/ o.to = Nil
    BY DEF OpsFit
  <2>3. o.from # op.to \/ op.to = Nil
    BY DEF OpsFit
  <2>4. QED
    BY <2>1, <2>2, <2>3 DEF OpsFit
<1>3. QED
  BY <1>1, <1>2

\* An undo refuses on account of files just when one is neither gone nor the run's.
LEMMA ChangedFiles ==
  OpsFit => (~FilesChanged <=> \A op \in run.ops : \A p \in OpPaths(op) : files[p] \in {Nil, op.bytes})
<1> SUFFICES ASSUME OpsFit
             PROVE  ~FilesChanged <=> \A op \in run.ops : \A p \in OpPaths(op) : files[p] \in {Nil, op.bytes}
  OBVIOUS
<1>1. \A op \in run.ops : (\A p \in OpPaths(op) : files[p] \in {Nil, op.bytes}) <=>
        /\ files[op.from] \in {Nil, op.bytes}
        /\ op.to # Nil => files[op.to] \in {Nil, op.bytes}
  BY PathsApart
<1>2. QED
  BY <1>1 DEF FilesChanged, There

\* What a command puts into a file is nothing or what the run found there.
LEMMA FirstPut ==
  ASSUME OpsFit, PutsFit, job.at \in {"file", "stage"}
  PROVE  /\ First(job.puts) \in job.puts
         /\ \E op \in run.ops : LET u == First(job.puts) IN
              /\ DOMAIN u.bytes \subseteq OpPaths(op)
              /\ \A p \in DOMAIN u.bytes : u.bytes[p] = Wanted(job.cmd, op, p)
<1>1. job.puts # {} /\ \A u \in job.puts : u.file \in Patches /\ u.half \in 1..2
  BY DEF PutsFit, OpsFit
<1>2. First(job.puts) \in job.puts
  BY <1>1, FirstIsOne
<1>3. QED
  BY <1>2 DEF PutsFit

LEMMA LabelIsOne ==
  ASSUME job.labels \subseteq Labels, job.labels # {}
  PROVE  Label \in job.labels
BY DEF Label, FirstLabel, Labels

LEMMA ThenIs ==
  ASSUME NEW cmd \in {"run", "undo"}, NEW labels
  PROVE  /\ labels = {} => Then(cmd, labels) = IF cmd = "run" THEN "state" ELSE "last"
         /\ labels # {} => Then(cmd, labels) = IF cmd = "run" THEN "writing" ELSE "write"
         /\ Then(cmd, labels) \in {"state", "last", "writing", "write"}
         /\ Then(cmd, labels) = "writing" => cmd = "run"
         /\ Then(cmd, labels) = "write" => cmd = "undo"
BY DEF Then, Opening, Closing

LEMMA ChangeFileKeeps == ASSUME MoveIInv, ChangeFile PROVE MoveIInv'
<1> DEFINE u == First(job.puts)
<1>1. /\ MoveShape /\ OpsFit /\ JobFits /\ PutsFit /\ LabelsFit /\ PutsDone /\ HistoryKept
      /\ FilesKept /\ SettingsKnown /\ NoneMadeUp /\ FoundBefore /\ Clean /\ FavoritesFit
  BY DEF MoveIInv
<1>2. /\ saved' = saved /\ git' = git /\ run' = run /\ undo' = undo /\ before' = before
      /\ edited' = edited /\ edits' = edits
      /\ job.at = "file" /\ job' = [job EXCEPT !.at = "stage"]
      /\ files' = Over(u.bytes, files)
  BY DEF ChangeFile, Doing, NextIs, past, bounds
<1>3. /\ job'.at = "stage" /\ job'.cmd = job.cmd /\ job'.puts = job.puts
      /\ job'.labels = job.labels /\ job'.new = job.new
      /\ job' = [cmd |-> job'.cmd, at |-> job'.at, puts |-> job'.puts, labels |-> job'.labels,
                 new |-> job'.new]
  BY <1>1, <1>2 DEF MoveShape
<1>4. ~Idle /\ ~Idle'
  BY <1>2, <1>3 DEF Idle, Doing
<1>5. PICK op \in run.ops : /\ u \in job.puts /\ DOMAIN u.bytes \subseteq OpPaths(op)
                            /\ \A p \in DOMAIN u.bytes : u.bytes[p] = Wanted(job.cmd, op, p)
  BY <1>1, <1>2, FirstPut
<1>6. /\ \A o \in run.ops : OpPaths(o) \subseteq Patches
      /\ \A o \in run.ops : \A p \in OpPaths(op) \cap OpPaths(o) : op = o
  BY <1>1, PathsApart
<1>7. \A p \in DOMAIN u.bytes : u.bytes[p] \in {Nil, op.bytes}
  BY <1>5 DEF Wanted
<1>8. op.bytes \in Bytes /\ files \in Library
  BY <1>1 DEF OpsFit, MoveShape
<1>9. /\ u' = u /\ Elsewhere' = Elsewhere /\ Awaited' = Awaited /\ Label' = Label
  BY <1>2, <1>3 DEF Elsewhere, Awaited, Label
<1> HIDE DEF u
<1>10. /\ files' \in Library
       /\ \A p \in Patches : files'[p] = IF p \in DOMAIN u.bytes THEN u.bytes[p] ELSE files[p]
  <2>1. DOMAIN u.bytes \cup Patches = Patches /\ DOMAIN files = Patches
    BY <1>5, <1>6, <1>8 DEF Library
  <2>2. files' = [p \in Patches |-> IF p \in DOMAIN u.bytes THEN u.bytes[p] ELSE files[p]]
    BY <1>2, <2>1 DEF Over
  <2>3. QED
    BY <1>7, <1>8, <2>2 DEF Library
<1>11. MoveShape'
  BY <1>1, <1>2, <1>3, <1>10 DEF MoveShape, Stages
<1>12. OpsFit' /\ PutsFit' /\ HistoryKept'
  BY <1>1, <1>2, <1>3 DEF OpsFit, PutsFit, HistoryKept
<1>13. JobFits' /\ LabelsFit'
  BY <1>1, <1>2, <1>3, <1>4, <1>9 DEF JobFits, LabelsFit
<1>14. PutsDone'
  <2>1. ASSUME NEW o \in run.ops, NEW p \in OpPaths(o) \ Awaited
        PROVE  files'[p] = Wanted(job.cmd, o, p) /\ git.staged[p] = files'[p]
    <3>1. p \in Patches /\ p \notin DOMAIN u.bytes
      BY <1>5, <1>6 DEF Awaited
    <3>2. QED
      BY <1>1, <1>4, <1>10, <3>1 DEF PutsDone
  <2>2. \A p \in DOMAIN u.bytes : files'[p] = u.bytes[p]
    BY <1>5, <1>6, <1>10
  <2>3. First(job'.puts) = u
    BY <1>3 DEF u
  <2>4. QED
    BY <1>2, <1>3, <1>9, <2>1, <2>2, <2>3 DEF PutsDone
<1>15. FilesKept'
  <2>1. \A o \in run.ops : \A p \in OpPaths(o) : files[p] \in {Nil, o.bytes}
    BY <1>1, <1>4, ChangedFiles DEF FilesKept
  <2>2. ASSUME NEW o \in run.ops, NEW p \in OpPaths(o) PROVE files'[p] \in {Nil, o.bytes}
    <3>1. CASE p \in DOMAIN u.bytes
      BY <1>5, <1>6, <1>7, <1>10, <3>1
    <3>2. CASE p \notin DOMAIN u.bytes
      BY <1>6, <1>10, <2>1, <3>2
    <3>3. QED
      BY <3>1, <3>2
  <2>3. \A o \in run.ops : /\ files'[o.from] \in {Nil, o.bytes}
                           /\ o.to # Nil => files'[o.to] \in {Nil, o.bytes}
    BY <1>1, <2>2, PathsApart
  <2>4. QED
    BY <1>2, <2>3 DEF FilesKept, FilesChanged, There
<1>16. SettingsKnown' /\ NoneMadeUp'
  BY <1>1, <1>2, <1>3, <1>4 DEF SettingsKnown, SettingsChanged, NoneMadeUp
<1>17. \A p \in Elsewhere : files'[p] = files[p]
  BY <1>5, <1>10 DEF Elsewhere
<1>18. FoundBefore'
  BY <1>1, <1>2, <1>9, <1>17 DEF FoundBefore
<1>19. Clean'
  BY <1>1, <1>2, <1>4, <1>9, <1>17 DEF Clean, Gone, Settled
<1>20. UndoneIsAsBefore'
  BY <1>4 DEF UndoneIsAsBefore, Resting
<1>21. FavoritesFit'
  BY <1>1, <1>2, <1>3, <1>4 DEF FavoritesFit, Follows, Spares
<1>22. FavoritesStay'
  BY <1>4 DEF FavoritesStay, Resting
<1>23. QED
  BY <1>11, <1>12, <1>13, <1>14, <1>15, <1>16, <1>18, <1>19, <1>20, <1>21, <1>22
  DEF MoveIInv

LEMMA StageFileKeeps == ASSUME MoveIInv, StageFile PROVE MoveIInv'
<1> DEFINE u == First(job.puts)
           left == job.puts \ {u}
<1>1. /\ MoveShape /\ OpsFit /\ JobFits /\ PutsFit /\ LabelsFit /\ PutsDone /\ HistoryKept
      /\ FilesKept /\ SettingsKnown /\ NoneMadeUp /\ FoundBefore /\ Clean /\ FavoritesFit
  BY DEF MoveIInv
<1>2. /\ files' = files /\ saved' = saved /\ run' = run /\ undo' = undo /\ before' = before
      /\ edited' = edited /\ edits' = edits
      /\ job.at = "stage"
      /\ job' = [job EXCEPT !.puts = left, !.at = IF left = {} THEN "commit" ELSE "file"]
      /\ git' = [git EXCEPT !.staged = Over(u.bytes, git.staged)]
  BY DEF StageFile, Doing, past, bounds
<1>3. /\ job'.at = (IF left = {} THEN "commit" ELSE "file") /\ job'.cmd = job.cmd /\ job'.puts = left
      /\ job'.labels = job.labels /\ job'.new = job.new
      /\ job' = [cmd |-> job'.cmd, at |-> job'.at, puts |-> job'.puts, labels |-> job'.labels,
                 new |-> job'.new]
      /\ git'.head = git.head /\ git'.kept = git.kept /\ git'.staged = Over(u.bytes, git.staged)
      /\ git' = [head |-> git'.head, staged |-> git'.staged, kept |-> git'.kept]
  <2> HIDE DEF u, left
  <2>1. QED
    BY <1>1, <1>2 DEF MoveShape
<1>4. ~Idle /\ ~Idle' /\ job'.at \in {"commit", "file"}
  BY <1>2, <1>3 DEF Idle, Doing
<1>5. PICK op \in run.ops : /\ u \in job.puts /\ DOMAIN u.bytes \subseteq OpPaths(op)
                            /\ \A p \in DOMAIN u.bytes : u.bytes[p] = Wanted(job.cmd, op, p)
  BY <1>1, <1>2, FirstPut
<1>6. /\ \A o \in run.ops : OpPaths(o) \subseteq Patches
      /\ \A o \in run.ops : \A p \in OpPaths(op) \cap OpPaths(o) : op = o
  BY <1>1, PathsApart
<1>7. \A p \in DOMAIN u.bytes : u.bytes[p] \in {Nil, op.bytes}
  BY <1>5 DEF Wanted
<1>8. op.bytes \in Bytes /\ git.staged \in Library
  BY <1>1 DEF OpsFit, MoveShape
<1>9. Elsewhere' = Elsewhere /\ Label' = Label /\ Awaited \subseteq Awaited' \cup DOMAIN u.bytes
  <2>1. Awaited \subseteq (UNION {DOMAIN v.bytes : v \in left}) \cup DOMAIN u.bytes
    BY DEF Awaited
  <2> HIDE DEF u, left
  <2>2. Awaited' = UNION {DOMAIN v.bytes : v \in left}
    BY <1>3 DEF Awaited
  <2>3. QED
    BY <1>2, <1>3, <2>1, <2>2 DEF Elsewhere, Label
<1>10. \A p \in DOMAIN u.bytes : files[p] = u.bytes[p]
  BY <1>1, <1>2 DEF PutsDone
<1>11. left \subseteq job.puts
  OBVIOUS
<1> HIDE DEF u, left
<1>12. /\ git'.staged \in Library
       /\ \A p \in Patches : git'.staged[p] = IF p \in DOMAIN u.bytes THEN u.bytes[p] ELSE git.staged[p]
  <2>1. DOMAIN u.bytes \cup Patches = Patches /\ DOMAIN git.staged = Patches
    BY <1>5, <1>6, <1>8 DEF Library
  <2>2. git'.staged = [p \in Patches |-> IF p \in DOMAIN u.bytes THEN u.bytes[p] ELSE git.staged[p]]
    BY <1>3, <2>1 DEF Over
  <2>3. QED
    BY <1>7, <1>8, <2>2 DEF Library
<1>13. MoveShape'
  BY <1>1, <1>2, <1>3, <1>12 DEF MoveShape, Stages
<1>14. OpsFit' /\ PutsFit' /\ HistoryKept'
  BY <1>1, <1>2, <1>3, <1>11 DEF OpsFit, PutsFit, HistoryKept
<1>15. JobFits' /\ LabelsFit'
  BY <1>1, <1>2, <1>3, <1>4, <1>9 DEF JobFits, LabelsFit
<1>16. PutsDone'
  <2>1. ASSUME NEW o \in run.ops, NEW p \in OpPaths(o) \ Awaited'
        PROVE  files[p] = Wanted(job.cmd, o, p) /\ git'.staged[p] = files[p]
    <3>1. p \in Patches
      BY <1>6
    <3>2. CASE p \in DOMAIN u.bytes
      BY <1>5, <1>6, <1>10, <1>12, <3>1, <3>2
    <3>3. CASE p \notin DOMAIN u.bytes
      BY <1>1, <1>4, <1>9, <1>12, <3>1, <3>3 DEF PutsDone
    <3>4. QED
      BY <3>2, <3>3
  <2>2. QED
    BY <1>2, <1>3, <1>4, <2>1 DEF PutsDone
<1>17. FilesKept' /\ SettingsKnown' /\ NoneMadeUp'
  BY <1>1, <1>2, <1>3, <1>4
  DEF FilesKept, FilesChanged, There, SettingsKnown, SettingsChanged, NoneMadeUp
<1>18. \A p \in Elsewhere : git'.staged[p] = git.staged[p]
  BY <1>5, <1>12 DEF Elsewhere
<1>19. FoundBefore'
  BY <1>1, <1>2, <1>3, <1>9, <1>18 DEF FoundBefore
<1>20. Clean'
  BY <1>1, <1>2, <1>3, <1>4, <1>9, <1>18 DEF Clean, Gone, Settled
<1>21. UndoneIsAsBefore'
  BY <1>4 DEF UndoneIsAsBefore, Resting
<1>22. FavoritesFit'
  BY <1>1, <1>2, <1>3, <1>4 DEF FavoritesFit, Follows, Spares
<1>23. FavoritesStay'
  BY <1>4 DEF FavoritesStay, Resting
<1>24. QED
  BY <1>13, <1>14, <1>15, <1>16, <1>17, <1>19, <1>20, <1>21, <1>22, <1>23
  DEF MoveIInv

LEMMA CommitStagedKeeps == ASSUME MoveIInv, CommitStaged PROVE MoveIInv'
<1>1. /\ MoveShape /\ OpsFit /\ JobFits /\ PutsFit /\ LabelsFit /\ PutsDone /\ HistoryKept
      /\ FilesKept /\ SettingsKnown /\ NoneMadeUp /\ FoundBefore /\ Clean /\ FavoritesFit
  BY DEF MoveIInv
<1> DEFINE at == Then(job.cmd, job.labels)
<1>2. /\ files' = files /\ saved' = saved /\ run' = run /\ undo' = undo /\ before' = before
      /\ edited' = edited /\ edits' = edits
      /\ job.at = "commit" /\ job' = [job EXCEPT !.at = at]
      /\ git' = [git EXCEPT !.head = git.staged, !.kept = git.kept \cup Range(git.staged)]
  BY DEF CommitStaged, Doing, NextIs, past, bounds
<1>3. /\ job.labels = {} => at = IF job.cmd = "run" THEN "state" ELSE "last"
      /\ job.labels # {} => at = IF job.cmd = "run" THEN "writing" ELSE "write"
      /\ at \in {"state", "last", "writing", "write"}
  BY <1>1, ThenIs DEF MoveShape
<1> HIDE DEF at
<1>4. /\ job'.at = at /\ job'.cmd = job.cmd /\ job'.puts = job.puts
      /\ job'.labels = job.labels /\ job'.new = job.new
      /\ job' = [cmd |-> job'.cmd, at |-> job'.at, puts |-> job'.puts, labels |-> job'.labels,
                 new |-> job'.new]
      /\ git'.head = git.staged /\ git'.kept = git.kept \cup Range(git.staged)
      /\ git'.staged = git.staged
      /\ git' = [head |-> git'.head, staged |-> git'.staged, kept |-> git'.kept]
  BY <1>1, <1>2 DEF MoveShape
<1>5. ~Idle /\ ~Idle'
  BY <1>2, <1>3, <1>4 DEF Idle, Doing
<1>6. Elsewhere' = Elsewhere /\ Label' = Label /\ Awaited' = Awaited
  BY <1>2, <1>4 DEF Elsewhere, Awaited, Label
<1>7. MoveShape'
  BY <1>1, <1>2, <1>3, <1>4 DEF MoveShape, Stages
<1>8. OpsFit' /\ HistoryKept'
  BY <1>1, <1>2, <1>4 DEF OpsFit, HistoryKept
<1>9. PutsFit'
  BY <1>1, <1>2, <1>3, <1>4 DEF PutsFit
<1>10. JobFits' /\ LabelsFit'
  BY <1>1, <1>2, <1>3, <1>4, <1>5, <1>6 DEF JobFits, LabelsFit, MoveShape
<1>11. PutsDone'
  BY <1>1, <1>2, <1>3, <1>4, <1>5, <1>6 DEF PutsDone
<1>12. FilesKept' /\ SettingsKnown' /\ NoneMadeUp'
  BY <1>1, <1>2, <1>4, <1>5
  DEF FilesKept, FilesChanged, There, SettingsKnown, SettingsChanged, NoneMadeUp
<1>13. FoundBefore'
  BY <1>1, <1>2, <1>4, <1>6 DEF FoundBefore
<1>14. Clean'
  BY <1>1, <1>2, <1>4, <1>5, <1>6 DEF Clean, Gone, Settled
<1>15. UndoneIsAsBefore'
  BY <1>5 DEF UndoneIsAsBefore, Resting
<1>16. FavoritesFit'
  BY <1>1, <1>2, <1>4, <1>5 DEF FavoritesFit, Follows, Spares
<1>17. FavoritesStay'
  BY <1>5 DEF FavoritesStay, Resting
<1>18. QED
  BY <1>7, <1>8, <1>9, <1>10, <1>11, <1>12, <1>13, <1>14, <1>15, <1>16, <1>17
  DEF MoveIInv

LEMMA SayWritingKeeps == ASSUME MoveIInv, SayWriting PROVE MoveIInv'
<1>1. /\ MoveShape /\ OpsFit /\ JobFits /\ PutsFit /\ LabelsFit /\ PutsDone /\ HistoryKept
      /\ FilesKept /\ SettingsKnown /\ NoneMadeUp /\ FoundBefore /\ Clean /\ FavoritesFit
  BY DEF MoveIInv
<1>2. /\ files' = files /\ saved' = saved /\ git' = git /\ undo' = undo /\ before' = before
      /\ edited' = edited /\ edits' = edits
      /\ job.at = "writing" /\ job' = [job EXCEPT !.at = "write"]
      /\ run' = [run EXCEPT !.writing = Label]
  BY DEF SayWriting, Doing, NextIs, past, bounds
<1>3. /\ job'.at = "write" /\ job'.cmd = job.cmd /\ job'.puts = job.puts
      /\ job'.labels = job.labels /\ job'.new = job.new
      /\ job' = [cmd |-> job'.cmd, at |-> job'.at, puts |-> job'.puts, labels |-> job'.labels,
                 new |-> job'.new]
  BY <1>1, <1>2 DEF MoveShape
<1>4. /\ run'.state = run.state /\ run'.base = run.base /\ run'.ops = run.ops
      /\ run'.found = run.found /\ run'.wrote = run.wrote /\ run'.writing = Label
      /\ run'.favorites = run.favorites
      /\ run' = [state |-> run'.state, base |-> run'.base, ops |-> run'.ops, found |-> run'.found,
                 wrote |-> run'.wrote, writing |-> run'.writing, favorites |-> run'.favorites]
  BY <1>1, <1>2 DEF MoveShape
<1>5. ~Idle /\ ~Idle'
  BY <1>2, <1>3 DEF Idle, Doing
<1>6. Elsewhere' = Elsewhere /\ Label' = Label /\ Awaited' = Awaited
  BY <1>3, <1>4 DEF Elsewhere, Awaited, Label
<1>7. Label \in job.labels /\ job.cmd = "run" /\ run.writing = Nil
  BY <1>1, <1>2, <1>5, LabelIsOne DEF LabelsFit, MoveShape
<1>8. MoveShape'
  BY <1>1, <1>2, <1>3, <1>4, <1>7 DEF MoveShape, Stages
<1>9. OpsFit' /\ HistoryKept' /\ PutsFit'
  BY <1>1, <1>2, <1>3, <1>4 DEF OpsFit, HistoryKept, PutsFit
<1>10. JobFits' /\ LabelsFit'
  BY <1>1, <1>2, <1>3, <1>4, <1>5, <1>6, <1>7 DEF JobFits, LabelsFit
<1>11. PutsDone'
  BY <1>1, <1>2, <1>3, <1>4, <1>5, <1>6 DEF PutsDone
<1>12. FilesKept' /\ NoneMadeUp'
  BY <1>1, <1>2, <1>3, <1>4, <1>5 DEF FilesKept, FilesChanged, There, NoneMadeUp
<1>13. SettingsKnown'
  BY <1>1, <1>2, <1>4, <1>5, <1>7, NilIsNone DEF SettingsKnown, SettingsChanged, Labels
<1>14. FoundBefore'
  BY <1>1, <1>2, <1>4, <1>6 DEF FoundBefore
<1>15. Clean'
  BY <1>1, <1>2, <1>4, <1>5, <1>6 DEF Clean, Gone, Settled
<1>16. UndoneIsAsBefore'
  BY <1>5 DEF UndoneIsAsBefore, Resting
<1>17. FavoritesFit'
  BY <1>1, <1>2, <1>3, <1>4, <1>5 DEF FavoritesFit, Follows, Spares
<1>18. FavoritesStay'
  BY <1>5 DEF FavoritesStay, Resting
<1>19. QED
  BY <1>8, <1>9, <1>10, <1>11, <1>12, <1>13, <1>14, <1>15, <1>16, <1>17, <1>18
  DEF MoveIInv

LEMMA WriteKeeps == ASSUME MoveIInv, Write PROVE MoveIInv'
<1>1. /\ MoveShape /\ OpsFit /\ JobFits /\ PutsFit /\ LabelsFit /\ PutsDone /\ HistoryKept
      /\ FilesKept /\ SettingsKnown /\ NoneMadeUp /\ FoundBefore /\ Clean /\ FavoritesFit
  BY DEF MoveIInv
<1> DEFINE labels == job.labels \ {Label}
           at == Then(job.cmd, labels)
<1>2. /\ files' = files /\ git' = git /\ run' = run /\ undo' = undo /\ before' = before
      /\ edited' = edited /\ edits' = edits
      /\ job.at = "write" /\ saved' = [saved EXCEPT ![Label] = job.new[Label]]
      /\ job.cmd = "run" => job' = [job EXCEPT !.at = "wrote"]
      /\ job.cmd # "run" => job' = [job EXCEPT !.labels = labels, !.at = at]
  BY DEF Write, Doing, NextIs, LabelDone, past, bounds
<1>3. /\ job.cmd \in {"run", "undo"} /\ ~Idle
      /\ Label \in job.labels /\ labels \subseteq job.labels /\ job.labels \subseteq Labels
  BY <1>1, <1>2, LabelIsOne DEF LabelsFit, MoveShape, Idle, Doing
<1>4. /\ labels = {} => at = IF job.cmd = "run" THEN "state" ELSE "last"
      /\ labels # {} => at = IF job.cmd = "run" THEN "writing" ELSE "write"
      /\ at \in {"state", "last", "writing", "write"}
  BY <1>3, ThenIs
<1>5. \A l \in job.labels : l = Label \/ l \in labels
  OBVIOUS
<1>6. Label \notin labels
  OBVIOUS
<1> HIDE DEF labels, at
<1>7. /\ job'.cmd = job.cmd /\ job'.puts = job.puts /\ job'.new = job.new
      /\ job.cmd = "run" => job'.at = "wrote" /\ job'.labels = job.labels
      /\ job.cmd = "undo" => job'.at = at /\ job'.labels = labels
      /\ job' = [cmd |-> job'.cmd, at |-> job'.at, puts |-> job'.puts, labels |-> job'.labels,
                 new |-> job'.new]
  BY <1>1, <1>2, <1>3 DEF MoveShape
<1>8. ~Idle'
  BY <1>3, <1>4, <1>7 DEF Idle, Doing
<1>9. /\ saved' \in Saved
      /\ saved'[Label] = job.new[Label]
      /\ \A l \in Labels : l # Label => saved'[l] = saved[l]
  <2>1. saved \in Saved /\ job.new \in Saved
    BY <1>1, <1>3 DEF MoveShape, JobFits
  <2>2. /\ saved = [store |-> saved.store, index |-> saved.index, last |-> saved.last]
        /\ saved.store \in Store /\ saved.index \in Index /\ saved.last \in Patches
        /\ job.new.store \in Store /\ job.new.index \in Index /\ job.new.last \in Patches
    BY <2>1, SavedParts
  <2> DEFINE l == Label
             v == job.new[l]
  <2>3. l \in {"store", "index", "last"} /\ saved' = [saved EXCEPT ![l] = v]
    BY <1>2, <1>3 DEF Labels
  <2> HIDE DEF l
  <2>4. /\ saved'[l] = v
        /\ \A m \in Labels : m # l => saved'[m] = saved[m]
        /\ saved' = [store |-> saved'.store, index |-> saved'.index, last |-> saved'.last]
    BY <2>2, <2>3 DEF Labels
  <2>5. saved'.store \in Store /\ saved'.index \in Index /\ saved'.last \in Patches
    BY <2>2, <2>3, <2>4 DEF Labels
  <2>6. saved' \in Saved
    BY <2>4, <2>5 DEF Saved
  <2>7. QED
    BY <2>4, <2>6 DEF l
<1>10. Elsewhere' = Elsewhere /\ Awaited' = Awaited
  BY <1>2, <1>7 DEF Elsewhere, Awaited
<1>11. job.cmd = "run" => Label' = Label /\ run.writing = Label
  BY <1>1, <1>2, <1>3, <1>7 DEF Label, LabelsFit
<1>12. MoveShape'
  BY <1>1, <1>2, <1>3, <1>4, <1>7, <1>9 DEF MoveShape, Stages
<1>13. OpsFit' /\ HistoryKept' /\ PutsFit'
  BY <1>1, <1>2, <1>3, <1>4, <1>7 DEF OpsFit, HistoryKept, PutsFit
<1>14. JobFits'
  BY <1>1, <1>2, <1>3, <1>7, <1>8 DEF JobFits
<1>15. LabelsFit'
  <2>1. CASE job.cmd = "run"
    BY <1>1, <1>2, <1>3, <1>7, <1>8, <1>9, <1>11, <2>1 DEF LabelsFit
  <2>2. CASE job.cmd = "undo"
    <3>1. job.labels \subseteq {"store", "index"} /\ job.new = run.found
      BY <1>1, <1>3, <2>2 DEF LabelsFit, JobFits
    <3>2. \A l \in {"store", "index"} \ labels : saved'[l] = run.found[l]
      BY <1>1, <1>3, <1>5, <1>9, <2>2, <3>1 DEF LabelsFit, Labels
    <3>3. QED
      BY <1>1, <1>2, <1>3, <1>4, <1>7, <1>8, <2>2, <3>1, <3>2 DEF LabelsFit
  <2>3. QED
    BY <1>3, <2>1, <2>2
<1>16. PutsDone'
  BY <1>1, <1>2, <1>3, <1>4, <1>7, <1>8, <1>10 DEF PutsDone
<1>17. FilesKept' /\ NoneMadeUp'
  BY <1>1, <1>2, <1>3, <1>7, <1>8 DEF FilesKept, FilesChanged, There, NoneMadeUp
<1>18. SettingsKnown'
  <2>1. job.cmd = "undo" => job.new = run.found
    BY <1>1, <1>3 DEF JobFits
  <2>2. QED
    BY <1>1, <1>2, <1>3, <1>8, <1>9, <1>11, <2>1 DEF SettingsKnown, SettingsChanged, Labels
<1>19. FoundBefore'
  BY <1>1, <1>2, <1>10 DEF FoundBefore
<1>20. Clean'
  BY <1>1, <1>2, <1>3, <1>8, <1>10 DEF Clean, Gone, Settled
<1>21. UndoneIsAsBefore'
  BY <1>8 DEF UndoneIsAsBefore, Resting
<1>22. FavoritesFit'
  BY <1>1, <1>2, <1>3, <1>7, <1>8, <1>9 DEF FavoritesFit, Follows, Spares
<1>23. FavoritesStay'
  BY <1>8 DEF FavoritesStay, Resting
<1>24. QED
  BY <1>12, <1>13, <1>14, <1>15, <1>16, <1>17, <1>18, <1>19, <1>20, <1>21, <1>22, <1>23
  DEF MoveIInv

LEMMA SayWroteKeeps == ASSUME MoveIInv, SayWrote PROVE MoveIInv'
<1>1. /\ MoveShape /\ OpsFit /\ JobFits /\ PutsFit /\ LabelsFit /\ PutsDone /\ HistoryKept
      /\ FilesKept /\ SettingsKnown /\ NoneMadeUp /\ FoundBefore /\ Clean /\ FavoritesFit
  BY DEF MoveIInv
<1> DEFINE labels == job.labels \ {Label}
           at == Then(job.cmd, labels)
           wrote == [run.wrote EXCEPT ![Label] = saved[Label]]
<1>2. /\ files' = files /\ saved' = saved /\ git' = git /\ undo' = undo /\ before' = before
      /\ edited' = edited /\ edits' = edits
      /\ job.at = "wrote" /\ job' = [job EXCEPT !.labels = labels, !.at = at]
      /\ run' = [run EXCEPT !.wrote = wrote, !.writing = Nil]
  BY DEF SayWrote, Doing, LabelDone, past, bounds
<1>3. /\ job.cmd = "run" /\ ~Idle
      /\ Label \in job.labels /\ labels \subseteq job.labels /\ job.labels \subseteq Labels
      /\ run.writing = Label /\ saved[Label] = job.new[Label]
      /\ \A l \in job.labels : l = Label \/ l \in labels
  BY <1>1, <1>2, LabelIsOne DEF LabelsFit, MoveShape, Idle, Doing
<1>4. /\ labels = {} => at = IF job.cmd = "run" THEN "state" ELSE "last"
      /\ labels # {} => at = "writing"
      /\ at \in {"state", "last", "writing"}
  BY <1>3, ThenIs
<1> HIDE DEF labels, at
<1>5. /\ job'.cmd = job.cmd /\ job'.puts = job.puts /\ job'.new = job.new
      /\ job'.at = at /\ job'.labels = labels
      /\ job' = [cmd |-> job'.cmd, at |-> job'.at, puts |-> job'.puts, labels |-> job'.labels,
                 new |-> job'.new]
  BY <1>1, <1>2 DEF MoveShape
<1>6. /\ wrote = [l \in Labels |-> wrote[l]] /\ wrote[Label] = saved[Label]
      /\ \A l \in Labels : l # Label => wrote[l] = run.wrote[l]
  <2> DEFINE l == Label
             v == saved[l]
             w == run.wrote
  <2>1. w = [m \in Labels |-> w[m]] /\ l \in Labels /\ wrote = [w EXCEPT ![l] = v]
    BY <1>1, <1>3 DEF MoveShape
  <2> HIDE DEF l, v, w
  <2>2. /\ [w EXCEPT ![l] = v][l] = v
        /\ \A m \in Labels : m # l => [w EXCEPT ![l] = v][m] = w[m]
        /\ [w EXCEPT ![l] = v] = [m \in Labels |-> [w EXCEPT ![l] = v][m]]
    BY <2>1
  <2> HIDE DEF wrote
  <2>3. /\ wrote[l] = v /\ \A m \in Labels : m # l => wrote[m] = w[m]
        /\ wrote = [m \in Labels |-> wrote[m]]
    BY <2>1, <2>2
  <2>4. QED
    BY <2>3 DEF l, v, w
<1> HIDE DEF wrote
<1>7. /\ run'.state = run.state /\ run'.base = run.base /\ run'.ops = run.ops
      /\ run'.found = run.found /\ run'.wrote = wrote /\ run'.writing = Nil
      /\ run'.favorites = run.favorites
      /\ run' = [state |-> run'.state, base |-> run'.base, ops |-> run'.ops, found |-> run'.found,
                 wrote |-> run'.wrote, writing |-> run'.writing, favorites |-> run'.favorites]
  BY <1>1, <1>2 DEF MoveShape
<1>8. ~Idle'
  BY <1>4, <1>5 DEF Idle, Doing
<1>9. Elsewhere' = Elsewhere /\ Awaited' = Awaited
  BY <1>5, <1>7 DEF Elsewhere, Awaited
<1>10. MoveShape'
  BY <1>1, <1>2, <1>3, <1>4, <1>5, <1>6, <1>7 DEF MoveShape, Stages
<1>11. OpsFit' /\ HistoryKept' /\ PutsFit'
  BY <1>1, <1>2, <1>3, <1>4, <1>5, <1>7 DEF OpsFit, HistoryKept, PutsFit
<1>12. JobFits'
  BY <1>1, <1>2, <1>3, <1>5, <1>7, <1>8 DEF JobFits
<1>13. LabelsFit'
  BY <1>1, <1>2, <1>3, <1>4, <1>5, <1>7, <1>8 DEF LabelsFit
<1>14. PutsDone'
  BY <1>1, <1>2, <1>3, <1>4, <1>5, <1>7, <1>8, <1>9 DEF PutsDone
<1>15. FilesKept'
  BY <1>1, <1>2, <1>3, <1>7, <1>8 DEF FilesKept, FilesChanged, There
<1>16. NoneMadeUp'
  <2>1. Label = "store" => wrote["store"] = job.new.store
    BY <1>3, <1>6
  <2>2. job.new.store \in Store
    BY <1>1, <1>3, SavedParts DEF JobFits
  <2>3. Label # "store" => wrote["store"] = run.wrote["store"]
    BY <1>6 DEF Labels
  <2>4. QED
    BY <1>1, <1>3, <1>5, <1>7, <2>1, <2>2, <2>3 DEF NoneMadeUp
<1>17. SettingsKnown'
  BY <1>1, <1>2, <1>3, <1>6, <1>7, <1>8 DEF SettingsKnown, SettingsChanged, Labels
<1>18. FoundBefore'
  BY <1>1, <1>2, <1>7, <1>9 DEF FoundBefore
<1>19. Clean'
  BY <1>1, <1>2, <1>3, <1>7, <1>8, <1>9 DEF Clean, Gone, Settled
<1>20. UndoneIsAsBefore'
  BY <1>8 DEF UndoneIsAsBefore, Resting
<1>21. FavoritesFit'
  BY <1>1, <1>2, <1>3, <1>5, <1>6, <1>7, <1>8 DEF FavoritesFit, Follows, Spares
<1>22. FavoritesStay'
  BY <1>8 DEF FavoritesStay, Resting
<1>23. QED
  BY <1>10, <1>11, <1>12, <1>13, <1>14, <1>15, <1>16, <1>17, <1>18, <1>19, <1>20, <1>21, <1>22
  DEF MoveIInv

LEMMA RestoreLastKeeps == ASSUME MoveIInv, RestoreLast PROVE MoveIInv'
<1>1. /\ MoveShape /\ OpsFit /\ JobFits /\ PutsFit /\ LabelsFit /\ PutsDone /\ HistoryKept
      /\ FilesKept /\ SettingsKnown /\ NoneMadeUp /\ FoundBefore /\ Clean /\ FavoritesFit
  BY DEF MoveIInv
<1> DEFINE last == IF saved.last = run.wrote["last"] THEN run.found.last ELSE saved.last
<1>2. /\ files' = files /\ git' = git /\ run' = run /\ undo' = undo /\ before' = before
      /\ edited' = edited /\ edits' = edits
      /\ job.at = "last" /\ job' = [job EXCEPT !.at = "state"]
      /\ saved' = [saved EXCEPT !.last = last]
  BY DEF RestoreLast, Doing, NextIs, past, bounds
<1>3. /\ job'.at = "state" /\ job'.cmd = job.cmd /\ job'.puts = job.puts
      /\ job'.labels = job.labels /\ job'.new = job.new
      /\ job' = [cmd |-> job'.cmd, at |-> job'.at, puts |-> job'.puts, labels |-> job'.labels,
                 new |-> job'.new]
  BY <1>1, <1>2 DEF MoveShape
<1>4. ~Idle /\ ~Idle'
  BY <1>2, <1>3 DEF Idle, Doing
<1>5. /\ saved' \in Saved
      /\ \A l \in {"store", "index"} : saved'[l] = saved[l]
  <2>1. last \in Patches /\ saved \in Saved
    BY <1>1, SavedParts DEF MoveShape
  <2> HIDE DEF last
  <2>2. QED
    BY <1>2, <2>1, SavedParts DEF Saved
<1>6. Elsewhere' = Elsewhere /\ Awaited' = Awaited
  BY <1>2, <1>3 DEF Elsewhere, Awaited
<1>7. MoveShape'
  BY <1>1, <1>2, <1>3, <1>5 DEF MoveShape, Stages
<1>8. OpsFit' /\ HistoryKept' /\ PutsFit'
  BY <1>1, <1>2, <1>3 DEF OpsFit, HistoryKept, PutsFit
<1>9. JobFits' /\ LabelsFit'
  <2>1. JobFits'
    BY <1>1, <1>2, <1>3, <1>4 DEF JobFits
  <2>2. LabelsFit'
    <3>1. /\ job.labels = {}
          /\ job.cmd = "run" => run.writing = Nil
          /\ job.cmd = "undo" => \A l \in {"store", "index"} : saved'[l] = run.found[l]
      BY <1>1, <1>2, <1>4, <1>5 DEF LabelsFit
    <3>2. QED
      BY <1>2, <1>3, <3>1 DEF LabelsFit
  <2>3. QED
    BY <2>1, <2>2
<1>10. PutsDone'
  BY <1>1, <1>2, <1>3, <1>4, <1>6 DEF PutsDone
<1>11. FilesKept' /\ NoneMadeUp'
  BY <1>1, <1>2, <1>3, <1>4 DEF FilesKept, FilesChanged, There, NoneMadeUp
<1>12. SettingsKnown'
  BY <1>1, <1>2, <1>4, <1>5 DEF SettingsKnown, SettingsChanged
<1>13. FoundBefore'
  BY <1>1, <1>2, <1>6 DEF FoundBefore
<1>14. Clean'
  BY <1>1, <1>2, <1>4, <1>6 DEF Clean, Gone, Settled
<1>15. UndoneIsAsBefore'
  BY <1>4 DEF UndoneIsAsBefore, Resting
<1>16. FavoritesFit'
  BY <1>1, <1>2, <1>3, <1>4 DEF FavoritesFit, LabelsFit
<1>17. FavoritesStay'
  BY <1>4 DEF FavoritesStay, Resting
<1>18. QED
  BY <1>7, <1>8, <1>9, <1>10, <1>11, <1>12, <1>13, <1>14, <1>15, <1>16, <1>17
  DEF MoveIInv

\* A command that is over, or cut off, has left its files as they are.
LEMMA NoJobIs ==
  ASSUME job' = NoJob
  PROVE  /\ job'.at = "none" /\ job'.cmd = "run" /\ job'.puts = {} /\ job'.labels = {} /\ Idle'
         /\ job' = [cmd |-> job'.cmd, at |-> job'.at, puts |-> job'.puts, labels |-> job'.labels,
                    new |-> job'.new]
         /\ PutsFit' /\ LabelsFit' /\ PutsDone'
<1>1. /\ job'.at = "none" /\ job'.cmd = "run" /\ job'.puts = {} /\ job'.labels = {} /\ Idle'
      /\ job' = [cmd |-> job'.cmd, at |-> job'.at, puts |-> job'.puts, labels |-> job'.labels,
                 new |-> job'.new]
  BY DEF NoJob, Idle, Doing
<1>2. PutsFit' /\ LabelsFit' /\ PutsDone'
  BY <1>1 DEF PutsFit, LabelsFit, PutsDone
<1>3. QED
  BY <1>1, <1>2

LEMMA CutOffKeeps == ASSUME MoveIInv, CutOff PROVE MoveIInv'
<1>1. /\ MoveShape /\ OpsFit /\ JobFits /\ PutsFit /\ LabelsFit /\ PutsDone /\ HistoryKept
      /\ FilesKept /\ SettingsKnown /\ NoneMadeUp /\ FoundBefore /\ Clean /\ FavoritesFit
  BY DEF MoveIInv
<1>2. /\ files' = files /\ saved' = saved /\ git' = git /\ run' = run /\ undo' = undo
      /\ before' = before /\ edited' = edited /\ edits' = edits
      /\ ~Idle /\ job' = NoJob
  BY DEF CutOff, past
<1>3. /\ job'.at = "none" /\ job'.cmd = "run" /\ job'.puts = {} /\ job'.labels = {} /\ Idle'
      /\ job' = [cmd |-> job'.cmd, at |-> job'.at, puts |-> job'.puts, labels |-> job'.labels,
                 new |-> job'.new]
      /\ PutsFit' /\ LabelsFit' /\ PutsDone'
  BY <1>2, NoJobIs
<1>4. MoveShape' /\ OpsFit' /\ JobFits' /\ HistoryKept'
  BY <1>1, <1>2, <1>3 DEF MoveShape, OpsFit, JobFits, HistoryKept, Stages, NoJob
<1>5. FilesKept' /\ NoneMadeUp'
  BY <1>1, <1>2, <1>3 DEF FilesKept, FilesChanged, There, NoneMadeUp
<1>6. SettingsKnown'
  BY <1>1, <1>2, <1>3 DEF SettingsKnown, SettingsChanged
<1>7. FoundBefore'
  BY <1>1, <1>2 DEF FoundBefore, Elsewhere
<1>8. /\ run.state = "started" \/ (run.state = "done" /\ undo # "none")
  BY <1>1, <1>2 DEF JobFits, MoveShape
<1>9. Clean'
  BY <1>1, <1>2, <1>8 DEF Clean, Gone, Settled, Elsewhere
<1>10. UndoneIsAsBefore'
  BY <1>2, <1>8 DEF UndoneIsAsBefore, Resting
<1>11. FavoritesFit'
  BY <1>1, <1>2, <1>3 DEF FavoritesFit
<1>12. FavoritesStay'
  BY <1>2, <1>8 DEF FavoritesStay, Resting
<1>13. QED
  BY <1>3, <1>4, <1>5, <1>6, <1>7, <1>9, <1>10, <1>11, <1>12
  DEF MoveIInv

LEMMA SayStateKeeps == ASSUME MoveIInv, SayState PROVE MoveIInv'
<1>1. /\ MoveShape /\ OpsFit /\ JobFits /\ PutsFit /\ LabelsFit /\ PutsDone /\ HistoryKept
      /\ FilesKept /\ SettingsKnown /\ NoneMadeUp /\ FoundBefore /\ Clean /\ FavoritesFit
  BY DEF MoveIInv
<1>2. /\ files' = files /\ saved' = saved /\ git' = git /\ undo' = undo
      /\ before' = before /\ edited' = edited /\ edits' = edits
      /\ job.at = "state" /\ job' = NoJob
      /\ run' = [run EXCEPT !.state = IF job.cmd = "run" THEN "done" ELSE "undone"]
  BY DEF SayState, Doing, past, bounds
<1>3. /\ job'.at = "none" /\ job'.cmd = "run" /\ job'.puts = {} /\ job'.labels = {} /\ Idle'
      /\ job' = [cmd |-> job'.cmd, at |-> job'.at, puts |-> job'.puts, labels |-> job'.labels,
                 new |-> job'.new]
      /\ PutsFit' /\ LabelsFit' /\ PutsDone'
  BY <1>2, NoJobIs
<1>4. /\ run'.state = (IF job.cmd = "run" THEN "done" ELSE "undone")
      /\ run'.base = run.base /\ run'.ops = run.ops
      /\ run'.found = run.found /\ run'.wrote = run.wrote /\ run'.writing = run.writing
      /\ run'.favorites = run.favorites
      /\ run' = [state |-> run'.state, base |-> run'.base, ops |-> run'.ops, found |-> run'.found,
                 wrote |-> run'.wrote, writing |-> run'.writing, favorites |-> run'.favorites]
  BY <1>1, <1>2 DEF MoveShape
<1>5. ~Idle /\ job.cmd \in {"run", "undo"}
  BY <1>1, <1>2 DEF Idle, Doing, MoveShape
<1>6. MoveShape' /\ OpsFit' /\ JobFits' /\ HistoryKept'
  BY <1>1, <1>2, <1>3, <1>4, <1>5 DEF MoveShape, OpsFit, JobFits, HistoryKept, Stages, NoJob
<1>7. FilesKept' /\ NoneMadeUp'
  BY <1>1, <1>2, <1>3, <1>4 DEF FilesKept, FilesChanged, There, NoneMadeUp
<1>8. SettingsKnown'
  BY <1>1, <1>2, <1>3, <1>4, <1>5 DEF SettingsKnown, SettingsChanged, JobFits
<1>9. FoundBefore'
  BY <1>1, <1>2, <1>4 DEF FoundBefore, Elsewhere
<1>10. /\ \A op \in run.ops : \A p \in OpPaths(op) :
            files[p] = Wanted(job.cmd, op, p) /\ git.staged[p] = files[p]
       /\ run.ops = {} \/ git.head = git.staged
  <2>1. Awaited = {}
    BY <1>1, <1>2 DEF PutsFit, Awaited
  <2>2. QED
    BY <1>1, <1>2, <1>5, <2>1 DEF PutsDone
<1>11. ASSUME NEW p \in Patches, p \notin Elsewhere
       PROVE  /\ \E op \in run.ops : p \in OpPaths(op)
              /\ git.staged[p] = files[p] /\ git.head[p] = files[p]
  BY <1>10, <1>11 DEF Elsewhere
<1>12. Clean'
  <2>1. ASSUME ~before.half, NEW p \in Patches PROVE Gone(p)
    BY <1>1, <1>11, <2>1 DEF Clean, Gone
  <2>2. QED
    BY <1>1, <1>2, <1>4, <2>1 DEF Clean, Gone, Elsewhere
<1>13. UndoneIsAsBefore'
  <2> SUFFICES ASSUME job.cmd = "undo", ~edited, ~before.half
               PROVE  /\ files = before.files
                      /\ \A l \in {"store", "index"} : saved[l] = before.saved[l]
                      /\ git.head = before.head /\ git.staged = before.head
    BY <1>2, <1>4, <1>5 DEF UndoneIsAsBefore, Resting
  <2>1. ASSUME NEW p \in Patches
        PROVE  files[p] = before.files[p] /\ git.head[p] = before.head[p]
               /\ git.staged[p] = before.head[p]
    <3>1. CASE p \in Elsewhere
      BY <1>1, <3>1 DEF FoundBefore
    <3>2. ASSUME p \notin Elsewhere
          PROVE  files[p] = before.files[p] /\ files[p] = run.base[p]
      <4>1. PICK op \in run.ops : p \in OpPaths(op)
        BY <1>11, <3>2
      <4>2. files[p] = IF p = op.from THEN op.bytes ELSE Nil
        BY <1>10, <4>1 DEF Wanted
      <4>3. p = op.from \/ (p = op.to /\ op.to # Nil)
        BY <1>1, <4>1, PathsApart
      <4>4. CASE p = op.from
        BY <1>1, <4>2, <4>4 DEF FoundBefore, OpsFit
      <4>5. CASE p # op.from
        BY <1>1, <4>2, <4>3, <4>5 DEF FoundBefore, Clean
      <4>6. QED
        BY <4>4, <4>5
    <3>3. QED
      BY <1>1, <1>11, <3>1, <3>2 DEF FoundBefore
  <2>2. \A l \in {"store", "index"} : saved[l] = before.saved[l]
    BY <1>1, <1>2, <1>5 DEF LabelsFit, FoundBefore
  <2>3. /\ files \in Library /\ before.files \in Library /\ git.head \in Library
        /\ git.staged \in Library /\ before.head \in Library
    BY <1>1 DEF MoveShape, FoundBefore
  <2>4. QED
    BY <2>1, <2>2, <2>3 DEF Library
<1>14. FavoritesFit'
  BY <1>1, <1>3, <1>4 DEF FavoritesFit
<1>15. FavoritesStay'
  <2>1. ASSUME job.cmd = "run", Spares, NEW f \in run.favorites
        PROVE  Follows(saved, f) /\ (f.after \in Had => files[f.after] # Nil)
    <3>1. f.after \in Patches /\ Follows(job.new, f) /\ \A l \in Labels : saved[l] = job.new[l]
      BY <1>1, <1>2, <1>5, <2>1 DEF FavoritesFit, LabelsFit
    <3>2. Follows(saved, f)
      BY <3>1 DEF Follows, Labels
    <3>3. CASE f.after \in Elsewhere
      <4>1. f.after \in Had => before.files[f.after] # Nil
        BY <1>1, <3>1, <3>3, NilIsNone DEF Had, Elsewhere, OpPaths
      <4>2. ~edited
        BY <1>1, <1>5, <2>1 DEF JobFits
      <4>3. QED
        BY <1>1, <3>2, <3>3, <4>1, <4>2 DEF FoundBefore
    <3>4. CASE f.after \notin Elsewhere
      <4>1. PICK op \in run.ops : f.after \in OpPaths(op)
        BY <1>11, <3>1, <3>4
      <4>2. f.after # op.from /\ op.bytes # Nil
        BY <1>1, <2>1, PathsApart DEF Spares
      <4>3. files[f.after] = op.bytes
        BY <1>10, <2>1, <4>1, <4>2 DEF Wanted
      <4>4. QED
        BY <3>2, <4>2, <4>3
    <3>5. QED
      BY <3>3, <3>4
  <2>2. QED
    BY <1>2, <1>4, <1>5, <2>1 DEF FavoritesStay, Follows, Spares, Had, There, Resting
<1>16. QED
  BY <1>3, <1>6, <1>7, <1>8, <1>9, <1>12, <1>13, <1>14, <1>15 DEF MoveIInv

-----------------------------------------------------------------------------
(* The player.                                                               *)

\* What the player does is between commands; of the move it says nothing.
LEMMA EditsKeep ==
  ASSUME MoveIInv, Edit, MoveShape', HistoryKept',
         \A p \in Patches : Gone(p) => Gone(p)'
  PROVE  MoveIInv'
<1>1. /\ MoveShape /\ OpsFit /\ JobFits /\ PutsFit /\ LabelsFit /\ PutsDone /\ HistoryKept
      /\ FilesKept /\ SettingsKnown /\ NoneMadeUp /\ FoundBefore /\ Clean /\ FavoritesFit
  BY DEF MoveIInv
<1>2. /\ run' = run /\ job' = job /\ undo' = undo /\ before' = before
      /\ edited' = TRUE /\ Idle /\ Idle'
  BY DEF Edit, Idle, Doing
<1>3. job = NoJob /\ job.at = "none" /\ job' = NoJob
  BY <1>1, <1>2 DEF JobFits, NoJob
<1>4. PutsFit' /\ LabelsFit' /\ PutsDone'
  BY <1>3, NoJobIs
<1>5. OpsFit' /\ JobFits'
  BY <1>1, <1>2, <1>3 DEF OpsFit, JobFits, NoJob
<1>6. FilesKept' /\ SettingsKnown' /\ NoneMadeUp'
  BY <1>1, <1>2 DEF FilesKept, SettingsKnown, NoneMadeUp
<1>7. FoundBefore'
  BY <1>1, <1>2 DEF FoundBefore
<1>8. Clean'
  <2>1. Elsewhere' = Elsewhere /\ Elsewhere \subseteq Patches
    BY <1>2 DEF Elsewhere
  <2>2. Settled' = Settled
    BY <1>2 DEF Settled
  <2> HIDE DEF Gone
  <2>3. QED
    BY <1>1, <1>2, <2>1, <2>2 DEF Clean
<1>9. UndoneIsAsBefore'
  BY <1>2 DEF UndoneIsAsBefore, Resting
<1>10. FavoritesFit'
  BY <1>1, <1>2 DEF FavoritesFit
<1>11. FavoritesStay'
  BY <1>2 DEF FavoritesStay, Resting
<1>12. QED
  BY <1>4, <1>5, <1>6, <1>7, <1>8, <1>9, <1>10, <1>11
  DEF MoveIInv

LEMMA MarkFits ==
  ASSUME Edit, MoveIInv
  PROVE  /\ Mark \in Edits /\ Mark \in Bytes /\ Mark # Nil /\ edits' \in Nat
<1>1. edits \in Nat /\ edits + 1 \in 1..MaxEdits /\ edits' = edits + 1
  BY MoveAssumption DEF Edit, MoveIInv, MoveShape
<1>2. QED
  BY <1>1, NilIsNone DEF Mark, Edits, Bytes

LEMMA SaveFileKeeps == ASSUME MoveIInv, NEW p \in Patches, SaveFile(p) PROVE MoveIInv'
<1>1. /\ Edit /\ saved' = saved /\ files' = [files EXCEPT ![p] = Mark]
      /\ \/ git' = git
         \/ git' = [head |-> [git.head EXCEPT ![p] = Mark],
                    staged |-> [git.staged EXCEPT ![p] = Mark], kept |-> git.kept \cup {Mark}]
  BY DEF SaveFile
<1>2. /\ Mark \in Bytes /\ Mark # Nil /\ edits' \in Nat
  BY <1>1, MarkFits
<1> HIDE DEF Mark
<1>3. /\ run' = run /\ job' = job /\ undo' = undo /\ before' = before /\ edited' = TRUE
  BY <1>1 DEF Edit
<1>4. MoveShape /\ HistoryKept
  BY DEF MoveIInv
<1>5. /\ files' \in Library /\ \A q \in Patches : files'[q] = IF q = p THEN Mark ELSE files[q]
      /\ git' = [head |-> git'.head, staged |-> git'.staged, kept |-> git'.kept]
      /\ git'.head \in Library /\ git'.staged \in Library
      /\ git.kept \subseteq git'.kept
      /\ \A q \in Patches : git'.head[q] = git.head[q] \/ (q = p /\ Mark \in git'.kept /\ git'.head[q] = Mark)
      /\ \A q \in Patches : git'.staged[q] = git.staged[q] \/ q = p
  BY <1>1, <1>2, <1>4 DEF MoveShape, Library
<1>6. MoveShape'
  BY <1>1, <1>2, <1>3, <1>4, <1>5 DEF MoveShape
<1>7. HistoryKept'
  BY <1>3, <1>4, <1>5 DEF HistoryKept, Range, Library, MoveShape
<1>8. \A q \in Patches : Gone(q) => Gone(q)'
  BY <1>2, <1>5 DEF Gone
<1>9. QED
  BY <1>1, <1>6, <1>7, <1>8, EditsKeep

\* Settings and favourites may change too.
LEMMA SavesKeep ==
  ASSUME MoveIInv, Edit, saved' \in Saved, files' = files, git' = git
  PROVE  MoveIInv'
<1>1. /\ run' = run /\ job' = job /\ before' = before /\ edited' = TRUE
      /\ edits' \in Nat /\ MoveShape /\ HistoryKept
  BY MarkFits DEF Edit, MoveIInv
<1>2. MoveShape' /\ HistoryKept' /\ \A p \in Patches : Gone(p) => Gone(p)'
  BY <1>1 DEF MoveShape, HistoryKept, Gone
<1>3. QED
  BY <1>2, EditsKeep

LEMMA ChooseKeeps == ASSUME MoveIInv, NEW p \in Patches, Choose(p) PROVE MoveIInv'
<1> DEFINE e == Chosen(saved.store[p])
           kept == [saved.store EXCEPT ![p] = e]
<1>1. /\ Edit /\ files' = files /\ git' = git
      /\ saved' = [saved EXCEPT !.store = kept]
  BY DEF Choose
<1>2. saved \in Saved /\ saved.store \in Store /\ p \in Keys
  BY SavedParts, PatchParts DEF MoveIInv, MoveShape
<1>3. e \in Entry
  <2>1. Only("chosen", Mark) \in Entry
    <3> DEFINE f == Only("chosen", Mark)
    <3>1. f = [x \in DOMAIN f |-> f[x]] /\ DOMAIN f = {"chosen"} /\ f["chosen"] = Mark
      BY DEF Only
    <3>2. Mark \in Edits
      BY <1>1, MarkFits
    <3> HIDE DEF f, Mark
    <3>3. QED
      BY <3>1, <3>2, EntryParts DEF f
  <2>2. saved.store[p] \in Entry \cup {Nil}
    BY <1>2 DEF Store
  <2>3. QED
    BY <2>1, <2>2, OverFits DEF Chosen
<1> HIDE DEF e
<1>4. kept \in Store
  BY <1>2, <1>3 DEF Store
<1> HIDE DEF kept
<1>5. saved' \in Saved
  BY <1>1, <1>2, <1>4, SavedParts DEF Saved
<1>6. QED
  BY <1>1, <1>5, SavesKeep

LEMMA HeartKeeps == ASSUME MoveIInv, NEW p \in Patches, Heart(p) PROVE MoveIInv'
<1> DEFINE c == Hearted(p)
           copy == saved.index.copy
           index == [saved.index EXCEPT !.copy = c]
<1>1. /\ Edit /\ files' = files /\ git' = git
      /\ saved' = [saved EXCEPT !.index = index]
  BY DEF Heart
<1>2. saved \in Saved
  BY DEF MoveIInv, MoveShape
<1>3. /\ saved.index.version \in 1..2 /\ Favorites = DOMAIN copy /\ DOMAIN copy \subseteq Patches
      /\ saved.index = [version |-> saved.index.version, copy |-> copy]
      /\ \A q \in DOMAIN copy : copy[q] \in Names \cup {Nil}
  BY <1>2, SavedIndex DEF Favorites
<1>4. c = [q \in DOMAIN c |-> c[q]] /\ DOMAIN c \subseteq Patches
      /\ \A q \in DOMAIN c : c[q] \in Names \cup {Nil}
  <2> DEFINE known == Aliases(p) \cup ({p} \cap Favorites)
             f == Over(copy, Only(p, Nil))
             g == Restrict(copy, Favorites \ {CHOOSE k \in known : TRUE})
  <2>1. c = IF known = {} THEN f ELSE g
    BY DEF Hearted
  <2>2. f = [q \in DOMAIN f |-> f[q]] /\ DOMAIN f \subseteq Patches
        /\ \A q \in DOMAIN f : f[q] \in Names \cup {Nil}
    <3> HIDE DEF copy
    <3>1. QED
      BY <1>3 DEF Over, Only
  <2>3. g = [q \in DOMAIN g |-> g[q]] /\ DOMAIN g \subseteq Patches
        /\ \A q \in DOMAIN g : g[q] \in Names \cup {Nil}
    <3> HIDE DEF copy, known
    <3>1. QED
      BY <1>3 DEF Restrict
  <2> HIDE DEF f, g, known, c
  <2>4. QED
    BY <2>1, <2>2, <2>3
<1> HIDE DEF c, copy
<1>5. index = [version |-> saved.index.version, copy |-> c]
  BY <1>3
<1> HIDE DEF index
<1>6. index \in Index
  BY <1>3, <1>4, <1>5, IndexParts
<1>7. saved' \in Saved
  BY <1>1, <1>2, <1>6, SavedParts DEF Saved
<1>8. QED
  BY <1>1, <1>7, SavesKeep

LEMMA PlayKeeps == ASSUME MoveIInv, NEW p \in Patches, Play(p) PROVE MoveIInv'
<1>1. /\ Edit /\ files' = files /\ git' = git /\ saved' = [saved EXCEPT !.last = p]
  BY DEF Play
<1>2. saved' \in Saved
  BY <1>1, SavedParts DEF Saved, MoveIInv, MoveShape
<1>3. QED
  BY <1>1, <1>2, SavesKeep

-----------------------------------------------------------------------------
(* The commands.                                                             *)

LEMMA CommandIs ==
  ASSUME NEW cmd \in {"run", "undo"}, NEW puts, NEW labels, NEW new,
         job' = Command(cmd, puts, labels, new)
  PROVE  /\ job'.cmd = cmd /\ job'.puts = puts /\ job'.labels = labels /\ job'.new = new
         /\ job' = [cmd |-> job'.cmd, at |-> job'.at, puts |-> job'.puts, labels |-> job'.labels,
                    new |-> job'.new]
         /\ puts # {} => job'.at = "file"
         /\ puts = {} => /\ labels = {} => job'.at = IF cmd = "run" THEN "state" ELSE "last"
                         /\ labels # {} => job'.at = IF cmd = "run" THEN "writing" ELSE "write"
         /\ job'.at \in {"file", "state", "last", "writing", "write"} /\ ~Idle'
<1> DEFINE at == Then(cmd, labels)
<1>1. job' = [cmd |-> cmd, at |-> IF puts = {} THEN at ELSE "file",
              puts |-> puts, labels |-> labels, new |-> new]
  BY DEF Command
<1>2. /\ labels = {} => at = IF cmd = "run" THEN "state" ELSE "last"
      /\ labels # {} => at = IF cmd = "run" THEN "writing" ELSE "write"
      /\ at \in {"state", "last", "writing", "write"}
  BY ThenIs
<1> HIDE DEF at
<1>3. QED
  BY <1>1, <1>2 DEF Idle, Doing

LEMMA UndoKeeps == ASSUME MoveIInv, NEW force \in BOOLEAN, Undo(force) PROVE MoveIInv'
<1>1. /\ MoveShape /\ OpsFit /\ JobFits /\ PutsFit /\ LabelsFit /\ PutsDone /\ HistoryKept
      /\ FilesKept /\ SettingsKnown /\ NoneMadeUp /\ FoundBefore /\ Clean /\ FavoritesFit
  BY DEF MoveIInv
<1> DEFINE puts == UNION {Back(op) : op \in run.ops}
           labels == {"store", "index"}
           cmd == "undo"
<1>2. /\ files' = files /\ saved' = saved /\ git' = git /\ run' = run
      /\ before' = before /\ edited' = edited /\ edits' = edits
      /\ undo' = IF force THEN "forced" ELSE "plain"
      /\ job' = Command(cmd, puts, labels, run.found)
  BY DEF Undo, bounds
<1>3. ~FilesChanged /\ (undo' = "plain" => ~SettingsChanged) /\ undo' \in {"plain", "forced"}
      /\ run.state \in {"started", "done"}
  BY DEF Undo, Undoable
<1>4. \A u \in puts : \E op \in run.ops :
        \/ u = Put(2, op, Only(op.from, run.base[op.from]))
        \/ op.to # Nil /\ u = Put(1, op, Only(op.to, Nil))
  BY DEF Back
<1>5. \A op \in run.ops : /\ Put(2, op, Only(op.from, run.base[op.from])) \in puts
                          /\ op.to # Nil => Put(1, op, Only(op.to, Nil)) \in puts
  BY DEF Back
<1>6. labels # {} /\ labels \subseteq Labels /\ cmd \in {"run", "undo"}
  BY DEF Labels
<1>7. cmd = "undo" /\ cmd # "run" /\ labels = {"store", "index"}
  OBVIOUS
<1> HIDE DEF puts, labels, cmd
<1>8. /\ job'.cmd = cmd /\ job'.puts = puts /\ job'.labels = labels /\ job'.new = run.found
      /\ job' = [cmd |-> job'.cmd, at |-> job'.at, puts |-> job'.puts, labels |-> job'.labels,
                 new |-> job'.new]
      /\ puts # {} => job'.at = "file"
      /\ puts = {} => job'.at = "write"
      /\ ~Idle'
  BY <1>2, <1>6, <1>7, CommandIs
<1>9. job'.at \in {"file", "write"}
  BY <1>8
<1>10. MoveShape'
  BY <1>1, <1>2, <1>6, <1>7, <1>8, <1>9 DEF MoveShape, Stages
<1>11. OpsFit' /\ HistoryKept'
  BY <1>1, <1>2 DEF OpsFit, HistoryKept
<1>12. JobFits'
  BY <1>1, <1>2, <1>3, <1>7, <1>8 DEF JobFits, MoveShape
<1>13. PutsFit'
  <2>1. ASSUME NEW u \in puts
        PROVE  /\ u.half \in 1..2
               /\ \E op \in run.ops : /\ u.file = op.from /\ DOMAIN u.bytes \subseteq OpPaths(op)
                                      /\ \A p \in DOMAIN u.bytes : u.bytes[p] = Wanted(cmd, op, p)
    <3>1. PICK op \in run.ops :
            \/ u = Put(2, op, Only(op.from, run.base[op.from]))
            \/ op.to # Nil /\ u = Put(1, op, Only(op.to, Nil))
      BY <1>4
    <3>2. /\ op.from \in OpPaths(op) /\ op.to # op.from /\ op.bytes = run.base[op.from]
          /\ op.to # Nil => op.to \in OpPaths(op)
      BY <1>1, PathsApart DEF OpsFit
    <3>3. CASE u = Put(2, op, Only(op.from, run.base[op.from]))
      <4>1. u.half = 2 /\ u.file = op.from /\ DOMAIN u.bytes = {op.from} /\ u.bytes[op.from] = op.bytes
        BY <3>2, <3>3 DEF Put, Only
      <4>2. QED
        BY <1>7, <3>2, <4>1 DEF Wanted
    <3>4. CASE op.to # Nil /\ u = Put(1, op, Only(op.to, Nil))
      <4>1. u.half = 1 /\ u.file = op.from /\ DOMAIN u.bytes = {op.to} /\ u.bytes[op.to] = Nil
        BY <3>2, <3>4 DEF Put, Only
      <4>2. QED
        BY <1>7, <3>2, <3>4, <4>1 DEF Wanted
    <3>5. QED
      BY <3>1, <3>3, <3>4
  <2>2. puts # {} <=> job'.at \in {"file", "stage"}
    BY <1>8
  <2>3. QED
    BY <1>2, <1>8, <2>1, <2>2 DEF PutsFit
<1>14. LabelsFit'
  BY <1>6, <1>7, <1>8, <1>9 DEF LabelsFit
<1>15. PutsDone'
  <2>1. ASSUME NEW op \in run.ops, NEW p \in OpPaths(op) PROVE p \in Awaited'
    <3>1. p = op.from \/ (p = op.to /\ op.to # Nil)
      BY <1>1, PathsApart
    <3>2. \E u \in puts : p \in DOMAIN u.bytes
      BY <1>5, <3>1 DEF Put, Only
    <3>3. QED
      BY <1>8, <3>2 DEF Awaited
  <2>2. job'.at # "stage"
    BY <1>9
  <2>3. puts = {} => run.ops = {}
    BY <1>5
  <2>4. QED
    BY <1>2, <1>8, <1>9, <2>1, <2>2, <2>3 DEF PutsDone
<1>16. FilesKept' /\ NoneMadeUp'
  BY <1>1, <1>2, <1>3, <1>8 DEF FilesKept, FilesChanged, There, NoneMadeUp
<1>17. SettingsKnown'
  BY <1>1, <1>2, <1>3 DEF SettingsKnown, SettingsChanged
<1>18. FoundBefore'
  BY <1>1, <1>2 DEF FoundBefore, Elsewhere
<1>19. Clean'
  BY <1>1, <1>2, <1>8 DEF Clean, Gone, Settled, Elsewhere
<1>20. UndoneIsAsBefore'
  BY <1>8 DEF UndoneIsAsBefore, Resting
<1>21. FavoritesFit'
  BY <1>1, <1>2, <1>7, <1>8 DEF FavoritesFit
<1>22. FavoritesStay'
  BY <1>8 DEF FavoritesStay, Resting
<1>23. QED
  BY <1>10, <1>11, <1>12, <1>13, <1>14, <1>15, <1>16, <1>17, <1>18, <1>19, <1>20, <1>21, <1>22
  DEF MoveIInv

\* The operations of a plan without errors: each takes a committed file away,
\* and gives it to a place that is free and no other operation's.
LEMMA PlannedFits ==
  ASSUME MoveShape, ~Errors
  PROVE  /\ \A r \in FileOps : LET op == Op(r) IN
              /\ op.from \in Patches /\ op.from[1] \in {"fav", "own"}
              /\ op.bytes = files[op.from] /\ op.bytes \in Bytes /\ op.bytes = git.head[op.from]
              /\ op.to # Nil => op.to \in Patches /\ op.to[1] = "tuned" /\ files[op.to] = Nil
         /\ \A r, q \in FileOps :
              Op(r).from = Op(q).from \/ (Op(r).to = Op(q).to /\ Op(r).to # Nil) => Op(r) = Op(q)
<1>1. saved \in Saved /\ files \in Library
  BY DEF MoveShape
<1>2. ASSUME NEW r \in FileOps
      PROVE  /\ r.file \in Patches /\ r.file[1] \in {"fav", "own"} /\ r.after \in Patches
             /\ files[r.file] # Nil /\ git.head[r.file] = files[r.file] /\ files[r.file] \in Bytes
             /\ r.klass = "tuned" => r.after[1] = "tuned" /\ files[r.after] = Nil
  <2>1. RowFits(r)
    BY <1>1, RowsFit DEF FileOps
  <2>2. r.file \in Patches /\ files[r.file] # Nil /\ r.file[1] \in {"fav", "own"}
    BY <2>1, FoundFits DEF RowFits, There
  <2>3. TrackedClean(r.file)
    BY DEF Errors
  <2>4. r.klass = "tuned" => files[r.after] = Nil
    BY DEF Errors, There
  <2>5. QED
    BY <1>1, <2>1, <2>2, <2>3, <2>4 DEF TrackedClean, RowFits, Library
<1>3. \A r \in FileOps : /\ Op(r).from = r.file /\ Op(r).bytes = files[r.file]
                         /\ Op(r).to = IF r.klass = "tuned" THEN r.after ELSE Nil
  BY DEF Op
<1>4. ASSUME NEW r \in FileOps, NEW q \in FileOps,
             Op(r).from = Op(q).from \/ (Op(r).to = Op(q).to /\ Op(r).to # Nil)
      PROVE  Op(r) = Op(q)
  <2>1. CASE r.file = q.file
    BY <1>1, <2>1, RowsFit DEF FileOps
  <2>2. CASE r.file # q.file
    <3>1. r.klass = "tuned" /\ q.klass = "tuned" /\ r.after = q.after
      BY <1>3, <1>4, <2>2
    <3>2. q \in FileOps \ {r}
      BY <2>2
    <3>3. Errors
      BY <3>1, <3>2 DEF Errors
    <3>4. QED
      BY <3>3
  <2>3. QED
    BY <2>1, <2>2
<1>5. QED
  BY <1>2, <1>3, <1>4

LEMMA RunKeeps == ASSUME MoveIInv, Run PROVE MoveIInv'
<1>1. /\ MoveShape /\ OpsFit /\ JobFits /\ PutsFit /\ LabelsFit /\ PutsDone /\ HistoryKept
      /\ FilesKept /\ SettingsKnown /\ NoneMadeUp /\ FoundBefore /\ Clean /\ FavoritesFit
  BY DEF MoveIInv
<1> DEFINE ops == {Op(r) : r \in FileOps}
           puts == {Move(Op(r)) : r \in FileOps}
           favorites == {Snapshot(r) : r \in Rows}
           half == before.half \/ HalfUndone
           none == FALSE
           cmd == "run"
<1>2. /\ files' = files /\ saved' = saved /\ git' = git /\ edits' = edits
      /\ Idle /\ run.state # "started" /\ ~Errors /\ git.staged = git.head
      /\ run' = [state |-> "started", base |-> git.head, ops |-> ops, found |-> saved,
                 wrote |-> [l \in Labels |-> Nil], writing |-> Nil, favorites |-> favorites]
      /\ job' = Command(cmd, puts, Changed, New)
      /\ undo' = "none" /\ edited' = none
      /\ before' = [files |-> files, saved |-> saved, head |-> git.head, half |-> half]
  BY DEF Run
<1>3. /\ \A op \in ops :
           /\ op.from \in Patches /\ op.from[1] \in {"fav", "own"}
           /\ op.bytes = files[op.from] /\ op.bytes \in Bytes /\ op.bytes = git.head[op.from]
           /\ op.to # Nil => op.to \in Patches /\ op.to[1] = "tuned" /\ files[op.to] = Nil
      /\ \A op, o \in ops : op.from = o.from \/ (op.to = o.to /\ op.to # Nil) => op = o
  BY <1>1, <1>2, PlannedFits
<1>4. /\ \A u \in puts : \E op \in ops : u = Move(op)
      /\ \A op \in ops : Move(op) \in puts
  OBVIOUS
<1>5. /\ New \in Saved /\ Changed \subseteq Labels
      /\ Settings(New.store) \subseteq Settings(saved.store)
  BY <1>1, NewFits, NewStoreKeeps DEF MoveShape
<1>6. half \in BOOLEAN /\ (~half => ~before.half /\ ~HalfUndone)
  BY <1>1 DEF MoveShape
<1>7. cmd \in {"run", "undo"} /\ cmd = "run" /\ none = FALSE
  OBVIOUS
<1> HIDE DEF ops, puts, favorites, half, none, cmd
<1>8. /\ job'.cmd = cmd /\ job'.puts = puts /\ job'.labels = Changed /\ job'.new = New
      /\ job' = [cmd |-> job'.cmd, at |-> job'.at, puts |-> job'.puts, labels |-> job'.labels,
                 new |-> job'.new]
      /\ puts # {} => job'.at = "file"
      /\ puts = {} => /\ Changed = {} => job'.at = "state"
                      /\ Changed # {} => job'.at = "writing"
      /\ ~Idle'
  BY <1>2, <1>7, CommandIs
<1>9. /\ run'.state = "started" /\ run'.base = git.head /\ run'.ops = ops /\ run'.found = saved
      /\ run'.wrote = [l \in Labels |-> Nil] /\ run'.writing = Nil /\ run'.favorites = favorites
      /\ run' = [state |-> run'.state, base |-> run'.base, ops |-> run'.ops, found |-> run'.found,
                 wrote |-> run'.wrote, writing |-> run'.writing, favorites |-> run'.favorites]
  BY <1>2
<1>10. /\ before'.files = files /\ before'.saved = saved /\ before'.head = git.head
       /\ before'.half = half
  BY <1>2
<1>11. job'.at \in {"file", "state", "writing"}
  BY <1>8
<1>12. MoveShape'
  BY <1>1, <1>2, <1>5, <1>6, <1>7, <1>8, <1>9, <1>10, <1>11 DEF MoveShape, Stages
<1>13. OpsFit'
  BY <1>3, <1>9 DEF OpsFit
<1>14. HistoryKept'
  BY <1>1, <1>2, <1>9 DEF HistoryKept
<1>15. JobFits'
  BY <1>2, <1>5, <1>7, <1>8, <1>9 DEF JobFits
<1>16. \A op \in ops : /\ Move(op).half = 1 /\ Move(op).file = op.from
                       /\ DOMAIN Move(op).bytes = OpPaths(op)
                       /\ \A p \in OpPaths(op) : Move(op).bytes[p] = Wanted(cmd, op, p)
  <2>1. ASSUME NEW op \in ops
        PROVE  /\ Move(op).half = 1 /\ Move(op).file = op.from
               /\ DOMAIN Move(op).bytes = OpPaths(op)
               /\ \A p \in OpPaths(op) : Move(op).bytes[p] = Wanted(cmd, op, p)
    <3>1. op.from # op.to /\ op.from # Nil
      BY <1>3, NilIsNone
    <3>2. CASE op.to = Nil
      <4>1. Move(op) = [file |-> op.from, half |-> 1, bytes |-> Only(op.from, Nil)]
        BY <3>2 DEF Move, Put
      <4>2. OpPaths(op) = {op.from}
        BY <3>1, <3>2 DEF OpPaths
      <4>3. QED
        BY <1>7, <4>1, <4>2 DEF Only, Wanted
    <3>3. CASE op.to # Nil
      <4>1. Move(op) = [file |-> op.from, half |-> 1,
                        bytes |-> Over(Only(op.from, Nil), Only(op.to, op.bytes))]
        BY <3>3 DEF Move, Put
      <4>2. OpPaths(op) = {op.from, op.to}
        BY <3>3 DEF OpPaths
      <4>3. QED
        BY <1>7, <3>1, <4>1, <4>2 DEF Only, Over, Wanted
    <3>4. QED
      BY <3>2, <3>3
  <2>2. QED
    BY <2>1
<1>17. PutsFit'
  <2>1. puts # {} <=> job'.at \in {"file", "stage"}
    BY <1>8
  <2>2. ASSUME NEW u \in puts
        PROVE  /\ u.half \in 1..2
               /\ \E op \in ops : /\ u.file = op.from /\ DOMAIN u.bytes \subseteq OpPaths(op)
                                  /\ \A p \in DOMAIN u.bytes : u.bytes[p] = Wanted(cmd, op, p)
    BY <1>4, <1>16
  <2>3. QED
    BY <1>8, <1>9, <2>1, <2>2 DEF PutsFit
<1>18. LabelsFit'
  BY <1>7, <1>8, <1>9, <1>11 DEF LabelsFit
<1>19. PutsDone'
  <2>1. ASSUME NEW op \in ops, NEW p \in OpPaths(op) PROVE p \in Awaited'
    BY <1>4, <1>8, <1>16 DEF Awaited
  <2>2. QED
    BY <1>2, <1>8, <1>9, <1>11, <2>1 DEF PutsDone
<1>20. FilesKept'
  BY <1>2, <1>3, <1>9 DEF FilesKept, FilesChanged, There
<1>21. SettingsKnown'
  BY <1>2, <1>9 DEF SettingsKnown, SettingsChanged
<1>22. NoneMadeUp'
  BY <1>2, <1>5, <1>8, <1>9 DEF NoneMadeUp, Labels
<1>23. FoundBefore'
  BY <1>1, <1>2, <1>3, <1>9, <1>10 DEF FoundBefore, Elsewhere, MoveShape
<1>24. Clean'
  <2>1. ASSUME ~half PROVE \A p \in Patches : Gone(p)
    <3>1. ~before.half /\ Settled
      BY <1>1, <1>2, <1>6, <2>1 DEF MoveShape, HalfUndone, Settled
    <3>2. QED
      BY <1>1, <3>1 DEF Clean
  <2>2. QED
    BY <1>2, <1>3, <1>8, <1>9, <1>10, <2>1 DEF Clean, Gone, Settled, Elsewhere
<1>25. UndoneIsAsBefore'
  BY <1>8 DEF UndoneIsAsBefore, Resting
<1>26. FavoritesFit'
  <2>1. \A f \in favorites : \E r \in Rows : f = Snapshot(r) /\ f.after = r.after
    BY DEF favorites, Snapshot
  <2>2. \A r \in FileOps : Op(r) \in ops /\ Op(r).from = r.file
    BY DEF ops, Op
  <2>3. \A r \in Rows : r.after \in Patches /\ Snapshot(r) \in favorites /\ Snapshot(r).after = r.after
    BY <1>1, RowsAre DEF favorites, Snapshot, MoveShape
  <2>4. ASSUME Spares', NEW f \in favorites
        PROVE  /\ f.after \in DOMAIN New.index.copy
               /\ \/ \E g \in favorites \ {f} : g.after = f.after
                  \/ ReadsAs(New.store, f)
    <3>1. \A r \in Rows, q \in FileOps : r.after # q.file
      BY <1>9, <2>2, <2>3, <2>4 DEF Spares
    <3>2. PICK r \in Rows : f = Snapshot(r)
      BY <2>1
    <3>3. QED
      BY <1>1, <3>1, <3>2, NewFollows DEF MoveShape, favorites
  <2>5. \A l \in Labels \ Changed : saved[l] = New[l]
    BY DEF Changed
  <2>6. QED
    BY <1>2, <1>8, <1>9, <2>1, <2>3, <2>4, <2>5 DEF FavoritesFit, Follows, ReadsAs
<1>27. FavoritesStay'
  BY <1>8 DEF FavoritesStay, Resting
<1>28. QED
  BY <1>12, <1>13, <1>14, <1>15, <1>17, <1>18, <1>19, <1>20, <1>21, <1>22, <1>23, <1>24, <1>25, <1>26, <1>27
  DEF MoveIInv

LEMMA MoveSteps == MoveIInv /\ [MoveNext]_moveVars => MoveIInv'
<1> SUFFICES ASSUME MoveIInv, [MoveNext]_moveVars PROVE MoveIInv'
  OBVIOUS
<1>1. CASE Run
  BY <1>1, RunKeeps
<1>2. ASSUME NEW force \in BOOLEAN, Undo(force) PROVE MoveIInv'
  BY <1>2, UndoKeeps
<1>3. CASE Step
  BY <1>3, ChangeFileKeeps, StageFileKeeps, CommitStagedKeeps, SayWritingKeeps, WriteKeeps,
     SayWroteKeeps, RestoreLastKeeps, SayStateKeeps DEF Step
<1>4. CASE CutOff
  BY <1>4, CutOffKeeps
<1>5. CASE Player
  BY <1>5, SaveFileKeeps, ChooseKeeps, HeartKeeps, PlayKeeps DEF Player
<1>6. CASE UNCHANGED moveVars
  <2>1. /\ files' = files /\ saved' = saved /\ git' = git /\ run' = run /\ job' = job
        /\ undo' = undo /\ before' = before /\ edited' = edited /\ edits' = edits
    BY <1>6 DEF moveVars, past, bounds
  <2>2. /\ MoveShape /\ OpsFit /\ JobFits /\ PutsFit /\ LabelsFit /\ PutsDone /\ HistoryKept
        /\ FilesKept /\ SettingsKnown /\ NoneMadeUp /\ FoundBefore /\ Clean /\ FavoritesFit
        /\ UndoneIsAsBefore /\ FavoritesStay
    BY DEF MoveIInv
  <2>3. Idle' = Idle /\ Label' = Label /\ Awaited' = Awaited /\ Elsewhere' = Elsewhere
    BY <2>1 DEF Idle, Doing, Label, Awaited, Elsewhere
  <2>4. MoveShape' /\ OpsFit' /\ PutsFit' /\ HistoryKept' /\ NoneMadeUp'
    BY <2>1, <2>2, <2>3 DEF MoveShape, OpsFit, PutsFit, HistoryKept, NoneMadeUp
  <2>5. JobFits' /\ LabelsFit' /\ PutsDone'
    BY <2>1, <2>2, <2>3 DEF JobFits, LabelsFit, PutsDone, NoJob
  <2>6. FilesKept' /\ SettingsKnown'
    BY <2>1, <2>2, <2>3 DEF FilesKept, FilesChanged, There, SettingsKnown, SettingsChanged
  <2>7. FoundBefore' /\ Clean' /\ UndoneIsAsBefore'
    BY <2>1, <2>2, <2>3 DEF FoundBefore, Clean, Gone, Settled, UndoneIsAsBefore, Resting
  <2>8. FavoritesFit' /\ FavoritesStay'
    BY <2>1, <2>2, <2>3 DEF FavoritesFit, FavoritesStay, Follows, Spares, Had, There, Resting
  <2>9. QED
    BY <2>4, <2>5, <2>6, <2>7, <2>8 DEF MoveIInv
<1>7. QED
  BY <1>1, <1>2, <1>3, <1>4, <1>5, <1>6 DEF MoveNext

LEMMA MoveInvariance == MoveSpec => []MoveIInv
BY MoveStarts, MoveSteps, PTL DEF MoveSpec

\* The state variables have their types; a command under way is about a run that
\* is not undone, and puts into files only what that run's manifest names
\* (apply_plan and undo of favorites_migrate.py).
THEOREM MoveTyping == MoveSpec => []MoveTypeOK
<1>1. MoveIInv => MoveTypeOK
  <2> SUFFICES ASSUME MoveIInv PROVE MoveTypeOK
    OBVIOUS
  <2>1. MoveShape /\ JobFits /\ PutsFit
    BY DEF MoveIInv
  <2>2. ~Idle => run.state = "started" \/ (run.state = "done" /\ job.cmd = "undo")
    BY <2>1 DEF MoveShape, JobFits
  <2>3. \A u \in job.puts : u.file \in {op.from : op \in run.ops}
    BY <2>1 DEF PutsFit
  <2>4. QED
    BY <2>1, <2>2, <2>3 DEF MoveTypeOK, MoveShape
<1>2. QED
  BY <1>1, MoveInvariance, PTL

\* Wherever a run of the move or an undo of it was cut off, and however often,
\* the undo does not refuse what it left (undo's checks of files and settings).
THEOREM UndoIsTaken == MoveSpec => []UndoTakesIt
<1>1. MoveIInv => UndoTakesIt
  BY DEF MoveIInv, FilesKept, SettingsKnown, UndoTakesIt, Resting
<1>2. QED
  BY <1>1, MoveInvariance, PTL

\* An undo that reaches its end has put back every file, the checkout, the
\* settings and the index, whatever was cut off before it.
THEOREM UndoneIsBack == MoveSpec => []UndoneIsAsBefore
<1>1. MoveIInv => UndoneIsAsBefore
  BY DEF MoveIInv
<1>2. QED
  BY <1>1, MoveInvariance, PTL

\* After a run that moved away no patch a favourite ends at, every favourite is
\* one still, reads as it did, and has its patch.
THEOREM FavoritesFollow == MoveSpec => []FavoritesStay
<1>1. MoveIInv => FavoritesStay
  BY DEF MoveIInv
<1>2. QED
  BY <1>1, MoveInvariance, PTL

\* What a command writes over is in the history of the checkout, and a setting
\* the player made since the run is in no store it replaces.
LEMMA CommandsKeep == MoveIInv /\ MoveNext => CommandKeeps
<1> SUFFICES ASSUME MoveIInv, MoveNext, ~Idle
             PROVE  /\ Range(files) \subseteq Range(files') \cup git'.kept \cup {Nil}
                    /\ edited /\ undo = "plain" /\ run.writing # "store" =>
                         Edits \cap Settings(saved.store) \subseteq Settings(saved'.store)
  BY DEF CommandKeeps
<1>1. /\ MoveShape /\ OpsFit /\ JobFits /\ PutsFit /\ LabelsFit /\ HistoryKept
      /\ FilesKept /\ SettingsKnown /\ NoneMadeUp
  BY DEF MoveIInv
<1>2. Step \/ CutOff
  BY DEF MoveNext, Run, Undo, Player, SaveFile, Choose, Heart, Play, Edit
<1>3. ASSUME files' = files
      PROVE  Range(files) \subseteq Range(files') \cup git'.kept \cup {Nil}
  BY <1>3
<1>4. ASSUME ChangeFile
      PROVE  Range(files) \subseteq Range(files') \cup git'.kept \cup {Nil}
  <2> DEFINE u == First(job.puts)
  <2>1. job.at = "file" /\ files' = Over(u.bytes, files) /\ git' = git
    BY <1>4 DEF ChangeFile, Doing
  <2>2. PICK op \in run.ops : DOMAIN u.bytes \subseteq OpPaths(op)
    BY <1>1, <2>1, FirstPut
  <2>3. op.bytes \in git.kept
    <3>1. op.from \in Patches /\ op.bytes = run.base[op.from] /\ run.base \in Library
      BY <1>1 DEF OpsFit, MoveShape
    <3>2. QED
      BY <1>1, <3>1 DEF HistoryKept, Range, Library
  <2>4. \A p \in OpPaths(op) : files[p] \in {Nil, op.bytes}
    BY <1>1, ChangedFiles DEF FilesKept
  <2> HIDE DEF u
  <2>5. ASSUME NEW p \in DOMAIN files
        PROVE  files[p] \in Range(files') \cup git'.kept \cup {Nil}
    <3>1. CASE p \in DOMAIN u.bytes
      BY <2>1, <2>2, <2>3, <2>4, <3>1
    <3>2. CASE p \notin DOMAIN u.bytes
      <4>1. p \in DOMAIN files' /\ files'[p] = files[p]
        BY <2>1, <3>2 DEF Over
      <4>2. QED
        BY <4>1 DEF Range
    <3>3. QED
      BY <3>1, <3>2
  <2>6. QED
    BY <2>5 DEF Range
<1>5. ASSUME Write, edited, undo = "plain", run.writing # "store"
      PROVE  Settings(saved.store) \subseteq Settings(saved'.store)
  <2>1. job.cmd = "undo" /\ job.new = run.found /\ ~SettingsChanged
    BY <1>1, <1>5 DEF JobFits, SettingsKnown, MoveShape
  <2>2. saved.store \in {run.found.store, run.wrote["store"]}
    BY <1>5, <2>1 DEF SettingsChanged
  <2>3. saved \in Saved /\ saved.store # Nil
    BY <1>1, SavedParts, NilIsNone DEF MoveShape
  <2>4. Settings(saved.store) \subseteq Settings(run.found.store)
    BY <1>1, <2>2, <2>3 DEF NoneMadeUp
  <2>5. saved'.store = saved.store \/ saved'.store = run.found.store
    <3> DEFINE l == Label
               v == job.new[l]
    <3>1. saved' = [saved EXCEPT ![l] = v] /\ job.new["store"] = run.found.store
      BY <1>5, <2>1 DEF Write
    <3>2. l = "store" => v = run.found.store
      BY <3>1
    <3>3. saved = [store |-> saved.store, index |-> saved.index, last |-> saved.last]
      BY <2>3, SavedParts
    <3> HIDE DEF l, v
    <3>4. QED
      BY <3>1, <3>2, <3>3
  <2>6. QED
    BY <2>4, <2>5
<1>6. ASSUME saved' = saved \/ RestoreLast
      PROVE  saved'.store = saved.store
  <2>1. saved = [store |-> saved.store, index |-> saved.index, last |-> saved.last]
    BY <1>1, SavedParts DEF MoveShape
  <2> DEFINE v == IF saved.last = run.wrote["last"] THEN run.found.last ELSE saved.last
  <2>2. saved' = saved \/ saved' = [saved EXCEPT !.last = v]
    BY <1>6 DEF RestoreLast
  <2> HIDE DEF v
  <2>3. QED
    BY <2>1, <2>2
<1>7. files' = files \/ ChangeFile
  BY <1>2 DEF Step, StageFile, CommitStaged, SayWriting, Write, SayWrote, RestoreLast, SayState, CutOff
<1>8. saved' = saved \/ RestoreLast \/ Write
  BY <1>2 DEF Step, ChangeFile, StageFile, CommitStaged, SayWriting, SayWrote, SayState, CutOff
<1>9. QED
  BY <1>3, <1>4, <1>5, <1>6, <1>7, <1>8

\* No run or undo of the move loses bytes of a patch that the checkout does not
\* have, and no undo that was not forced loses a setting made since the run,
\* unless the run was cut off while it wrote the settings.
THEOREM NothingIsLost == MoveSpec => NothingSavedIsLost
<1>1. MoveIInv /\ [MoveNext]_moveVars => [CommandKeeps]_moveVars
  BY CommandsKeep
<1>2. QED
  BY <1>1, MoveInvariance, PTL DEF MoveSpec, NothingSavedIsLost
=============================================================================
