------------------------- MODULE ClassicToMpe_proofs -------------------------
(***************************************************************************)
(* Proofs about the remapper's two ledgers.  ClassicToMpe, for any zone,    *)
(* notes and values: channels are neither lost nor shared, beliefs are      *)
(* true, notes start from the zone, and no note is left without its         *)
(* note-off.  VoiceLimit, for any keys and limits: the voices over Surge's  *)
(* limit are asked to be shed.                                              *)
(***************************************************************************)
EXTENDS ClassicToMpe, VoiceLimit, FiniteSetTheorems, SequenceTheorems, WellFoundedInduction,
        TLAPS

-----------------------------------------------------------------------------
(* Sequences of voices and of channels. *)

\* A sequence with one element taken out is the rest, in order.
LEMMA RemoveAtIs ==
  ASSUME NEW S, NEW s \in Seq(S), NEW i \in 1..Len(s)
  PROVE  /\ RemoveAt(s, i) \in Seq(S)
         /\ Len(RemoveAt(s, i)) = Len(s) - 1
         /\ \A j \in 1..(Len(s) - 1) :
              RemoveAt(s, i)[j] = IF j < i THEN s[j] ELSE s[j + 1]
<1> DEFINE a == SubSeq(s, 1, i - 1)
           b == SubSeq(s, i + 1, Len(s))
<1>1. Len(s) \in Nat
  BY LenProperties
<1>2. /\ a \in Seq(S) /\ Len(a) = i - 1
      /\ \A j \in 1..(i - 1) : a[j] = s[j]
  BY <1>1, SMT
<1>3. /\ b \in Seq(S) /\ Len(b) = Len(s) - i
      /\ \A j \in 1..(Len(s) - i) : b[j] = s[i + j]
  BY <1>1, SMT
<1>4. /\ a \o b \in Seq(S)
      /\ Len(a \o b) = Len(a) + Len(b)
      /\ \A j \in 1..(Len(a) + Len(b)) :
           (a \o b)[j] = IF j <= Len(a) THEN a[j] ELSE b[j - Len(a)]
  BY <1>2, <1>3, ConcatProperties
<1>5. RemoveAt(s, i) = a \o b
  BY DEF RemoveAt
<1> HIDE DEF a, b
<1>6. Len(a) + Len(b) = Len(s) - 1
  BY <1>1, <1>2, <1>3
<1>7. ASSUME NEW j \in 1..(Len(s) - 1)
      PROVE  (a \o b)[j] = IF j < i THEN s[j] ELSE s[j + 1]
  <2>1. j \in 1..(Len(a) + Len(b))
    BY <1>6, <1>7
  <2>2. CASE j < i
    <3>1. j <= Len(a) /\ j \in 1..(i - 1)
      BY <1>1, <1>2, <1>7, <2>2
    <3>2. (a \o b)[j] = a[j]
      BY <1>4, <2>1, <3>1
    <3>3. QED
      BY <1>2, <2>2, <3>1, <3>2
  <2>3. CASE ~(j < i)
    <3>1. /\ ~(j <= Len(a)) /\ j - Len(a) \in 1..(Len(s) - i)
          /\ i + (j - Len(a)) = j + 1
      BY <1>1, <1>2, <1>7, <2>3
    <3>2. (a \o b)[j] = b[j - Len(a)]
      BY <1>4, <2>1, <3>1
    <3>3. QED
      BY <1>3, <2>3, <3>1, <3>2
  <2>4. QED
    BY <2>2, <2>3
<1>8. \A j \in 1..(Len(s) - 1) : (a \o b)[j] = IF j < i THEN s[j] ELSE s[j + 1]
  BY <1>7
<1>9. QED
  BY <1>4, <1>5, <1>6, <1>8

-----------------------------------------------------------------------------
(* The books: which channels are free and which carry a note. *)

NoteSounds(vs, n) == \E i \in 1..Len(vs) : vs[i].note = n
Carries(vs, c) == \E i \in 1..Len(vs) : vs[i].channel = c
IsFree(fr, c) == \E i \in 1..Len(fr) : fr[i] = c
KeyIsVoice(vs, k) == \E i \in 1..Len(vs) : k = <<vs[i].channel, vs[i].note>>

OneEach(vs) ==
  \A i, j \in 1..Len(vs) :
    i # j => vs[i].channel # vs[j].channel /\ vs[i].note # vs[j].note
EachOnce(fr) == \A i, j \in 1..Len(fr) : i # j => fr[i] # fr[j]

Books(vs, fr) ==
  /\ OneEach(vs)
  /\ EachOnce(fr)
  /\ \A c \in Members : IsFree(fr, c) <=> ~Carries(vs, c)

\* The other voices are all that is left when one is taken out.
LEMMA OthersStay ==
  ASSUME NEW vs \in Seq(Voices), NEW i \in 1..Len(vs)
  PROVE  /\ RemoveAt(vs, i) \in Seq(Voices)
         /\ \A j \in 1..Len(RemoveAt(vs, i)) :
              \E k \in 1..Len(vs) : k # i /\ RemoveAt(vs, i)[j] = vs[k]
         /\ \A k \in 1..Len(vs) :
              k # i => \E j \in 1..Len(RemoveAt(vs, i)) : RemoveAt(vs, i)[j] = vs[k]
<1> DEFINE rest == RemoveAt(vs, i)
<1>1. /\ rest \in Seq(Voices)
      /\ Len(rest) = Len(vs) - 1
      /\ \A j \in 1..(Len(vs) - 1) : rest[j] = IF j < i THEN vs[j] ELSE vs[j + 1]
  BY RemoveAtIs
<1>2. Len(vs) \in Nat
  BY LenProperties
<1> HIDE DEF rest
<1>3. ASSUME NEW j \in 1..Len(rest)
      PROVE  \E k \in 1..Len(vs) : k # i /\ rest[j] = vs[k]
  <2>1. CASE j < i
    <3>1. j \in 1..Len(vs) /\ j # i /\ rest[j] = vs[j]
      BY <1>1, <1>2, <2>1
    <3>2. QED
      BY <3>1
  <2>2. CASE ~(j < i)
    <3>1. j + 1 \in 1..Len(vs) /\ j + 1 # i /\ rest[j] = vs[j + 1]
      BY <1>1, <1>2, <2>2
    <3>2. QED
      BY <3>1
  <2>3. QED
    BY <2>1, <2>2
<1>4. ASSUME NEW k \in 1..Len(vs), k # i
      PROVE  \E j \in 1..Len(rest) : rest[j] = vs[k]
  <2>1. CASE k < i
    <3>1. k \in 1..Len(rest) /\ rest[k] = vs[k]
      BY <1>1, <1>2, <2>1
    <3>2. QED
      BY <3>1
  <2>2. CASE ~(k < i)
    <3>1. k - 1 \in 1..Len(rest) /\ ~(k - 1 < i) /\ (k - 1) + 1 = k
      BY <1>1, <1>2, <1>4, <2>2
    <3>2. rest[k - 1] = vs[k]
      BY <1>1, <3>1
    <3>3. QED
      BY <3>1, <3>2
  <2>3. QED
    BY <2>1, <2>2
<1>5. QED
  BY <1>1, <1>3, <1>4 DEF rest

\* Different places of the rest are different places of the whole.
LEMMA RestIsOneEach ==
  ASSUME NEW vs \in Seq(Voices), NEW i \in 1..Len(vs), OneEach(vs)
  PROVE  OneEach(RemoveAt(vs, i))
<1> DEFINE rest == RemoveAt(vs, i)
           place(j) == IF j < i THEN j ELSE j + 1
<1>1. /\ Len(rest) = Len(vs) - 1
      /\ \A j \in 1..(Len(vs) - 1) : rest[j] = IF j < i THEN vs[j] ELSE vs[j + 1]
  BY RemoveAtIs
<1>2. Len(vs) \in Nat
  BY LenProperties
<1> HIDE DEF rest
<1>3. \A j \in 1..Len(rest) : place(j) \in 1..Len(vs) /\ rest[j] = vs[place(j)]
  BY <1>1, <1>2
<1>4. \A j, k \in 1..Len(rest) : j # k => place(j) # place(k)
  BY <1>1, <1>2
<1> HIDE DEF place
<1>5. ASSUME NEW j \in 1..Len(rest), NEW k \in 1..Len(rest), j # k
      PROVE  rest[j].channel # rest[k].channel /\ rest[j].note # rest[k].note
  <2>1. place(j) \in 1..Len(vs) /\ place(k) \in 1..Len(vs) /\ place(j) # place(k)
    BY <1>3, <1>4, <1>5
  <2>2. /\ vs[place(j)].channel # vs[place(k)].channel
        /\ vs[place(j)].note # vs[place(k)].note
    BY <2>1 DEF OneEach
  <2>3. rest[j] = vs[place(j)] /\ rest[k] = vs[place(k)]
    BY <1>3
  <2>4. QED
    BY <2>2, <2>3
<1>6. QED
  BY <1>5 DEF rest, OneEach

\* A voice is given up: its channel becomes free, and nothing else changes.
LEMMA BooksRelease ==
  ASSUME NEW vs \in Seq(Voices), NEW fr \in Seq(Members), Books(vs, fr),
         NEW i \in 1..Len(vs)
  PROVE  /\ Books(RemoveAt(vs, i), Append(fr, vs[i].channel))
         /\ ~NoteSounds(RemoveAt(vs, i), vs[i].note)
         /\ ~Carries(RemoveAt(vs, i), vs[i].channel)
<1> DEFINE rest == RemoveAt(vs, i)
           c == vs[i].channel
           fr2 == Append(fr, c)
<1>1. /\ rest \in Seq(Voices)
      /\ \A j \in 1..Len(rest) : \E k \in 1..Len(vs) : k # i /\ rest[j] = vs[k]
      /\ \A k \in 1..Len(vs) : k # i => \E j \in 1..Len(rest) : rest[j] = vs[k]
  BY OthersStay
<1>2. OneEach(rest)
  BY RestIsOneEach DEF Books
<1>3. vs[i] \in Voices /\ c \in Members
  <2>1. vs[i] \in Voices
    BY ElementOfSeq
  <2>2. QED
    BY <2>1 DEF Voices
<1>4. /\ Len(fr) \in Nat /\ Len(fr2) = Len(fr) + 1
      /\ \A j \in 1..Len(fr) : fr2[j] = fr[j]
      /\ fr2[Len(fr) + 1] = c
  BY <1>3, AppendProperties, LenProperties
<1>5. ~IsFree(fr, c)
  BY <1>3 DEF Books, Carries
<1> HIDE DEF rest, fr2
<1>6. EachOnce(fr2)
  BY <1>4, <1>5 DEF Books, EachOnce, IsFree
<1>7. ASSUME NEW j \in 1..Len(rest)
      PROVE  rest[j].channel # c /\ rest[j].note # vs[i].note
  <2>1. PICK k \in 1..Len(vs) : k # i /\ rest[j] = vs[k]
    BY <1>1
  <2>2. vs[k].channel # c /\ vs[k].note # vs[i].note
    BY <2>1 DEF Books, OneEach
  <2>3. QED
    BY <2>1, <2>2
<1>8. ASSUME NEW d \in Members PROVE IsFree(fr2, d) <=> ~Carries(rest, d)
  <2>1. CASE d = c
    BY <1>4, <1>7, <2>1 DEF IsFree, Carries
  <2>2. CASE d # c
    <3>1. IsFree(fr2, d) <=> IsFree(fr, d)
      BY <1>4, <2>2 DEF IsFree
    <3>2. Carries(rest, d) <=> Carries(vs, d)
      BY <1>1, <2>2 DEF Carries
    <3>3. QED
      BY <3>1, <3>2 DEF Books
  <2>3. QED
    BY <2>1, <2>2
<1>9. QED
  BY <1>2, <1>6, <1>7, <1>8 DEF Books, NoteSounds, Carries, rest, fr2

\* A voice is added for a note and a channel that have none.
LEMMA VoiceAdded ==
  ASSUME NEW vs \in Seq(Voices), NEW n \in Notes, NEW c \in Members, OneEach(vs),
         ~NoteSounds(vs, n), ~Carries(vs, c)
  PROVE  LET more == Append(vs, [note |-> n, channel |-> c])
         IN /\ more \in Seq(Voices)
            /\ OneEach(more)
            /\ Len(more) = Len(vs) + 1
            /\ more[Len(vs) + 1] = [note |-> n, channel |-> c]
            /\ \A i \in 1..Len(vs) : more[i] = vs[i]
            /\ \A d : Carries(more, d) <=> Carries(vs, d) \/ d = c
<1> DEFINE v == [note |-> n, channel |-> c]
           more == Append(vs, v)
<1>1. v \in Voices /\ v.note = n /\ v.channel = c
  BY DEF Voices
<1>2. Len(vs) \in Nat
  BY LenProperties
<1> HIDE DEF v
<1>3. /\ more \in Seq(Voices)
      /\ Len(more) = Len(vs) + 1
      /\ \A i \in 1..Len(vs) : more[i] = vs[i]
      /\ more[Len(vs) + 1] = v
  BY <1>1, AppendProperties
<1> HIDE DEF more
<1>4. ASSUME NEW i \in 1..Len(more), NEW j \in 1..Len(more), i # j
      PROVE  more[i].channel # more[j].channel /\ more[i].note # more[j].note
  <2>1. CASE i \in 1..Len(vs) /\ j \in 1..Len(vs)
    BY <1>3, <1>4, <2>1 DEF OneEach
  <2>2. CASE i = Len(vs) + 1 /\ j \in 1..Len(vs)
    BY <1>1, <1>3, <2>2 DEF NoteSounds, Carries
  <2>3. CASE i \in 1..Len(vs) /\ j = Len(vs) + 1
    BY <1>1, <1>3, <2>3 DEF NoteSounds, Carries
  <2>4. QED
    BY <1>2, <1>3, <1>4, <2>1, <2>2, <2>3
<1>5. ASSUME NEW d PROVE Carries(more, d) <=> Carries(vs, d) \/ d = c
  <2>1. ASSUME NEW i \in 1..Len(more), more[i].channel = d
        PROVE  Carries(vs, d) \/ d = c
    <3>1. CASE i \in 1..Len(vs)
      BY <1>3, <2>1, <3>1 DEF Carries
    <3>2. CASE i = Len(vs) + 1
      BY <1>1, <1>3, <2>1, <3>2
    <3>3. QED
      BY <1>2, <1>3, <3>1, <3>2
  <2>2. ASSUME NEW i \in 1..Len(vs), vs[i].channel = d PROVE Carries(more, d)
    <3>1. i \in 1..Len(more) /\ more[i].channel = d
      BY <1>2, <1>3, <2>2
    <3>2. QED
      BY <3>1 DEF Carries
  <2>3. ASSUME d = c PROVE Carries(more, d)
    <3>1. Len(vs) + 1 \in 1..Len(more) /\ more[Len(vs) + 1].channel = d
      BY <1>1, <1>2, <1>3, <2>3
    <3>2. QED
      BY <3>1 DEF Carries
  <2>4. QED
    BY <2>1, <2>2, <2>3 DEF Carries
<1>6. OneEach(more)
  BY <1>4 DEF OneEach
<1>7. QED
  BY <1>3, <1>5, <1>6 DEF more, v

\* A note that does not sound takes the first free channel.
LEMMA BooksTake ==
  ASSUME NEW vs \in Seq(Voices), NEW fr \in Seq(Members), Books(vs, fr), fr # << >>,
         NEW n \in Notes, ~NoteSounds(vs, n)
  PROVE  /\ Head(fr) \in Members /\ Tail(fr) \in Seq(Members)
         /\ ~Carries(vs, Head(fr))
         /\ Append(vs, [note |-> n, channel |-> Head(fr)]) \in Seq(Voices)
         /\ Books(Append(vs, [note |-> n, channel |-> Head(fr)]), Tail(fr))
<1> DEFINE c == Head(fr)
           more == Append(vs, [note |-> n, channel |-> c])
           rest == Tail(fr)
<1>1. /\ c \in Members /\ rest \in Seq(Members) /\ Len(rest) = Len(fr) - 1
      /\ \A i \in 1..Len(rest) : rest[i] = fr[i + 1]
      /\ c = fr[1] /\ Len(fr) \in Nat /\ 1 \in 1..Len(fr)
  <2>1. Len(fr) \in Nat /\ Len(fr) # 0
    BY LenProperties, EmptySeq
  <2>2. QED
    BY <2>1, HeadTailProperties
<1> HIDE DEF c, rest
<1>2. IsFree(fr, c) /\ ~Carries(vs, c)
  BY <1>1 DEF IsFree, Books
<1>3. OneEach(vs)
  BY DEF Books
<1>4. /\ more \in Seq(Voices) /\ OneEach(more)
      /\ \A d : Carries(more, d) <=> Carries(vs, d) \/ d = c
  BY <1>1, <1>2, <1>3, VoiceAdded
<1> HIDE DEF more
<1>5. EachOnce(rest)
  BY <1>1 DEF Books, EachOnce
<1>6. ASSUME NEW d \in Members PROVE IsFree(rest, d) <=> IsFree(fr, d) /\ d # c
  <2>1. ASSUME NEW i \in 1..Len(rest), rest[i] = d PROVE IsFree(fr, d) /\ d # c
    <3>1. i + 1 \in 1..Len(fr) /\ fr[i + 1] = d /\ i + 1 # 1
      BY <1>1, <2>1
    <3>2. QED
      BY <1>1, <3>1 DEF Books, EachOnce, IsFree
  <2>2. ASSUME NEW i \in 1..Len(fr), fr[i] = d, d # c PROVE IsFree(rest, d)
    <3>1. i - 1 \in 1..Len(rest) /\ rest[i - 1] = d
      BY <1>1, <2>2
    <3>2. QED
      BY <3>1 DEF IsFree
  <2>3. QED
    BY <2>1, <2>2 DEF IsFree
<1>7. \A d \in Members : IsFree(rest, d) <=> ~Carries(more, d)
  BY <1>4, <1>6 DEF Books
<1>8. QED
  BY <1>1, <1>2, <1>4, <1>5, <1>7 DEF Books, more, c, rest

\* A note that does not sound takes the channel of voice i.
LEMMA BooksSteal ==
  ASSUME NEW vs \in Seq(Voices), NEW fr \in Seq(Members), Books(vs, fr),
         NEW i \in 1..Len(vs), NEW n \in Notes, ~NoteSounds(vs, n)
  PROVE  LET more == Append(RemoveAt(vs, i), [note |-> n, channel |-> vs[i].channel])
         IN more \in Seq(Voices) /\ Books(more, fr)
<1> DEFINE c == vs[i].channel
           rest == RemoveAt(vs, i)
           more == Append(rest, [note |-> n, channel |-> c])
<1>1. c \in Members
  <2>1. vs[i] \in Voices
    BY ElementOfSeq
  <2>2. QED
    BY <2>1 DEF Voices
<1>2. /\ rest \in Seq(Voices)
      /\ \A j \in 1..Len(rest) : \E k \in 1..Len(vs) : k # i /\ rest[j] = vs[k]
      /\ \A k \in 1..Len(vs) : k # i => \E j \in 1..Len(rest) : rest[j] = vs[k]
  BY OthersStay
<1>3. OneEach(rest) /\ ~Carries(rest, c)
  BY RestIsOneEach, BooksRelease DEF Books
<1> HIDE DEF rest
<1>4. ~NoteSounds(rest, n)
  BY <1>2 DEF NoteSounds
<1> HIDE DEF c
<1>5. /\ more \in Seq(Voices) /\ OneEach(more)
      /\ \A d : Carries(more, d) <=> Carries(rest, d) \/ d = c
  BY <1>1, <1>2, <1>3, <1>4, VoiceAdded
<1> HIDE DEF more
<1>6. \A d : Carries(rest, d) \/ d = c <=> Carries(vs, d)
  BY <1>2 DEF Carries, c
<1>7. QED
  BY <1>5, <1>6 DEF Books, more, rest, c

\* A new translator: every member is free, in the order of the zone.
LEMMA BooksFresh == /\ MemberChannels \in Seq(Members) /\ MemberChannels # << >>
                    /\ Books(<< >>, MemberChannels)
<1>1. /\ MemberChannels \in Seq(Nat) /\ MemberChannels # << >>
      /\ DOMAIN MemberChannels = 1..Len(MemberChannels) /\ Len(MemberChannels) \in Nat
  BY MembersAssumption, LenProperties
<1>2. Members = {MemberChannels[i] : i \in 1..Len(MemberChannels)}
  BY <1>1 DEF Members, Range
<1>3. MemberChannels \in Seq(Members)
  BY <1>1, <1>2, IsASeq
<1>4. EachOnce(MemberChannels)
  BY <1>1, MembersAssumption DEF EachOnce, IsInjective
<1>5. \A c \in Members : IsFree(MemberChannels, c)
  BY <1>2 DEF IsFree
<1>6. Len(<< >>) = 0
  BY EmptySeq
<1>7. QED
  BY <1>1, <1>3, <1>4, <1>5, <1>6 DEF Books, OneEach, Carries

\* The channels of all voices become free together, in ascending order.
LEMMA BooksPanic ==
  ASSUME NEW vs \in Seq(Voices), NEW fr \in Seq(Members), Books(vs, fr),
         NEW freed \in [1..Len(vs) -> Members],
         \A c \in Members : Carries(vs, c) <=> \E i \in 1..Len(vs) : freed[i] = c,
         \A i, j \in 1..Len(vs) : i < j => freed[i] < freed[j]
  PROVE  fr \o freed \in Seq(Members) /\ Books(<< >>, fr \o freed)
<1> DEFINE all == fr \o freed
<1>1. /\ Len(vs) \in Nat /\ Len(fr) \in Nat
  BY LenProperties
<1>2. freed \in Seq(Members) /\ Len(freed) = Len(vs)
  BY <1>1, IsASeq
<1>3. /\ all \in Seq(Members) /\ Len(all) = Len(fr) + Len(vs)
      /\ \A i \in 1..(Len(fr) + Len(vs)) :
           all[i] = IF i <= Len(fr) THEN fr[i] ELSE freed[i - Len(fr)]
  <2>1. /\ all \in Seq(Members) /\ Len(all) = Len(fr) + Len(freed)
        /\ \A i \in 1..(Len(fr) + Len(freed)) :
             all[i] = IF i <= Len(fr) THEN fr[i] ELSE freed[i - Len(fr)]
    BY <1>2, ConcatProperties
  <2>2. QED
    BY <1>2, <2>1
<1> HIDE DEF all
<1>4. Members \subseteq Nat
  BY MembersAssumption, LenProperties, ElementOfSeq DEF Members, Range
<1>5. \A i, j \in 1..Len(vs) : i # j => freed[i] # freed[j]
  <2>1. \A i \in 1..Len(vs) : freed[i] \in Nat
    BY <1>4
  <2>2. QED
    BY <1>1, <2>1
<1>6. \A i \in 1..Len(vs) : ~IsFree(fr, freed[i])
  BY DEF Books
<1>7. \A i \in 1..Len(fr) : \A j \in 1..Len(vs) : fr[i] # freed[j]
  BY <1>6 DEF IsFree
<1>8. ASSUME NEW i \in 1..Len(all), NEW j \in 1..Len(all), i # j
      PROVE  all[i] # all[j]
  <2>1. CASE i <= Len(fr) /\ j <= Len(fr)
    BY <1>1, <1>3, <1>8, <2>1 DEF Books, EachOnce
  <2>2. CASE i <= Len(fr) /\ ~(j <= Len(fr))
    <3>1. i \in 1..Len(fr) /\ j - Len(fr) \in 1..Len(vs)
      BY <1>1, <1>3, <2>2
    <3>2. QED
      BY <1>3, <1>7, <2>2, <3>1
  <2>3. CASE ~(i <= Len(fr)) /\ j <= Len(fr)
    <3>1. j \in 1..Len(fr) /\ i - Len(fr) \in 1..Len(vs)
      BY <1>1, <1>3, <2>3
    <3>2. QED
      BY <1>3, <1>7, <2>3, <3>1
  <2>4. CASE ~(i <= Len(fr)) /\ ~(j <= Len(fr))
    <3>1. /\ i - Len(fr) \in 1..Len(vs) /\ j - Len(fr) \in 1..Len(vs)
          /\ i - Len(fr) # j - Len(fr)
      BY <1>1, <1>3, <1>8, <2>4
    <3>2. QED
      BY <1>3, <1>5, <2>4, <3>1
  <2>5. QED
    BY <2>1, <2>2, <2>3, <2>4
<1>9. ASSUME NEW c \in Members PROVE IsFree(all, c)
  <2>1. CASE IsFree(fr, c)
    <3>1. PICK i \in 1..Len(fr) : fr[i] = c
      BY <2>1 DEF IsFree
    <3>2. i \in 1..Len(all) /\ all[i] = c
      BY <1>1, <1>3, <3>1
    <3>3. QED
      BY <3>2 DEF IsFree
  <2>2. CASE Carries(vs, c)
    <3>1. PICK i \in 1..Len(vs) : freed[i] = c
      BY <2>2
    <3>2. /\ i + Len(fr) \in 1..Len(all) /\ ~(i + Len(fr) <= Len(fr))
          /\ (i + Len(fr)) - Len(fr) = i
      BY <1>1, <1>3
    <3>3. all[i + Len(fr)] = c
      BY <1>3, <3>1, <3>2
    <3>4. QED
      BY <3>2, <3>3 DEF IsFree
  <2>3. QED
    BY <2>1, <2>2 DEF Books
<1>10. Len(<< >>) = 0
  BY EmptySeq
<1>11. QED
  BY <1>3, <1>8, <1>9, <1>10 DEF Books, OneEach, EachOnce, Carries, all

-----------------------------------------------------------------------------
(* The inductive invariant. *)

KeysAreVoices == \A k \in keys : KeyIsVoice(voices, k)
VoicesAreHeld ==
  \A i \in 1..Len(voices) : voices[i].note \in fingers \/ (~bus /\ bound = "classic")
OnlyWhenBound == bound # "classic" => voices = << >> /\ known = NothingKnown

IInv ==
  /\ TypeOK
  /\ Books(voices, free)
  /\ KeysAreVoices
  /\ VoicesAreHeld
  /\ KnownIsTrue
  /\ OnlyWhenBound

\* The books, said with the indices of the sequences.
LEMMA SameBooks ==
  ASSUME voices \in Seq(Voices), free \in Seq(Members)
  PROVE  /\ DOMAIN voices = 1..Len(voices)
         /\ Books(voices, free) => EachChannelOnce
<1>1. DOMAIN voices = 1..Len(voices) /\ DOMAIN free = 1..Len(free)
  BY LenProperties
<1>2. ASSUME Books(voices, free) PROVE EachChannelOnce
  <2>1. IsInjective(free)
    BY <1>1, <1>2 DEF Books, EachOnce, IsInjective
  <2>2. \A c : c \in Used <=> Carries(voices, c)
    BY <1>1 DEF Used, Carries
  <2>3. \A c : c \in Range(free) <=> IsFree(free, c)
    BY <1>1 DEF Range, IsFree
  <2>4. Used \subseteq Members
    <3>1. \A i \in 1..Len(voices) : voices[i] \in Voices
      BY ElementOfSeq
    <3>2. QED
      BY <1>1, <3>1 DEF Used, Voices
  <2>5. Range(free) \subseteq Members
    BY <1>1, ElementOfSeq DEF Range
  <2>6. Range(free) \cap Used = {} /\ Range(free) \cup Used = Members
    BY <1>2, <2>2, <2>3, <2>4, <2>5 DEF Books
  <2>7. QED
    BY <1>1, <1>2, <2>1, <2>6 DEF EachChannelOnce, Books, OneEach
<1>3. QED
  BY <1>1, <1>2

\* Where a sounding note's voice is.
LEMMA VoiceOfIs ==
  ASSUME voices \in Seq(Voices), NEW n, IsActive(n)
  PROVE  VoiceOf(n) \in 1..Len(voices) /\ voices[VoiceOf(n)].note = n
<1>1. DOMAIN voices = 1..Len(voices)
  BY LenProperties
<1>2. \E i \in DOMAIN voices : voices[i].note = n
  BY DEF IsActive
<1>3. VoiceOf(n) \in DOMAIN voices /\ voices[VoiceOf(n)].note = n
  BY <1>2 DEF VoiceOf
<1>4. QED
  BY <1>1, <1>3

\* Releasing note n keeps the books; the voices and the keys of the other notes stay.
LEMMA Releasing ==
  ASSUME voices \in Seq(Voices), free \in Seq(Members), Books(voices, free),
         KeysAreVoices, NEW n \in Notes
  PROVE  /\ VoicesWithout(n) \in Seq(Voices)
         /\ FreeWith(n) \in Seq(Members)
         /\ Books(VoicesWithout(n), FreeWith(n))
         /\ ~NoteSounds(VoicesWithout(n), n)
         /\ \A j \in 1..Len(VoicesWithout(n)) :
              \E i \in 1..Len(voices) : VoicesWithout(n)[j] = voices[i]
         /\ \A k \in keys \ OffsOf(n) : KeyIsVoice(VoicesWithout(n), k)
<1>1. CASE IsActive(n)
  <2> DEFINE i == VoiceOf(n)
  <2>1. i \in 1..Len(voices) /\ voices[i].note = n
    BY <1>1, VoiceOfIs
  <2>2. /\ VoicesWithout(n) = RemoveAt(voices, i)
        /\ FreeWith(n) = Append(free, voices[i].channel)
        /\ OffsOf(n) = {<<voices[i].channel, voices[i].note>>}
    BY <1>1 DEF VoicesWithout, FreeWith, OffsOf, OffOf
  <2> HIDE DEF i
  <2>3. voices[i].channel \in Members
    <3>1. voices[i] \in Voices
      BY <2>1, ElementOfSeq
    <3>2. QED
      BY <3>1 DEF Voices
  <2>4. Append(free, voices[i].channel) \in Seq(Members)
    BY <2>3, AppendProperties
  <2>5. /\ RemoveAt(voices, i) \in Seq(Voices)
        /\ \A j \in 1..Len(RemoveAt(voices, i)) :
             \E k \in 1..Len(voices) : k # i /\ RemoveAt(voices, i)[j] = voices[k]
        /\ \A k \in 1..Len(voices) :
             k # i => \E j \in 1..Len(RemoveAt(voices, i)) : RemoveAt(voices, i)[j] = voices[k]
    BY <2>1, OthersStay
  <2>6. /\ Books(RemoveAt(voices, i), Append(free, voices[i].channel))
        /\ ~NoteSounds(RemoveAt(voices, i), n)
    BY <2>1, BooksRelease
  <2>7. ASSUME NEW k \in keys \ OffsOf(n) PROVE KeyIsVoice(RemoveAt(voices, i), k)
    <3>1. PICK j \in 1..Len(voices) : k = <<voices[j].channel, voices[j].note>>
      BY <2>7 DEF KeysAreVoices, KeyIsVoice
    <3>2. j # i
      BY <2>2, <2>7, <3>1
    <3>3. PICK m \in 1..Len(RemoveAt(voices, i)) : RemoveAt(voices, i)[m] = voices[j]
      BY <2>5, <3>2
    <3>4. QED
      BY <3>1, <3>3 DEF KeyIsVoice
  <2>8. QED
    BY <2>2, <2>4, <2>5, <2>6, <2>7
<1>2. CASE ~IsActive(n)
  <2>1. VoicesWithout(n) = voices /\ FreeWith(n) = free
    BY <1>2 DEF VoicesWithout, FreeWith
  <2>2. ~NoteSounds(voices, n)
    BY <1>2, LenProperties DEF IsActive, NoteSounds
  <2>3. QED
    BY <2>1, <2>2 DEF KeysAreVoices
<1>3. QED
  BY <1>1, <1>2

\* Releasing every voice leaves no note down.
LEMMA ReleasingAll ==
  ASSUME voices \in Seq(Voices), KeysAreVoices
  PROVE  keys \ AllOffs = {}
<1>1. DOMAIN voices = 1..Len(voices)
  BY LenProperties
<1>2. ASSUME NEW k \in keys PROVE k \in AllOffs
  <2>1. PICK i \in 1..Len(voices) : k = <<voices[i].channel, voices[i].note>>
    BY <1>2 DEF KeysAreVoices, KeyIsVoice
  <2>2. QED
    BY <1>1, <2>1 DEF AllOffs, OffOf
<1>3. QED
  BY <1>2

-----------------------------------------------------------------------------
(* The values that are sent. *)

\* Division leaves a remainder.
LEMMA Divided ==
  ASSUME NEW x \in Int, NEW d \in Nat \ {0}
  PROVE  x \div d \in Int /\ x % d \in 0..(d - 1) /\ x = d * (x \div d) + (x % d)
BY SMT

\* A bend sent on says the pitch the wheel meant, to within half a step of what 14 bits can
\* say, unless the wheel means more than Surge's range: then it is the end of the range
\* (scale_bend, and the symptom in the plan that it is there to cure).
THEOREM BendKeepsPitch ==
  ASSUME NEW w \in Int, NEW r \in Nat
  PROVE  /\ ScaleBend(w, r) \in (-BendMax - 1)..BendMax
         /\ \/ ScaleBend(w, r) \in {-BendMax - 1, BendMax}
            \/ /\ 2 * (ScaleBend(w, r) * TargetRange - w * r) <= TargetRange
               /\ 2 * (w * r - ScaleBend(w, r) * TargetRange) <= TargetRange
<1> DEFINE wr == w * r
           doubled == 2 * wr + TargetRange
           up == doubled \div (2 * TargetRange)
           rest == doubled % (2 * TargetRange)
           rounded == IF rest = 0 /\ up % 2 = 1 THEN up - 1 ELSE up
<1>1. TargetRange \in Nat \ {0} /\ BendMax \in Nat /\ 2 * TargetRange \in Nat \ {0}
  BY BendAssumption
<1>2. wr \in Int /\ 2 * w * r = 2 * wr
  BY SMT
<1> HIDE DEF wr
<1>3. doubled \in Int
  BY <1>1, <1>2
<1>4. /\ up \in Int /\ rest \in 0..(2 * TargetRange - 1)
      /\ doubled = (2 * TargetRange) * up + rest
  BY <1>1, <1>3, Divided
<1>5. ScaleBend(w, r) = CASE rounded > BendMax -> BendMax
                          [] rounded < -BendMax - 1 -> -BendMax - 1
                          [] OTHER -> rounded
  BY <1>2 DEF ScaleBend
<1> HIDE DEF up, rest
<1>6. rounded \in Int
  BY <1>4
<1>7. /\ 2 * (rounded * TargetRange - wr) <= TargetRange
      /\ 2 * (wr - rounded * TargetRange) <= TargetRange
  <2> DEFINE product == TargetRange * up
  <2>1. product \in Int /\ (2 * TargetRange) * up = 2 * product
    BY <1>1, <1>4, SMT
  <2>2. up * TargetRange = product /\ (up - 1) * TargetRange = product - TargetRange
    BY <1>1, <1>4, SMT
  <2> HIDE DEF product
  <2>3. CASE rounded = up
    BY <1>1, <1>2, <1>4, <2>1, <2>2, <2>3
  <2>4. CASE rest = 0 /\ rounded = up - 1
    BY <1>1, <1>2, <1>4, <2>1, <2>2, <2>4
  <2>5. QED
    BY <2>3, <2>4
<1> HIDE DEF rounded
<1>8. CASE rounded > BendMax
  BY <1>1, <1>5, <1>8
<1>9. CASE rounded < -BendMax - 1
  BY <1>1, <1>5, <1>6, <1>9
<1>10. CASE rounded \in (-BendMax - 1)..BendMax
  <2>1. ScaleBend(w, r) = rounded
    BY <1>1, <1>5, <1>10
  <2>2. QED
    BY <1>7, <1>10, <2>1 DEF wr
<1>11. QED
  BY <1>1, <1>6, <1>8, <1>9, <1>10

LEMMA BendsMade ==
  ASSUME NEW w \in Wheel, NEW r \in Ranges
  PROVE  ScaleBend(w, r) \in Bends
BY DEF Bends

\* What a channel is sent at rest, and what a new translator knows, have their types.
LEMMA RestTyped == /\ AtRest \in Values /\ AtRest \in Beliefs
                   /\ NewZone \in Zones
                   /\ NothingKnown \in [Members -> Beliefs]
<1>1. ScaleBend(0, DefaultRange) \in Bends
  BY RestAssumption, BendsMade
<1>2. AtRest \in Values /\ AtRest \in Beliefs
  BY <1>1, RestAssumption DEF AtRest, Values, Beliefs
<1>3. NewZone \in Zones
  BY RestAssumption DEF NewZone, Zones
<1>4. [f \in Fields |-> Unknown] \in Beliefs
  <2>1. [f \in Fields |-> Unknown]
          = [bend |-> Unknown, pressure |-> Unknown, timbre |-> Unknown]
    BY DEF Fields
  <2>2. QED
    BY <2>1 DEF Beliefs
<1>5. NothingKnown \in [Members -> Beliefs]
  BY <1>4 DEF NothingKnown
<1>6. QED
  BY <1>2, <1>3, <1>5

\* A channel made ready for a note has its type, agrees with what is believed of it, and
\* holds what the zone says.
LEMMA Priming ==
  ASSUME zone \in Zones, known \in [Members -> Beliefs], chan \in [Members -> Values],
         KnownIsTrue, NEW c \in Members
  PROVE  /\ Primed(c) \in Values /\ PrimedBelief(c) \in Beliefs
         /\ \A f \in Fields : PrimedBelief(c)[f] \in {Unknown, Primed(c)[f]}
         /\ Primed(c).bend = ZoneBend
         /\ Primed(c).pressure = zone.pressure
         /\ zone.timbre # Unknown => Primed(c).timbre = zone.timbre
<1>1. /\ zone.wheel \in Wheel /\ zone.range \in Ranges /\ zone.pressure \in Pressures
      /\ zone.timbre \in Timbres \cup {Unknown}
  BY DEF Zones
<1>2. ZoneBend \in Bends
  BY <1>1, BendsMade DEF ZoneBend
<1>3. /\ chan[c] \in Values
      /\ chan[c].bend \in Bends /\ chan[c].pressure \in Pressures /\ chan[c].timbre \in Timbres
  BY DEF Values
<1>4. /\ known[c] \in Beliefs
      /\ known[c].timbre \in Timbres \cup {Unknown}
  BY DEF Beliefs
<1>5. /\ known[c].bend \in {Unknown, chan[c].bend}
      /\ known[c].pressure \in {Unknown, chan[c].pressure}
      /\ known[c].timbre \in {Unknown, chan[c].timbre}
  <2>1. \A f \in Fields : known[c][f] \in {Unknown, chan[c][f]}
    BY DEF KnownIsTrue
  <2>2. QED
    BY <2>1 DEF Fields
<1>6. Primed(c).bend = ZoneBend
  BY <1>2, <1>5, UnknownAssumption DEF Primed
<1>7. Primed(c).pressure = zone.pressure
  BY <1>1, <1>5, UnknownAssumption DEF Primed
<1>8. zone.timbre # Unknown => Primed(c).timbre = zone.timbre
  BY <1>1, <1>5 DEF Primed
<1>9. Primed(c) \in Values
  BY <1>1, <1>2, <1>3 DEF Primed, Values
<1>10. PrimedBelief(c) \in Beliefs
  BY <1>1, <1>2, <1>4 DEF PrimedBelief, Beliefs
<1>11. PrimedBelief(c).timbre \in {Unknown, Primed(c).timbre}
  BY <1>5, <1>8 DEF PrimedBelief, Primed
<1>12. ASSUME NEW f \in Fields PROVE PrimedBelief(c)[f] \in {Unknown, Primed(c)[f]}
  BY <1>6, <1>7, <1>11 DEF PrimedBelief, Fields
<1>13. QED
  BY <1>6, <1>7, <1>8, <1>9, <1>10, <1>12

\* A value sent to the sounding channels keeps the types and the truth of the beliefs.
LEMMA Broadcasting ==
  ASSUME known \in [Members -> Beliefs], chan \in [Members -> Values], KnownIsTrue,
         NEW f \in Fields, NEW v,
         \/ f = "bend" /\ v \in Bends
         \/ f = "pressure" /\ v \in Pressures
         \/ f = "timbre" /\ v \in Timbres,
         Broadcast(f, v)
  PROVE  known' \in [Members -> Beliefs] /\ chan' \in [Members -> Values] /\ KnownIsTrue'
<1>1. /\ known' = [c \in Members |-> IF c \in Used THEN [known[c] EXCEPT ![f] = v] ELSE known[c]]
      /\ chan' = [c \in Members |-> IF c \in Used THEN [chan[c] EXCEPT ![f] = v] ELSE chan[c]]
  BY DEF Broadcast
<1>2. \A c \in Members : known[c] \in Beliefs /\ chan[c] \in Values
  OBVIOUS
<1>3. ASSUME NEW c \in Members
      PROVE  /\ known'[c] \in Beliefs /\ chan'[c] \in Values
             /\ \A g \in Fields : known'[c][g] \in {Unknown, chan'[c][g]}
  <2>1. CASE c \in Used
    <3>1. known'[c] = [known[c] EXCEPT ![f] = v] /\ chan'[c] = [chan[c] EXCEPT ![f] = v]
      BY <1>1, <2>1
    <3>2. /\ known'[c] \in Beliefs /\ chan'[c] \in Values
          /\ \A g \in Fields : chan'[c][g] = IF g = f THEN v ELSE chan[c][g]
          /\ \A g \in Fields : known'[c][g] = IF g = f THEN v ELSE known[c][g]
      <4>1. chan[c] \in Values /\ known[c] \in Beliefs
        BY <1>2
      <4>2. /\ [chan[c] EXCEPT ![f] = v] \in Values
            /\ [known[c] EXCEPT ![f] = v] \in Beliefs
            /\ \A g \in Fields : [chan[c] EXCEPT ![f] = v][g] = IF g = f THEN v ELSE chan[c][g]
            /\ \A g \in Fields : [known[c] EXCEPT ![f] = v][g] = IF g = f THEN v ELSE known[c][g]
        BY <4>1 DEF Values, Beliefs, Fields
      <4>3. QED
        BY <3>1, <4>2
    <3>3. QED
      BY <3>2 DEF KnownIsTrue
  <2>2. CASE c \notin Used
    <3>1. known'[c] = known[c] /\ chan'[c] = chan[c]
      BY <1>1, <2>2
    <3>2. QED
      BY <1>2, <3>1 DEF KnownIsTrue
  <2>3. QED
    BY <2>1, <2>2
<1>4. known' \in [Members -> Beliefs] /\ chan' \in [Members -> Values]
  BY <1>1, <1>3
<1>5. QED
  BY <1>3, <1>4 DEF KnownIsTrue

\* What priming alone sees to: the timbre only once the keyboard has sent one.
StartsPrimed(k) ==
  /\ bound = "classic"
  /\ chan[k[1]].bend = ZoneBend
  /\ chan[k[1]].pressure = zone.pressure
  /\ zone.timbre # Unknown => chan[k[1]].timbre = zone.timbre

\* One channel is made ready and its note starts.
LEMMA Starting ==
  ASSUME zone \in Zones, known \in [Members -> Beliefs], chan \in [Members -> Values],
         KnownIsTrue, keys \subseteq Members \X Notes,
         NEW c \in Members, NEW n \in Notes, NEW offs, StartVoice(n, c, offs)
  PROVE  /\ known' \in [Members -> Beliefs] /\ chan' \in [Members -> Values]
         /\ KnownIsTrue'
         /\ keys' \subseteq Members \X Notes
         /\ ringing' \in BOOLEAN
         /\ zone' = zone /\ bound' = "classic" => \A k \in keys' \ keys : StartsPrimed(k)'
<1>1. /\ chan' = [chan EXCEPT ![c] = Primed(c)]
      /\ known' = [known EXCEPT ![c] = PrimedBelief(c)]
      /\ keys' = (keys \ offs) \cup {<<c, n>>}
      /\ ringing' = (ringing \/ (pedal /\ keys \cap offs # {}))
  BY DEF StartVoice
<1>2. /\ Primed(c) \in Values /\ PrimedBelief(c) \in Beliefs
      /\ \A f \in Fields : PrimedBelief(c)[f] \in {Unknown, Primed(c)[f]}
      /\ Primed(c).bend = ZoneBend
      /\ Primed(c).pressure = zone.pressure
      /\ zone.timbre # Unknown => Primed(c).timbre = zone.timbre
  BY Priming
<1>3. known' \in [Members -> Beliefs] /\ chan' \in [Members -> Values]
  BY <1>1, <1>2
<1>4. chan'[c] = Primed(c) /\ known'[c] = PrimedBelief(c)
  BY <1>1
<1>5. ASSUME NEW d \in Members, NEW f \in Fields
      PROVE  known'[d][f] \in {Unknown, chan'[d][f]}
  <2>1. CASE d = c
    BY <1>2, <1>4, <2>1
  <2>2. CASE d # c
    <3>1. chan'[d] = chan[d] /\ known'[d] = known[d]
      BY <1>1, <2>2
    <3>2. QED
      BY <3>1 DEF KnownIsTrue
  <2>3. QED
    BY <2>1, <2>2
<1>6. ASSUME zone' = zone, bound' = "classic", NEW k \in keys' \ keys PROVE StartsPrimed(k)'
  <2>1. k[1] = c
    BY <1>1, <1>6
  <2>2. ZoneBend' = ZoneBend
    BY <1>6 DEF ZoneBend
  <2>3. /\ chan'[k[1]].bend = ZoneBend
        /\ chan'[k[1]].pressure = zone.pressure
        /\ zone.timbre # Unknown => chan'[k[1]].timbre = zone.timbre
    BY <1>2, <1>4, <2>1
  <2>4. QED
    BY <1>6, <2>2, <2>3 DEF StartsPrimed
<1>7. keys' \subseteq Members \X Notes
  BY <1>1
<1>8. ringing' \in BOOLEAN
  BY <1>1
<1>9. QED
  BY <1>3, <1>5, <1>6, <1>7, <1>8 DEF KnownIsTrue

\* A channel that no voice and no belief is about may hold anything that can be sent.
LEMMA Unbelieved ==
  ASSUME known' = NothingKnown
  PROVE  known' \in [Members -> Beliefs] /\ KnownIsTrue'
<1>1. known' \in [Members -> Beliefs]
  BY RestTyped
<1>2. \A c \in Members, f \in Fields : known'[c][f] = Unknown
  BY DEF NothingKnown
<1>3. QED
  BY <1>1, <1>2 DEF KnownIsTrue

\* An MPE keyboard's message leaves a channel holding something that can be sent.
LEMMA ChannelWritten ==
  ASSUME chan \in [Members -> Values], NEW c \in Members
  PROVE  /\ \A b \in Bends : [chan EXCEPT ![c].bend = b] \in [Members -> Values]
         /\ \A p \in Pressures : [chan EXCEPT ![c].pressure = p] \in [Members -> Values]
         /\ \A v \in Timbres : [chan EXCEPT ![c].timbre = v] \in [Members -> Values]
BY DEF Values

\* The binding is given up: nothing is down, every channel is free.
LEMMA GivenUp ==
  ASSUME TypeOK, KeysAreVoices, Released, NoTranslator
  PROVE  /\ voices' \in Seq(Voices) /\ free' \in Seq(Members) /\ zone' \in Zones
         /\ keys' = {} /\ ringing' \in BOOLEAN
         /\ voices' = << >> /\ Len(voices') = 0
         /\ Books(voices', free') /\ KeysAreVoices' /\ VoicesAreHeld'
<1>1. keys' = {}
  BY ReleasingAll DEF Released, KeysUp, TypeOK
<1>2. ringing' \in BOOLEAN
  BY DEF Released, KeysUp, TypeOK
<1>3. voices' = << >> /\ free' = MemberChannels /\ zone' = NewZone
  BY DEF NoTranslator
<1>4. voices' \in Seq(Voices) /\ Len(voices') = 0
  BY <1>3, EmptySeq
<1>5. free' \in Seq(Members) /\ Books(voices', free')
  BY <1>3, BooksFresh
<1>6. VoicesAreHeld'
  BY <1>4 DEF VoicesAreHeld
<1>7. KeysAreVoices'
  BY <1>1 DEF KeysAreVoices
<1>8. zone' \in Zones
  BY <1>3, RestTyped
<1>9. QED
  BY <1>1, <1>2, <1>3, <1>4, <1>5, <1>6, <1>7, <1>8

-----------------------------------------------------------------------------
(* Each action preserves the invariant, and primes the channels of the notes it starts. *)

NewNotesPrimed == \A k \in keys' \ keys : StartsPrimed(k)'

LEMMA NoteOnStep ==
  ASSUME IInv, NEW n \in Notes, NoteOn(n)
  PROVE  IInv' /\ NewNotesPrimed
<1> DEFINE c == Head(FreeWith(n))
           vs == VoicesWithout(n)
           v == [note |-> n, channel |-> c]
<1> USE DEF IInv
<1>1. /\ bus /\ bound = "classic" /\ FreeWith(n) # << >>
      /\ StartVoice(n, c, OffsOf(n))
      /\ voices' = Append(vs, v) /\ free' = Tail(FreeWith(n))
      /\ fingers' = fingers \cup {n}
      /\ zone' = zone /\ steal' = steal /\ bus' = bus /\ bound' = bound /\ pedal' = pedal
      /\ left' = left
  BY DEF NoteOn, Heard
<1>2. voices \in Seq(Voices) /\ free \in Seq(Members)
  BY DEF TypeOK
<1>3. /\ vs \in Seq(Voices) /\ FreeWith(n) \in Seq(Members) /\ Books(vs, FreeWith(n))
      /\ ~NoteSounds(vs, n)
      /\ \A j \in 1..Len(vs) : \E i \in 1..Len(voices) : vs[j] = voices[i]
      /\ \A k \in keys \ OffsOf(n) : KeyIsVoice(vs, k)
  BY <1>2, Releasing
<1> HIDE DEF vs
<1>4. /\ c \in Members /\ free' \in Seq(Members) /\ ~Carries(vs, c)
      /\ voices' \in Seq(Voices) /\ Books(voices', free')
  BY <1>1, <1>3, BooksTake
<1>5. OneEach(vs)
  BY <1>3 DEF Books
<1>6. /\ Len(voices') = Len(vs) + 1 /\ voices'[Len(vs) + 1] = v
      /\ \A i \in 1..Len(vs) : voices'[i] = vs[i]
  BY <1>1, <1>3, <1>4, <1>5, VoiceAdded
<1>7. Len(vs) \in Nat
  BY <1>3, LenProperties
<1> HIDE DEF c
<1>8. v.note = n /\ v.channel = c
  OBVIOUS
<1> HIDE DEF v
<1>9. /\ known' \in [Members -> Beliefs] /\ chan' \in [Members -> Values] /\ KnownIsTrue'
      /\ keys' \subseteq Members \X Notes /\ ringing' \in BOOLEAN
      /\ NewNotesPrimed
  <2>1. /\ zone \in Zones /\ known \in [Members -> Beliefs] /\ chan \in [Members -> Values]
        /\ keys \subseteq Members \X Notes
    BY DEF TypeOK
  <2>2. QED
    BY <1>1, <1>4, <2>1, Starting DEF NewNotesPrimed
<1>10. TypeOK'
  <2>1. /\ zone' \in Zones /\ steal' \in Policies /\ bus' \in BOOLEAN
        /\ left' \in [Members -> Timbres \cup {Unknown}]
        /\ bound' \in {"none", "classic", "mpe"} /\ fingers' \subseteq Notes
        /\ pedal' \in BOOLEAN
    BY <1>1 DEF TypeOK
  <2>2. QED
    BY <1>4, <1>9, <2>1 DEF TypeOK
<1>11. ASSUME NEW k \in keys' PROVE KeyIsVoice(voices', k)
  <2>1. CASE k \in keys \ OffsOf(n)
    <3>1. PICK i \in 1..Len(vs) : k = <<vs[i].channel, vs[i].note>>
      BY <1>3, <2>1 DEF KeyIsVoice
    <3>2. i \in 1..Len(voices') /\ voices'[i] = vs[i]
      BY <1>6, <1>7
    <3>3. QED
      BY <3>1, <3>2 DEF KeyIsVoice
  <2>2. CASE k = <<c, n>>
    <3>1. Len(vs) + 1 \in 1..Len(voices')
      BY <1>6, <1>7
    <3>2. k = <<voices'[Len(vs) + 1].channel, voices'[Len(vs) + 1].note>>
      BY <1>6, <1>8, <2>2
    <3>3. QED
      BY <3>1, <3>2 DEF KeyIsVoice
  <2>3. QED
    BY <1>1, <1>11, <2>1, <2>2 DEF StartVoice
<1>12. ASSUME NEW i \in 1..Len(voices') PROVE voices'[i].note \in fingers'
  <2>1. CASE i \in 1..Len(vs)
    <3>1. PICK j \in 1..Len(voices) : vs[i] = voices[j]
      BY <1>3, <2>1
    <3>2. voices[j].note \in fingers
      BY <1>1 DEF VoicesAreHeld
    <3>3. QED
      BY <1>1, <1>6, <2>1, <3>1, <3>2
  <2>2. CASE i = Len(vs) + 1
    BY <1>1, <1>6, <1>8, <2>2
  <2>3. QED
    BY <1>6, <1>7, <2>1, <2>2
<1>13. KeysAreVoices' /\ VoicesAreHeld'
  BY <1>11, <1>12 DEF KeysAreVoices, VoicesAreHeld
<1>14. OnlyWhenBound'
  BY <1>1 DEF OnlyWhenBound
<1>15. QED
  BY <1>4, <1>9, <1>10, <1>13, <1>14

LEMMA NoteOnStealsStep ==
  ASSUME IInv, NEW n \in Notes, NoteOnSteals(n)
  PROVE  IInv' /\ NewNotesPrimed
<1> DEFINE vs == RemoveAt(voices, Victim)
           c == voices[Victim].channel
           v == [note |-> n, channel |-> c]
<1> USE DEF IInv
<1>1. /\ bus /\ bound = "classic" /\ FreeWith(n) = << >>
      /\ StartVoice(n, c, VictimOff(Victim))
      /\ voices' = Append(vs, v) /\ free' = free
      /\ fingers' = fingers \cup {n}
      /\ zone' = zone /\ steal' = steal /\ bus' = bus /\ bound' = bound /\ pedal' = pedal
      /\ left' = left
  BY DEF NoteOnSteals, Heard
<1>2. voices \in Seq(Voices) /\ free \in Seq(Members) /\ Len(voices) \in Nat
  BY LenProperties DEF TypeOK
<1>3. ~IsActive(n) /\ free = << >>
  BY <1>1, <1>2, AppendProperties, EmptySeq DEF FreeWith
<1>4. Len(voices) # 0
  <2>1. PICK d \in Members : TRUE
    <3>1. MemberChannels \in Seq(Members) /\ MemberChannels # << >>
      BY BooksFresh
    <3>2. Head(MemberChannels) \in Members
      BY <3>1, HeadTailProperties
    <3>3. QED
      BY <3>2
  <2>2. ~IsFree(free, d)
    BY <1>3, EmptySeq DEF IsFree
  <2>3. Carries(voices, d)
    BY <2>2 DEF Books
  <2>4. QED
    BY <2>3 DEF Carries
<1>5. Victim \in 1..Len(voices)
  BY <1>2, <1>4 DEF Victim
<1>6. ~NoteSounds(voices, n)
  BY <1>2, <1>3, LenProperties DEF IsActive, NoteSounds
<1>7. voices' \in Seq(Voices) /\ Books(voices', free')
  BY <1>1, <1>2, <1>5, <1>6, BooksSteal
<1>8. /\ vs \in Seq(Voices)
      /\ \A j \in 1..Len(vs) : \E i \in 1..Len(voices) : i # Victim /\ vs[j] = voices[i]
      /\ \A i \in 1..Len(voices) : i # Victim => \E j \in 1..Len(vs) : vs[j] = voices[i]
  BY <1>2, <1>5, OthersStay
<1>9. OneEach(vs) /\ ~Carries(vs, c)
  BY <1>2, <1>5, RestIsOneEach, BooksRelease DEF Books
<1>10. ~NoteSounds(vs, n)
  BY <1>6, <1>8 DEF NoteSounds
<1>11. c \in Members
  <2>1. voices[Victim] \in Voices
    BY <1>2, <1>5, ElementOfSeq
  <2>2. QED
    BY <2>1 DEF Voices
<1> HIDE DEF vs, c
<1>12. /\ Len(voices') = Len(vs) + 1 /\ voices'[Len(vs) + 1] = v
       /\ \A i \in 1..Len(vs) : voices'[i] = vs[i]
  BY <1>1, <1>8, <1>9, <1>10, <1>11, VoiceAdded
<1>13. Len(vs) \in Nat
  BY <1>8, LenProperties
<1>14. v.note = n /\ v.channel = c
  OBVIOUS
<1> HIDE DEF v
<1>15. /\ known' \in [Members -> Beliefs] /\ chan' \in [Members -> Values] /\ KnownIsTrue'
       /\ keys' \subseteq Members \X Notes /\ ringing' \in BOOLEAN
       /\ NewNotesPrimed
  <2>1. /\ zone \in Zones /\ known \in [Members -> Beliefs] /\ chan \in [Members -> Values]
        /\ keys \subseteq Members \X Notes
    BY DEF TypeOK
  <2>2. QED
    BY <1>1, <1>11, <2>1, Starting DEF NewNotesPrimed
<1>16. TypeOK'
  <2>1. /\ zone' \in Zones /\ steal' \in Policies /\ bus' \in BOOLEAN
        /\ left' \in [Members -> Timbres \cup {Unknown}]
        /\ bound' \in {"none", "classic", "mpe"} /\ fingers' \subseteq Notes
        /\ pedal' \in BOOLEAN /\ free' \in Seq(Members)
    BY <1>1 DEF TypeOK
  <2>2. QED
    BY <1>7, <1>15, <2>1 DEF TypeOK
<1>17. ASSUME NEW k \in keys' PROVE KeyIsVoice(voices', k)
  <2>1. CASE k \in keys \ VictimOff(Victim)
    <3>1. PICK i \in 1..Len(voices) : k = <<voices[i].channel, voices[i].note>>
      BY <2>1 DEF KeysAreVoices, KeyIsVoice
    <3>2. i # Victim
      BY <2>1, <3>1 DEF VictimOff, OffOf
    <3>3. PICK j \in 1..Len(vs) : vs[j] = voices[i]
      BY <1>8, <3>2
    <3>4. j \in 1..Len(voices') /\ voices'[j] = voices[i]
      BY <1>12, <1>13, <3>3
    <3>5. QED
      BY <3>1, <3>4 DEF KeyIsVoice
  <2>2. CASE k = <<c, n>>
    <3>1. Len(vs) + 1 \in 1..Len(voices')
      BY <1>12, <1>13
    <3>2. k = <<voices'[Len(vs) + 1].channel, voices'[Len(vs) + 1].note>>
      BY <1>12, <1>14, <2>2
    <3>3. QED
      BY <3>1, <3>2 DEF KeyIsVoice
  <2>3. QED
    BY <1>1, <1>17, <2>1, <2>2 DEF StartVoice
<1>18. ASSUME NEW i \in 1..Len(voices') PROVE voices'[i].note \in fingers'
  <2>1. CASE i \in 1..Len(vs)
    <3>1. PICK j \in 1..Len(voices) : vs[i] = voices[j]
      BY <1>8, <2>1
    <3>2. voices[j].note \in fingers
      BY <1>1 DEF VoicesAreHeld
    <3>3. QED
      BY <1>1, <1>12, <2>1, <3>1, <3>2
  <2>2. CASE i = Len(vs) + 1
    BY <1>1, <1>12, <1>14, <2>2
  <2>3. QED
    BY <1>12, <1>13, <2>1, <2>2
<1>19. KeysAreVoices' /\ VoicesAreHeld'
  BY <1>17, <1>18 DEF KeysAreVoices, VoicesAreHeld
<1>20. OnlyWhenBound'
  BY <1>1 DEF OnlyWhenBound
<1>21. QED
  BY <1>7, <1>15, <1>16, <1>19, <1>20

LEMMA NoteOffStep ==
  ASSUME IInv, NEW n \in Notes, NoteOff(n)
  PROVE  IInv' /\ NewNotesPrimed
<1> USE DEF IInv
<1>1. /\ fingers' = fingers \ {n}
      /\ zone' = zone /\ known' = known /\ steal' = steal /\ bus' = bus
      /\ bound' = bound /\ chan' = chan /\ pedal' = pedal /\ left' = left
  BY DEF NoteOff
<1>2. KnownIsTrue'
  BY <1>1 DEF KnownIsTrue
<1>3. CASE bound = "classic"
  <2> DEFINE vs == VoicesWithout(n)
  <2>1. voices' = vs /\ free' = FreeWith(n) /\ KeysUp(OffsOf(n))
    BY <1>3 DEF NoteOff
  <2>2. voices \in Seq(Voices) /\ free \in Seq(Members)
    BY DEF TypeOK
  <2>3. /\ vs \in Seq(Voices) /\ FreeWith(n) \in Seq(Members) /\ Books(vs, FreeWith(n))
        /\ ~NoteSounds(vs, n)
        /\ \A j \in 1..Len(vs) : \E i \in 1..Len(voices) : vs[j] = voices[i]
        /\ \A k \in keys \ OffsOf(n) : KeyIsVoice(vs, k)
    BY <2>2, Releasing
  <2> HIDE DEF vs
  <2>4. keys' = keys \ OffsOf(n) /\ ringing' \in BOOLEAN
    BY <2>1 DEF KeysUp, TypeOK
  <2>5. TypeOK'
    <3>1. /\ zone' \in Zones /\ known' \in [Members -> Beliefs] /\ steal' \in Policies
          /\ bus' \in BOOLEAN /\ bound' \in {"none", "classic", "mpe"}
          /\ fingers' \subseteq Notes /\ chan' \in [Members -> Values] /\ pedal' \in BOOLEAN
          /\ left' \in [Members -> Timbres \cup {Unknown}]
      BY <1>1 DEF TypeOK
    <3>2. keys' \subseteq Members \X Notes
      BY <2>4 DEF TypeOK
    <3>3. QED
      BY <2>1, <2>3, <2>4, <3>1, <3>2 DEF TypeOK
  <2>6. Books(voices', free') /\ KeysAreVoices'
    BY <2>1, <2>3, <2>4 DEF KeysAreVoices
  <2>7. ASSUME NEW i \in 1..Len(voices')
        PROVE  voices'[i].note \in fingers' \/ (~bus' /\ bound' = "classic")
    <3>1. PICK j \in 1..Len(voices) : vs[i] = voices[j]
      BY <2>1, <2>3
    <3>2. voices[j].note \in fingers \/ (~bus /\ bound = "classic")
      BY DEF VoicesAreHeld
    <3>3. vs[i].note # n
      BY <2>1, <2>3 DEF NoteSounds
    <3>4. QED
      BY <1>1, <2>1, <3>1, <3>2, <3>3
  <2>8. VoicesAreHeld'
    BY <2>7 DEF VoicesAreHeld
  <2>9. OnlyWhenBound'
    BY <1>1, <1>3 DEF OnlyWhenBound
  <2>10. NewNotesPrimed
    BY <2>4 DEF NewNotesPrimed
  <2>11. QED
    BY <1>2, <2>5, <2>6, <2>8, <2>9, <2>10
<1>4. CASE bound # "classic"
  <2>1. voices' = voices /\ free' = free /\ keys' = keys /\ ringing' = ringing
    BY <1>4 DEF NoteOff
  <2>2. TypeOK'
    BY <1>1, <2>1 DEF TypeOK
  <2>3. voices = << >> /\ known = NothingKnown
    BY <1>4 DEF OnlyWhenBound
  <2>4. Len(voices') = 0
    BY <2>1, <2>3, EmptySeq
  <2>5. VoicesAreHeld'
    BY <2>4 DEF VoicesAreHeld
  <2>6. KeysAreVoices' /\ Books(voices', free') /\ NewNotesPrimed
    BY <2>1 DEF KeysAreVoices, NewNotesPrimed
  <2>7. OnlyWhenBound'
    BY <1>1, <2>1, <2>3 DEF OnlyWhenBound
  <2>8. QED
    BY <1>2, <2>2, <2>5, <2>6, <2>7
<1>5. QED
  BY <1>3, <1>4

\* What the keyboard says of all its notes: the books do not change.
LEMMA BooksUntouched ==
  ASSUME IInv, voices' = voices, free' = free, keys' = keys, fingers' = fingers,
         bus' = bus, bound' = bound
  PROVE  /\ voices' \in Seq(Voices) /\ free' \in Seq(Members) /\ Books(voices', free')
         /\ keys' \subseteq Members \X Notes /\ fingers' \subseteq Notes /\ bus' \in BOOLEAN
         /\ bound' \in {"none", "classic", "mpe"}
         /\ KeysAreVoices' /\ VoicesAreHeld' /\ NewNotesPrimed
<1>1. KeysAreVoices' /\ VoicesAreHeld' /\ NewNotesPrimed
  BY DEF IInv, KeysAreVoices, VoicesAreHeld, NewNotesPrimed
<1>2. QED
  BY <1>1 DEF IInv, TypeOK

LEMMA ZoneStep ==
  ASSUME IInv,
         \/ \E w \in Wheel : PitchBend(w)
         \/ \E p \in Pressures : ChannelPressure(p)
         \/ \E v \in Timbres : Timbre(v)
  PROVE  IInv' /\ NewNotesPrimed
<1> USE DEF IInv
<1>1. /\ bound = "classic" /\ voices' = voices /\ free' = free /\ steal' = steal
      /\ bus' = bus /\ bound' = bound /\ fingers' = fingers
      /\ keys' = keys /\ pedal' = pedal /\ ringing' = ringing
  BY DEF PitchBend, ChannelPressure, Timbre, Heard, port
<1>2. /\ zone \in Zones /\ zone.wheel \in Wheel /\ zone.range \in Ranges
      /\ zone.pressure \in Pressures /\ zone.timbre \in Timbres \cup {Unknown}
  BY DEF TypeOK, Zones
<1> DEFINE Told == /\ zone' \in Zones /\ known' \in [Members -> Beliefs]
                   /\ chan' \in [Members -> Values] /\ KnownIsTrue'
<1>3. Told
  <2>1. known \in [Members -> Beliefs] /\ chan \in [Members -> Values]
    BY DEF TypeOK
  <2>2. ASSUME NEW w \in Wheel, PitchBend(w) PROVE Told
    <3>1. zone' \in Zones /\ Broadcast("bend", ScaleBend(w, zone.range))
      BY <1>2, <2>2 DEF PitchBend, Zones
    <3>2. ScaleBend(w, zone.range) \in Bends /\ "bend" \in Fields
      BY <1>2, BendsMade DEF Fields
    <3>3. QED
      BY <2>1, <3>1, <3>2, Broadcasting
  <2>3. ASSUME NEW p \in Pressures, ChannelPressure(p) PROVE Told
    <3>1. zone' \in Zones /\ Broadcast("pressure", p) /\ "pressure" \in Fields
      BY <1>2, <2>3 DEF ChannelPressure, Zones, Fields
    <3>2. QED
      BY <2>1, <3>1, Broadcasting
  <2>4. ASSUME NEW v \in Timbres, Timbre(v) PROVE Told
    <3>1. zone' \in Zones /\ Broadcast("timbre", v) /\ "timbre" \in Fields
      BY <1>2, <2>4 DEF Timbre, Zones, Fields
    <3>2. QED
      BY <2>1, <3>1, Broadcasting
  <2>5. QED
    BY <2>2, <2>3, <2>4
<1>4. /\ voices' \in Seq(Voices) /\ free' \in Seq(Members) /\ Books(voices', free')
      /\ keys' \subseteq Members \X Notes /\ fingers' \subseteq Notes /\ bus' \in BOOLEAN
      /\ bound' \in {"none", "classic", "mpe"}
      /\ KeysAreVoices' /\ VoicesAreHeld' /\ NewNotesPrimed
  BY <1>1, BooksUntouched
<1>5. /\ steal' \in Policies /\ pedal' \in BOOLEAN /\ ringing' \in BOOLEAN
      /\ left' \in [Members -> Timbres \cup {Unknown}]
  <2>1. NothingLeft \in [Members -> Timbres \cup {Unknown}]
    BY DEF NothingLeft
  <2>2. left' = left \/ left' = NothingLeft
    BY DEF PitchBend, ChannelPressure, Timbre
  <2>3. QED
    BY <1>1, <2>1, <2>2 DEF TypeOK
<1>6. OnlyWhenBound'
  BY <1>1 DEF OnlyWhenBound
<1>7. TypeOK'
  BY <1>3, <1>4, <1>5 DEF TypeOK
<1>8. QED
  BY <1>3, <1>4, <1>6, <1>7

LEMMA PolyAftertouchStep ==
  ASSUME IInv, NEW n \in Notes, NEW p \in Pressures, PolyAftertouch(n, p)
  PROVE  IInv' /\ NewNotesPrimed
<1> DEFINE c == voices[VoiceOf(n)].channel
<1> USE DEF IInv
<1>1. /\ bound = "classic" /\ IsActive(n)
      /\ chan' = [chan EXCEPT ![c].pressure = p] /\ known' = [known EXCEPT ![c].pressure = p]
      /\ voices' = voices /\ free' = free /\ zone' = zone /\ left' = left /\ steal' = steal
      /\ bus' = bus /\ bound' = bound /\ fingers' = fingers
      /\ keys' = keys /\ pedal' = pedal /\ ringing' = ringing
  BY DEF PolyAftertouch, Heard, port
<1>2. /\ voices' \in Seq(Voices) /\ free' \in Seq(Members) /\ Books(voices', free')
      /\ keys' \subseteq Members \X Notes /\ fingers' \subseteq Notes /\ bus' \in BOOLEAN
      /\ bound' \in {"none", "classic", "mpe"}
      /\ KeysAreVoices' /\ VoicesAreHeld' /\ NewNotesPrimed
  BY <1>1, BooksUntouched
<1>3. known \in [Members -> Beliefs] /\ chan \in [Members -> Values]
  BY DEF TypeOK
<1>4. ASSUME NEW d \in Members
      PROVE  /\ known'[d] \in Beliefs /\ chan'[d] \in Values
             /\ \A f \in Fields : known'[d][f] \in {Unknown, chan'[d][f]}
  <2>1. known[d] \in Beliefs /\ chan[d] \in Values
    BY <1>3
  <2>2. CASE d = c
    <3>1. /\ chan'[d] = [chan[d] EXCEPT !.pressure = p]
          /\ known'[d] = [known[d] EXCEPT !.pressure = p]
      BY <1>1, <1>3, <2>2
    <3>2. \A f \in Fields : known[d][f] \in {Unknown, chan[d][f]}
      BY DEF KnownIsTrue
    <3>3. QED
      BY <2>1, <3>1, <3>2 DEF Beliefs, Values, Fields
  <2>3. CASE d # c
    <3>1. chan'[d] = chan[d] /\ known'[d] = known[d]
      BY <1>1, <1>3, <2>3
    <3>2. QED
      BY <2>1, <3>1 DEF KnownIsTrue
  <2>4. QED
    BY <2>2, <2>3
<1>5. known' \in [Members -> Beliefs] /\ chan' \in [Members -> Values] /\ KnownIsTrue'
  <2>1. known' \in [Members -> Beliefs] /\ chan' \in [Members -> Values]
    BY <1>1, <1>3, <1>4
  <2>2. QED
    BY <1>4, <2>1 DEF KnownIsTrue
<1>6. /\ zone' \in Zones /\ steal' \in Policies /\ pedal' \in BOOLEAN /\ ringing' \in BOOLEAN
      /\ left' \in [Members -> Timbres \cup {Unknown}]
  BY <1>1 DEF TypeOK
<1>7. OnlyWhenBound'
  BY <1>1 DEF OnlyWhenBound
<1>8. TypeOK'
  BY <1>2, <1>5, <1>6 DEF TypeOK
<1>9. QED
  BY <1>2, <1>5, <1>7, <1>8

\* Messages and steps that leave the voices, the keys and the beliefs alone.
LEMMA QuietStep ==
  ASSUME IInv,
         \/ \E n \in Notes : NoteOnDropped(n)
         \/ \E r \in Ranges : DeclareRange(r)
         \/ \E down \in BOOLEAN : Sustain(down)
         \/ PlugIn \/ Unplug
         \/ \E k \in keys : Shed(k)
         \/ UNCHANGED vars
  PROVE  IInv' /\ NewNotesPrimed
<1> USE DEF IInv
<1>1. /\ voices' = voices /\ free' = free /\ known' = known /\ steal' = steal
      /\ left' = left /\ bound' = bound /\ chan' = chan /\ keys' \subseteq keys
  BY DEF NoteOnDropped, DeclareRange, Sustain, PlugIn, Unplug, Shed, KeysUp,
         vars, translator, port, surge
<1>2. zone' \in Zones
  <2>1. zone \in Zones
    BY DEF TypeOK
  <2>2. ASSUME NEW r \in Ranges, DeclareRange(r) PROVE zone' \in Zones
    BY <2>1, <2>2 DEF DeclareRange, Zones
  <2>3. QED
    BY <2>1, <2>2 DEF NoteOnDropped, Sustain, PlugIn, Unplug, Shed, vars, translator
<1>3. pedal' \in BOOLEAN /\ ringing' \in BOOLEAN
  <2>1. pedal \in BOOLEAN /\ ringing \in BOOLEAN
    BY DEF TypeOK
  <2>2. ASSUME NEW down \in BOOLEAN, Sustain(down)
        PROVE  pedal' \in BOOLEAN /\ ringing' \in BOOLEAN
    BY <2>2 DEF Sustain
  <2>3. ASSUME NEW k \in keys, Shed(k) PROVE pedal' \in BOOLEAN /\ ringing' \in BOOLEAN
    BY <2>1, <2>3 DEF Shed, KeysUp
  <2>4. QED
    BY <2>1, <2>2, <2>3 DEF NoteOnDropped, DeclareRange, PlugIn, Unplug, vars, surge
<1>4. fingers' \subseteq Notes /\ bus' \in BOOLEAN
  BY DEF TypeOK, NoteOnDropped, DeclareRange, Sustain, PlugIn, Unplug, Shed,
         vars, translator, port
<1>5. TypeOK'
  <2>1. keys' \subseteq Members \X Notes
    BY <1>1 DEF TypeOK
  <2>2. QED
    BY <1>1, <1>2, <1>3, <1>4, <2>1 DEF TypeOK
<1>6. Books(voices', free')
  BY <1>1
<1>7. KeysAreVoices' /\ KnownIsTrue' /\ OnlyWhenBound' /\ NewNotesPrimed
  BY <1>1 DEF KeysAreVoices, KnownIsTrue, OnlyWhenBound, NewNotesPrimed
<1>8. VoicesAreHeld'
  <2>1. ASSUME NEW i \in 1..Len(voices')
        PROVE  voices'[i].note \in fingers' \/ (~bus' /\ bound' = "classic")
    <3>1. i \in 1..Len(voices) /\ voices'[i] = voices[i]
      BY <1>1
    <3>2. voices[i].note \in fingers \/ (~bus /\ bound = "classic")
      BY <3>1 DEF VoicesAreHeld
    <3>3. bound = "classic"
      <4>1. bound # "classic" => voices = << >>
        BY DEF OnlyWhenBound
      <4>2. QED
        BY <3>1, <4>1, EmptySeq
    <3>4. bus' = FALSE \/ (bus' = bus /\ fingers \subseteq fingers')
      BY <3>3 DEF NoteOnDropped, DeclareRange, Sustain, PlugIn, Unplug, Shed,
         vars, translator, port
    <3>5. QED
      BY <1>1, <3>1, <3>2, <3>3, <3>4
  <2>2. QED
    BY <2>1 DEF VoicesAreHeld
<1>9. QED
  BY <1>5, <1>6, <1>7, <1>8

LEMMA PanicStep ==
  ASSUME IInv, Panic
  PROVE  IInv' /\ NewNotesPrimed
<1> USE DEF IInv
<1>1. /\ voices' = << >> /\ known' = NothingKnown /\ KeysUp(AllOffs)
      /\ zone' = [NewZone EXCEPT !.range = zone.range]
      /\ steal' = steal /\ bus' = bus /\ bound' = bound /\ fingers' = fingers
      /\ chan' = chan /\ pedal' = pedal /\ bound = "classic"
  BY DEF Panic, Heard, port
<1>2. voices \in Seq(Voices) /\ free \in Seq(Members)
  BY DEF TypeOK
<1>3. keys' = {} /\ ringing' \in BOOLEAN
  BY <1>1, <1>2, ReleasingAll DEF KeysUp, TypeOK
<1>4. PICK freed \in [1..Len(voices) -> Used] :
        /\ Range(freed) = Used
        /\ \A i, j \in 1..Len(voices) : i < j => freed[i] < freed[j]
        /\ free' = free \o freed
  BY DEF Panic
<1>5. /\ DOMAIN voices = 1..Len(voices)
      /\ \A i \in 1..Len(voices) : voices[i] \in Voices
  BY <1>2, LenProperties, ElementOfSeq
<1>6. Used \subseteq Members /\ \A d : d \in Used <=> Carries(voices, d)
  BY <1>5 DEF Used, Carries, Voices
<1>7. freed \in [1..Len(voices) -> Members]
  BY <1>6
<1>8. \A d \in Members : Carries(voices, d) <=> \E i \in 1..Len(voices) : freed[i] = d
  <2>1. DOMAIN freed = 1..Len(voices)
    OBVIOUS
  <2>2. Range(freed) = {freed[i] : i \in 1..Len(voices)}
    BY <2>1 DEF Range
  <2>3. QED
    BY <1>4, <1>6, <2>2
<1>9. free' \in Seq(Members) /\ Books(voices', free')
  BY <1>1, <1>2, <1>4, <1>7, <1>8, BooksPanic
<1>10. zone' \in Zones
  <2>1. zone \in Zones /\ NewZone \in Zones
    BY RestTyped DEF TypeOK
  <2>2. QED
    BY <1>1, <2>1 DEF Zones
<1>11. voices' \in Seq(Voices) /\ Len(voices') = 0
  BY <1>1, EmptySeq
<1>12. known' \in [Members -> Beliefs] /\ KnownIsTrue'
  BY <1>1, Unbelieved
<1>13. TypeOK'
  <2>1. /\ steal' \in Policies /\ bus' \in BOOLEAN /\ bound' \in {"none", "classic", "mpe"}
        /\ fingers' \subseteq Notes /\ chan' \in [Members -> Values] /\ pedal' \in BOOLEAN
    BY <1>1 DEF TypeOK
  <2>2. left' \in [Members -> Timbres \cup {Unknown}]
    <3>1. left' = [c \in Members |-> chan[c].timbre] /\ chan \in [Members -> Values]
      BY DEF Panic, TypeOK
    <3>2. \A c \in Members : chan[c].timbre \in Timbres
      BY <3>1 DEF Values
    <3>3. QED
      BY <3>1, <3>2
  <2>3. QED
    BY <1>3, <1>9, <1>10, <1>11, <1>12, <2>1, <2>2 DEF TypeOK
<1>14. KeysAreVoices' /\ VoicesAreHeld' /\ OnlyWhenBound' /\ NewNotesPrimed
  BY <1>1, <1>3, <1>11 DEF KeysAreVoices, VoicesAreHeld, OnlyWhenBound, NewNotesPrimed
<1>15. QED
  BY <1>9, <1>12, <1>13, <1>14

\* The binding is given up for good, made anew, or taken by an MPE keyboard.
LEMMA BindingStep ==
  ASSUME IInv, Promote \/ Reopen \/ Close
  PROVE  IInv' /\ NewNotesPrimed
<1> USE DEF IInv
<1>1. Released /\ NoTranslator /\ steal' = steal /\ bus' = bus /\ pedal' = pedal
  BY DEF Promote, Reopen, Close
<1>2. /\ voices' \in Seq(Voices) /\ free' \in Seq(Members) /\ zone' \in Zones
      /\ keys' = {} /\ ringing' \in BOOLEAN
      /\ voices' = << >> /\ Len(voices') = 0
      /\ Books(voices', free') /\ KeysAreVoices' /\ VoicesAreHeld'
  BY <1>1, GivenUp
<1>3. bound' \in {"none", "classic", "mpe"} /\ fingers' \subseteq Notes
  BY DEF Promote, Reopen, Close, TypeOK
<1>4. chan' \in [Members -> Values]
  <2>1. chan \in [Members -> Values]
    BY DEF TypeOK
  <2>2. CASE Promote
    BY <2>1, <2>2, ChannelWritten DEF Promote
  <2>3. CASE Reopen
    BY <2>3, RestTyped DEF Reopen
  <2>4. CASE Close
    BY <2>1, <2>4 DEF Close
  <2>5. QED
    BY <2>2, <2>3, <2>4
<1>5. known' \in [Members -> Beliefs] /\ KnownIsTrue'
  <2>1. CASE Promote \/ Close
    BY <2>1, Unbelieved DEF Promote, Close
  <2>2. CASE Reopen
    <3>1. known' = [d \in Members |-> AtRest] /\ chan' = known'
      BY <2>2 DEF Reopen
    <3>2. known' \in [Members -> Beliefs]
      BY <3>1, RestTyped
    <3>3. QED
      BY <3>1, <3>2 DEF KnownIsTrue
  <2>3. QED
    BY <2>1, <2>2
<1>6. OnlyWhenBound'
  BY <1>2 DEF OnlyWhenBound, Promote, Reopen, Close
<1>7. /\ steal' \in Policies /\ bus' \in BOOLEAN /\ pedal' \in BOOLEAN
      /\ left' \in [Members -> Timbres \cup {Unknown}]
  BY <1>1 DEF TypeOK, NoTranslator, NothingLeft
<1>8. TypeOK'
  BY <1>2, <1>3, <1>4, <1>5, <1>7 DEF TypeOK
<1>9. NewNotesPrimed
  BY <1>2 DEF NewNotesPrimed
<1>10. QED
  BY <1>2, <1>5, <1>6, <1>8, <1>9

LEMMA PassThroughStep ==
  ASSUME IInv, PassThrough
  PROVE  IInv' /\ NewNotesPrimed
<1> USE DEF IInv
<1>1. /\ bound = "mpe" /\ voices' = voices /\ free' = free /\ zone' = zone /\ known' = known
      /\ left' = left /\ steal' = steal /\ bus' = bus /\ bound' = bound /\ fingers' = fingers
      /\ keys' = keys /\ pedal' = pedal /\ ringing' = ringing
  BY DEF PassThrough, translator, port
<1>2. /\ voices' \in Seq(Voices) /\ free' \in Seq(Members) /\ Books(voices', free')
      /\ keys' \subseteq Members \X Notes /\ fingers' \subseteq Notes /\ bus' \in BOOLEAN
      /\ bound' \in {"none", "classic", "mpe"}
      /\ KeysAreVoices' /\ VoicesAreHeld' /\ NewNotesPrimed
  BY <1>1, BooksUntouched
<1>3. known' = NothingKnown
  BY <1>1 DEF OnlyWhenBound
<1>4. KnownIsTrue'
  BY <1>3, Unbelieved
<1>5. chan' \in [Members -> Values]
  <2>1. chan \in [Members -> Values]
    BY DEF TypeOK
  <2>2. QED
    BY <2>1, ChannelWritten DEF PassThrough
<1>6. OnlyWhenBound'
  BY <1>1 DEF OnlyWhenBound
<1>7. TypeOK'
  BY <1>1, <1>2, <1>5 DEF TypeOK
<1>8. QED
  BY <1>2, <1>4, <1>6, <1>7

-----------------------------------------------------------------------------
(* The timbres: what a panic leaves on the channels, or the reset that opened the port.    *)

TimbresAreLeft ==
  bound = "classic" /\ zone.timbre = Unknown =>
    \A c \in Members : chan[c].timbre = StartTimbre(c)

\* A step that changes neither what is expected of the timbres nor the timbres themselves.
LEMMA TimbresUntouched ==
  ASSUME TimbresAreLeft, left' = left, bound' = bound,
         zone'.timbre # Unknown \/ zone'.timbre = zone.timbre,
         zone.timbre = Unknown => \A c \in Members : chan'[c].timbre = chan[c].timbre
  PROVE  TimbresAreLeft'
<1> SUFFICES ASSUME bound = "classic", zone'.timbre = Unknown, NEW c \in Members
             PROVE  chan'[c].timbre = StartTimbre(c)'
  BY DEF TimbresAreLeft
<1>1. zone.timbre = Unknown /\ chan'[c].timbre = chan[c].timbre
  OBVIOUS
<1>2. chan[c].timbre = StartTimbre(c)
  BY <1>1 DEF TimbresAreLeft
<1>3. StartTimbre(c)' = StartTimbre(c)
  BY <1>1 DEF StartTimbre
<1>4. QED
  BY <1>1, <1>2, <1>3

\* Every step: a note writes no timbre until the keyboard has sent one, a panic leaves what
\* is there, and a new translator has written them all.
LEMMA TimbresKeep ==
  ASSUME IInv, TimbresAreLeft, [Next]_vars
  PROVE  TimbresAreLeft'
<1>1. TypeOK /\ chan \in [Members -> Values] /\ zone \in Zones /\ OnlyWhenBound
  BY DEF IInv, TypeOK
<1>2. ASSUME NEW c \in Members, NEW n \in Notes, NEW offs, StartVoice(n, c, offs),
             zone' = zone, left' = left, bound' = bound
      PROVE  TimbresAreLeft'
  <2>1. chan' = [chan EXCEPT ![c] = Primed(c)]
    BY <1>2 DEF StartVoice
  <2>2. zone.timbre = Unknown => Primed(c).timbre = chan[c].timbre
    BY DEF Primed
  <2>3. zone.timbre = Unknown => \A d \in Members : chan'[d].timbre = chan[d].timbre
    BY <1>1, <2>1, <2>2
  <2>4. QED
    BY <1>2, <2>3, TimbresUntouched
<1>3. ASSUME NEW n \in Notes, NoteOn(n) PROVE TimbresAreLeft'
  <2>1. FreeWith(n) \in Seq(Members) /\ FreeWith(n) # << >>
    BY <1>1, <1>3, Releasing DEF IInv, TypeOK, NoteOn
  <2>2. Head(FreeWith(n)) \in Members
    BY <2>1
  <2>3. QED
    BY <1>2, <1>3, <2>2 DEF NoteOn
<1>4. ASSUME NEW n \in Notes, NoteOnSteals(n) PROVE TimbresAreLeft'
  <2> DEFINE c == voices[Victim].channel
  <2>1. /\ StartVoice(n, c, VictimOff(Victim)) /\ zone' = zone /\ left' = left /\ bound' = bound
        /\ chan' = [chan EXCEPT ![c] = Primed(c)]
    BY <1>4 DEF NoteOnSteals, StartVoice
  <2> HIDE DEF c
  <2>2. CASE c \in Members
    BY <1>2, <2>1, <2>2
  <2>3. CASE c \notin Members
    <3>1. \A d \in Members : chan'[d].timbre = chan[d].timbre
      BY <1>1, <2>1, <2>3
    <3>2. QED
      BY <2>1, <3>1, TimbresUntouched
  <2>4. QED
    BY <2>2, <2>3
<1>5. ASSUME NEW f \in {"bend", "pressure"}, NEW v, Broadcast(f, v), NEW z \in Zones, zone' = z,
             z.timbre = zone.timbre, left' = left, bound' = bound
      PROVE  TimbresAreLeft'
  <2>1. ASSUME NEW c \in Members PROVE chan'[c].timbre = chan[c].timbre
    <3>1. chan' = [d \in Members |-> IF d \in Used THEN [chan[d] EXCEPT ![f] = v] ELSE chan[d]]
      BY <1>5 DEF Broadcast
    <3>2. chan[c] \in Values
      BY <1>1
    <3>3. [chan[c] EXCEPT ![f] = v].timbre = chan[c].timbre
      BY <3>2 DEF Values
    <3>4. QED
      BY <3>1, <3>3
  <2>2. QED
    BY <1>5, <2>1, TimbresUntouched
<1>6. ASSUME NEW w \in Wheel, PitchBend(w) PROVE TimbresAreLeft'
  <2>1. [zone EXCEPT !.wheel = w] \in Zones /\ [zone EXCEPT !.wheel = w].timbre = zone.timbre
    BY <1>1 DEF Zones
  <2>2. QED
    BY <1>5, <1>6, <2>1 DEF PitchBend, port
<1>7. ASSUME NEW p \in Pressures, ChannelPressure(p) PROVE TimbresAreLeft'
  <2>1. [zone EXCEPT !.pressure = p] \in Zones /\ [zone EXCEPT !.pressure = p].timbre = zone.timbre
    BY <1>1 DEF Zones
  <2>2. QED
    BY <1>5, <1>7, <2>1 DEF ChannelPressure, port
<1>8. ASSUME NEW v \in Timbres, Timbre(v) PROVE TimbresAreLeft'
  <2>1. zone'.timbre = v
    BY <1>1, <1>8 DEF Timbre, Zones
  <2>2. QED
    BY <2>1, UnknownAssumption DEF TimbresAreLeft
<1>9. ASSUME NEW n \in Notes, NEW p \in Pressures, PolyAftertouch(n, p) PROVE TimbresAreLeft'
  <2> DEFINE c == voices[VoiceOf(n)].channel
  <2>1. chan' = [chan EXCEPT ![c] = [chan[c] EXCEPT !.pressure = p]]
        /\ zone' = zone /\ left' = left /\ bound' = bound
    BY <1>9 DEF PolyAftertouch, port
  <2> HIDE DEF c
  <2>2. ASSUME NEW d \in Members PROVE chan'[d].timbre = chan[d].timbre
    <3>1. chan[d] \in Values
      BY <1>1
    <3>2. [chan[d] EXCEPT !.pressure = p].timbre = chan[d].timbre
      BY <3>1 DEF Values
    <3>3. QED
      BY <1>1, <2>1, <3>2
  <2>3. QED
    BY <2>1, <2>2, TimbresUntouched
<1>10. ASSUME NEW r \in Ranges, DeclareRange(r) PROVE TimbresAreLeft'
  <2>1. zone'.timbre = zone.timbre /\ left' = left /\ bound' = bound /\ chan' = chan
    BY <1>1, <1>10 DEF DeclareRange, Zones, port, surge
  <2>2. QED
    BY <2>1, TimbresUntouched
<1>11. CASE Panic
  <2>1. left' = [c \in Members |-> chan[c].timbre] /\ chan' = chan
        /\ zone' = [NewZone EXCEPT !.range = zone.range]
    BY <1>11 DEF Panic
  <2>2. zone'.timbre = Unknown
    BY <2>1 DEF NewZone
  <2>3. ASSUME NEW c \in Members PROVE chan'[c].timbre = StartTimbre(c)'
    <3>1. chan[c].timbre \in Timbres
      BY <1>1 DEF Values
    <3>2. left'[c] = chan[c].timbre /\ left'[c] # Unknown
      BY <2>1, <3>1, UnknownAssumption
    <3>3. QED
      BY <2>1, <2>2, <3>2 DEF StartTimbre
  <2>4. QED
    BY <2>3 DEF TimbresAreLeft
<1>12. CASE Reopen
  <2>1. ASSUME NEW c \in Members PROVE chan'[c].timbre = 0 /\ StartTimbre(c)' = 0
    <3>1. zone' = NewZone /\ left' = NothingLeft /\ chan' = [d \in Members |-> AtRest]
      BY <1>12 DEF Reopen, NoTranslator
    <3>2. zone'.timbre = Unknown /\ left'[c] = Unknown /\ chan'[c] = AtRest
      BY <3>1 DEF NewZone, NothingLeft
    <3>3. QED
      BY <3>2 DEF StartTimbre, AtRest
  <2>2. QED
    BY <2>1 DEF TimbresAreLeft
<1>13. CASE Promote \/ Close \/ PassThrough
  BY <1>13 DEF Promote, Close, PassThrough, port, TimbresAreLeft
<1>14. CASE \/ \E n \in Notes : NoteOnDropped(n) \/ NoteOff(n)
            \/ \E down \in BOOLEAN : Sustain(down)
            \/ PlugIn \/ Unplug \/ UNCHANGED vars
            \/ \E k \in keys : Shed(k)
  <2>1. zone' = zone /\ left' = left /\ bound' = bound /\ chan' = chan
    BY <1>14 DEF NoteOnDropped, NoteOff, Sustain, PlugIn, Unplug, Shed, vars, translator, port,
       surge
  <2>2. QED
    BY <2>1, TimbresUntouched
<1>15. QED
  BY <1>3, <1>4, <1>6, <1>7, <1>8, <1>9, <1>10, <1>11, <1>12, <1>13, <1>14 DEF Next

-----------------------------------------------------------------------------
(* The theorems. *)

LEMMA InitInv == Init => IInv
<1> SUFFICES ASSUME Init PROVE IInv
  OBVIOUS
<1>1. voices = << >> /\ Len(voices) = 0 /\ voices \in Seq(Voices)
  BY EmptySeq DEF Init
<1>2. free \in Seq(Members) /\ Books(voices, free)
  BY <1>1, BooksFresh DEF Init
<1>3. known \in [Members -> Beliefs] /\ zone \in Zones
      /\ left \in [Members -> Timbres \cup {Unknown}]
  BY RestTyped DEF Init, NothingLeft
<1>4. TypeOK
  BY <1>1, <1>2, <1>3 DEF Init, TypeOK
<1>5. KnownIsTrue
  BY DEF Init, KnownIsTrue, NothingKnown
<1>6. KeysAreVoices /\ VoicesAreHeld /\ OnlyWhenBound
  BY <1>1 DEF Init, KeysAreVoices, VoicesAreHeld, OnlyWhenBound
<1>7. QED
  BY <1>2, <1>4, <1>5, <1>6 DEF IInv

LEMMA NextInv == IInv /\ [Next]_vars => IInv' /\ NewNotesPrimed
<1> SUFFICES ASSUME IInv, [Next]_vars PROVE IInv' /\ NewNotesPrimed
  OBVIOUS
<1>1. ASSUME NEW n \in Notes, NoteOn(n) PROVE IInv' /\ NewNotesPrimed
  BY <1>1, NoteOnStep
<1>2. ASSUME NEW n \in Notes, NoteOnSteals(n) PROVE IInv' /\ NewNotesPrimed
  BY <1>2, NoteOnStealsStep
<1>3. ASSUME NEW n \in Notes, NoteOff(n) PROVE IInv' /\ NewNotesPrimed
  BY <1>3, NoteOffStep
<1>4. ASSUME NEW n \in Notes, NEW p \in Pressures, PolyAftertouch(n, p)
      PROVE  IInv' /\ NewNotesPrimed
  BY <1>4, PolyAftertouchStep
<1>5. CASE \/ \E w \in Wheel : PitchBend(w)
           \/ \E p \in Pressures : ChannelPressure(p)
           \/ \E v \in Timbres : Timbre(v)
  BY <1>5, ZoneStep
<1>6. CASE \/ \E n \in Notes : NoteOnDropped(n)
           \/ \E r \in Ranges : DeclareRange(r)
           \/ \E down \in BOOLEAN : Sustain(down)
           \/ PlugIn \/ Unplug
           \/ \E k \in keys : Shed(k)
           \/ UNCHANGED vars
  BY <1>6, QuietStep
<1>7. CASE Panic
  BY <1>7, PanicStep
<1>8. CASE Promote \/ Reopen \/ Close
  BY <1>8, BindingStep
<1>9. CASE PassThrough
  BY <1>9, PassThroughStep
<1>10. QED
  BY <1>1, <1>2, <1>3, <1>4, <1>5, <1>6, <1>7, <1>8, <1>9 DEF Next

LEMMA InvAlways == Spec => []IInv
<1>1. IInv /\ [Next]_vars => IInv'
  BY NextInv
<1>2. QED
  BY InitInv, <1>1, PTL DEF Spec

\* The state of the translator, the port and Surge keeps its type.
THEOREM Typing == Spec => []TypeOK
<1>1. IInv => TypeOK
  BY DEF IInv
<1>2. QED
  BY InvAlways, <1>1, PTL

\* Whatever the number of channels and notes, every member channel is free once or carries
\* one note: translate neither loses a channel nor gives one to two notes.
THEOREM ChannelsKept == Spec => []EachChannelOnce
<1>1. IInv => EachChannelOnce
  BY SameBooks DEF IInv, TypeOK
<1>2. QED
  BY InvAlways, <1>1, PTL

\* What the translator believes a channel holds (_chan_bend, _chan_pressure, _chan_cc) is
\* what it holds.
THEOREM BeliefsAreTrue == Spec => []KnownIsTrue
<1>1. IInv => KnownIsTrue
  BY DEF IInv
<1>2. QED
  BY InvAlways, <1>1, PTL

\* A note that is down has a note-off to come, or its cable is out and the poll still has
\* to notice.
THEOREM NothingStuck == Spec => []NoStuckNote
<1>1. ASSUME IInv, NEW k \in keys
      PROVE  k[2] \in fingers \/ (~bus /\ bound = "classic")
  <2>1. PICK i \in 1..Len(voices) : k = <<voices[i].channel, voices[i].note>>
    BY <1>1 DEF IInv, KeysAreVoices, KeyIsVoice
  <2>2. k[2] = voices[i].note
    BY <2>1
  <2>3. voices[i].note \in fingers \/ (~bus /\ bound = "classic")
    BY <1>1, <2>1 DEF IInv, VoicesAreHeld
  <2>4. QED
    BY <2>2, <2>3
<1>2. IInv => NoStuckNote
  BY <1>1 DEF NoStuckNote
<1>3. QED
  BY InvAlways, <1>2, PTL

\* No timbre is expected while no port is open.
LEMMA InitTimbres == Init => TimbresAreLeft
BY DEF Init, TimbresAreLeft

\* Every note starts with the keyboard's bend and pressure, and with its timbre once it has
\* sent one, however the channel it is given was left; until then with the rest written when
\* the port was opened, or, after a panic, with what the panic left on the channel.
THEOREM NotesFromTheZone == Spec => NotesStartFromTheZone
<1>1. IInv /\ TimbresAreLeft /\ [Next]_vars => IInv' /\ TimbresAreLeft' /\ NewNotesPrimed
  BY NextInv, TimbresKeep
<1>2. IInv' /\ TimbresAreLeft' /\ NewNotesPrimed => \A k \in keys' \ keys : StartsFromZone(k)'
  <2> SUFFICES ASSUME IInv', TimbresAreLeft', NewNotesPrimed, NEW k \in keys' \ keys
               PROVE  StartsFromZone(k)'
    OBVIOUS
  <2>1. k[1] \in Members
    BY DEF IInv, TypeOK
  <2>2. /\ bound' = "classic"
        /\ chan'[k[1]].bend = ZoneBend' /\ chan'[k[1]].pressure = zone'.pressure
        /\ zone'.timbre # Unknown => chan'[k[1]].timbre = zone'.timbre
    BY DEF NewNotesPrimed, StartsPrimed
  <2>3. chan'[k[1]].timbre = StartTimbre(k[1])'
    <3>1. CASE zone'.timbre = Unknown
      BY <2>1, <2>2, <3>1 DEF TimbresAreLeft
    <3>2. CASE zone'.timbre # Unknown
      BY <2>2, <3>2 DEF StartTimbre
    <3>3. QED
      BY <3>1, <3>2
  <2>4. QED
    BY <2>2, <2>3 DEF StartsFromZone
<1>3. IInv /\ TimbresAreLeft /\ [Next]_vars
        => TimbresAreLeft' /\ [\A k \in keys' \ keys : StartsFromZone(k)']_vars
  BY <1>1, <1>2
<1>4. QED
  BY InvAlways, InitTimbres, <1>3, PTL DEF Spec, NotesStartFromTheZone

-----------------------------------------------------------------------------
(* The voice limit and the ledger of the notes. *)

Limits == Emergency..Ceiling
GovernorState == [effective : Limits \cup {None}, bootstrapped : BOOLEAN]

LEMMA LimitBounds ==
  /\ RestTop \in Floor..Ceiling /\ Floor..Ceiling \subseteq Limits /\ Limits \subseteq Nat
  /\ Floor \in Nat /\ Ceiling \in Nat /\ Emergency \in Limits
  /\ OnLoad \subseteq Limits /\ None \notin Limits /\ None \notin Nat
<1>1. /\ Floor \in Nat /\ Emergency \in Nat /\ Ceiling \in Nat /\ RestCap \in Nat
      /\ Emergency <= Floor /\ Floor <= Ceiling /\ OnLoad \subseteq Floor..Ceiling
      /\ None \notin Nat
  BY LimitAssumption
<1>2. RestTop \in Floor..Ceiling
  BY <1>1 DEF RestTop, MinOf, MaxOf
<1>3. Floor..Ceiling \subseteq Limits /\ Limits \subseteq Nat /\ Emergency \in Limits
  BY <1>1 DEF Limits
<1>4. QED
  BY <1>1, <1>2, <1>3

LEMMA BootstrappedType ==
  ASSUME NEW g \in GovernorState, NEW b \in BOOLEAN
  PROVE  /\ [g EXCEPT !.bootstrapped = b] \in GovernorState
         /\ [g EXCEPT !.bootstrapped = b].effective = g.effective
BY DEF GovernorState

LEMMA BelievedType ==
  ASSUME NEW g \in GovernorState, NEW e \in Limits \cup {None}
  PROVE  /\ [g EXCEPT !.effective = e] \in GovernorState
         /\ [g EXCEPT !.effective = e].effective = e
BY DEF GovernorState

LEMMA RefreshedType ==
  ASSUME LimitTypeOK
  PROVE  /\ Refreshed \in GovernorState
         /\ Refreshed.effective = IF state.new THEN state.effective ELSE gov.effective
<1>1. gov \in GovernorState /\ state.effective \in Limits \cup {None} /\ state.new \in BOOLEAN
  BY LimitBounds DEF LimitTypeOK, GovernorState, Limits
<1>2. CASE ~state.new
  BY <1>1, <1>2 DEF Refreshed
<1>3. CASE state.new
  <2> DEFINE h == [gov EXCEPT !.effective = state.effective]
             b == h.bootstrapped /\ state.effective = gov.effective
  <2>1. h \in GovernorState /\ h.effective = state.effective
    BY <1>1, BelievedType
  <2>2. b \in BOOLEAN
    BY <2>1 DEF GovernorState
  <2>3. Refreshed = [h EXCEPT !.bootstrapped = b]
    BY <1>1, <1>3 DEF Refreshed, GovernorState
  <2> HIDE DEF h, b
  <2>4. QED
    BY <1>3, <2>1, <2>2, <2>3, BootstrappedType
<1>4. QED
  BY <1>2, <1>3

\* What a tick may come to: it leaves the limit, or goes for another within the bounds.
Decides(g) == Keep(g) \/ \E n \in Limits : Apply(g, n)
SameBelief(g, h) == h \in GovernorState /\ h.effective = g.effective

LEMMA EngageStep ==
  ASSUME NEW g \in GovernorState, Engage(g)
  PROVE  \E h : SameBelief(g, h) /\ Decides(h)
<1> DEFINE h == [g EXCEPT !.bootstrapped = TRUE]
<1>1. SameBelief(g, h)
  BY BootstrappedType DEF SameBelief
<1>2. RestTop \in Limits /\ Apply(h, RestTop)
  BY LimitBounds DEF Engage
<1> HIDE DEF h
<1>3. QED
  BY <1>1, <1>2 DEF Decides

LEMMA RecoverStep ==
  ASSUME NEW g \in GovernorState, g.effective \in Limits, Recover(g)
  PROVE  Decides(g)
<1>1. CASE Keep(g)
  BY <1>1 DEF Decides
<1>2. CASE Apply(g, MaxOf(Floor, MinOf(RestTop, g.effective + 1)))
  <2> DEFINE e == g.effective
             n == MaxOf(Floor, MinOf(RestTop, e + 1))
  <2>1. e \in Nat /\ RestTop \in Floor..Ceiling /\ Floor \in Nat /\ Ceiling \in Nat
    BY LimitBounds
  <2> HIDE DEF e
  <2>2. n \in Floor..Ceiling
    BY <2>1 DEF MinOf, MaxOf
  <2>3. n \in Limits /\ Apply(g, n)
    BY <1>2, <2>2, LimitBounds DEF e
  <2>4. QED
    BY <2>3 DEF Decides
<1>3. QED
  BY <1>1, <1>2 DEF Recover

LEMMA StepDownStep ==
  ASSUME NEW g \in GovernorState, g.effective \in Limits, NEW xrun \in BOOLEAN, StepDown(g, xrun)
  PROVE  Decides(g)
<1> DEFINE e == g.effective
           step == IF xrun THEN MinOf(Ceiling - Floor, 2) ELSE 1
<1>1. /\ e \in Nat /\ e <= Ceiling /\ Floor \in Nat /\ Ceiling \in Nat /\ RestTop \in Floor..Ceiling
  BY LimitBounds DEF Limits
<1>2. step \in Int /\ step >= 0
  BY <1>1 DEF MinOf
<1>3. PICK desired \in IF load = "hard" THEN {Floor} ELSE Floor..RestTop :
        Keep(g) \/ Apply(g, MaxOf(desired, e - step))
  BY DEF StepDown
<1>4. desired \in Floor..Ceiling
  BY <1>1, <1>3
<1> HIDE DEF e, step
<1>5. MaxOf(desired, e - step) \in Floor..Ceiling
  BY <1>1, <1>2, <1>4 DEF MaxOf
<1>6. QED
  BY <1>3, <1>5, LimitBounds DEF Decides

LEMMA FollowStep ==
  ASSUME NEW g \in GovernorState, g.effective \in Limits, NEW xrun \in BOOLEAN, Follow(g, xrun)
  PROVE  \E h : SameBelief(g, h) /\ Decides(h)
<1> DEFINE b == [g EXCEPT !.bootstrapped = TRUE]
<1>1. b \in GovernorState /\ b.effective = g.effective
  BY BootstrappedType
<1>2. Engage(g) \/ Recover(b) \/ StepDown(b, xrun)
  BY DEF Follow
<1> HIDE DEF b
<1>3. CASE Engage(g)
  BY <1>3, EngageStep
<1>4. CASE Recover(b) \/ StepDown(b, xrun)
  <2>1. Decides(b)
    BY <1>1, <1>4, RecoverStep, StepDownStep
  <2>2. QED
    BY <1>1, <2>1 DEF SameBelief
<1>5. QED
  BY <1>2, <1>3, <1>4

LEMMA TickStep ==
  ASSUME LimitTypeOK, Tick
  PROVE  /\ \E h : SameBelief(Refreshed, h) /\ Decides(h)
         /\ Refreshed.effective \in Limits /\ xruns' \in 0..MaxXruns
<1>1. Refreshed \in GovernorState
  BY RefreshedType
<1>2. Refreshed.effective # None /\ (Overrun(Refreshed) \/ (Follow(Refreshed, FALSE) /\ UNCHANGED xruns))
  BY DEF Tick
<1>3. Refreshed.effective \in Limits
  BY <1>1, <1>2 DEF GovernorState
<1>4. CASE Follow(Refreshed, FALSE) /\ UNCHANGED xruns
  BY <1>1, <1>3, <1>4, FollowStep DEF LimitTypeOK
<1>5. CASE Overrun(Refreshed)
  <2>1. Apply(Refreshed, Emergency) \/ Follow(Refreshed, TRUE)
    BY <1>5 DEF Overrun
  <2>2. ASSUME Apply(Refreshed, Emergency)
        PROVE  \E h : SameBelief(Refreshed, h) /\ Decides(h)
    <3>1. Decides(Refreshed)
      BY <2>2, LimitBounds DEF Decides
    <3>2. SameBelief(Refreshed, Refreshed)
      BY <1>1 DEF SameBelief
    <3>3. QED
      BY <3>1, <3>2
  <2>3. ASSUME Follow(Refreshed, TRUE)
        PROVE  \E h : SameBelief(Refreshed, h) /\ Decides(h)
    BY <1>1, <1>3, <2>3, FollowStep
  <2>4. xruns' \in 0..MaxXruns
    BY <1>5, LimitAssumption DEF Overrun, LimitTypeOK
  <2>5. QED
    BY <1>3, <2>1, <2>2, <2>3, <2>4
<1>6. QED
  BY <1>2, <1>3, <1>4, <1>5

\* A limit that is gone for, and below the one believed, is asked of the remapper.
LEMMA DecidesType ==
  ASSUME LimitTypeOK, NEW h \in GovernorState, Decides(h), sending = None
  PROVE  /\ gov' = h /\ sending' \in Limits \cup {None} /\ request' \in Request
         /\ \/ request' = request
            \/ \E n \in Limits : n < h.effective /\ request'.limit = n /\ request' # None
         /\ sending' # None =>
              \/ ~(sending' < h.effective /\ Cardinality(Active) > sending') /\ request' = request
              \/ request' # None /\ request'.limit = sending'
<1>1. CASE Keep(h)
  BY <1>1 DEF Keep, LimitTypeOK
<1>2. ASSUME NEW n \in Limits, Apply(h, n)
      PROVE  /\ gov' = h /\ sending' \in Limits \cup {None} /\ request' \in Request
             /\ \/ request' = request
                \/ n < h.effective /\ request'.limit = n /\ request' # None
             /\ sending' # None =>
                  \/ ~(sending' < h.effective /\ Cardinality(Active) > sending') /\ request' = request
                  \/ request' # None /\ request'.limit = sending'
  <2> DEFINE r == [limit |-> n, at |-> notes]
  <2>1. r \in [limit : Nat, at : 0..MaxNotes] /\ r.limit = n
    BY LimitBounds DEF LimitTypeOK
  <2>2. r \in Request /\ r # None
    <3>1. r.limit \in Nat /\ None \notin [limit : Nat, at : 0..MaxNotes]
      BY <2>1, LimitAssumption
    <3>2. QED
      BY <2>1, <3>1 DEF Request
  <2>3. gov' = h /\ sending' = (IF n = h.effective THEN None ELSE n)
        /\ request' = (IF Asks(h, n) THEN r ELSE request) /\ request \in Request
    BY <1>2 DEF Apply, LimitTypeOK
  <2> HIDE DEF r
  <2>4. QED
    BY <2>1, <2>2, <2>3 DEF Asks
<1>3. QED
  BY <1>1, <1>2 DEF Decides

\* The request the remapper will deal with last.
Newest == IF request # None THEN request ELSE pending
Covers(n) == Newest # None /\ Newest.limit <= n
Over(n) == Cardinality(sounding) > n

\* What the governor knows of Surge's limit holds, but where it is known not to.
BeliefHolds ==
  ~adrift => /\ loading # None => limit = loading
             /\ loading = None => limit = IF state.new THEN state.effective ELSE gov.effective

\* Voices over the limit, or over one about to be sent, are covered by the newest
\* request, or excused; what is about to be sent on a mistaken belief is found later.
VoicesCovered ==
  /\ Over(limit) => excused \/ Covers(limit)
  /\ sending # None /\ Over(sending) =>
       excused \/ adrift \/ loading # None \/ state.new \/ Covers(sending)

LimitIInv == LimitTypeOK /\ BeliefHolds /\ VoicesCovered

LEMMA CountSounding ==
  ASSUME LimitTypeOK
  PROVE  /\ IsFiniteSet(sounding) /\ Cardinality(sounding) \in Nat
         /\ IsFiniteSet(Active) /\ Cardinality(Active) \in Nat
         /\ Cardinality(sounding) <= Cardinality(Active)
<1>1. IsFiniteSet(Active) /\ sounding \subseteq Active
  BY LimitAssumption, FS_Subset DEF LimitTypeOK, Active
<1>2. QED
  BY <1>1, FS_Subset, FS_CardinalityType

LEMMA FewerSound ==
  ASSUME LimitTypeOK, LimitTypeOK', sounding' \subseteq sounding, NEW n \in Nat, Over(n)'
  PROVE  Over(n)
<1>1. IsFiniteSet(sounding) /\ Cardinality(sounding) \in Nat
  BY CountSounding
<1>2. Cardinality(sounding') <= Cardinality(sounding) /\ Cardinality(sounding') \in Nat
  BY <1>1, FS_Subset, FS_CardinalityType
<1>3. QED
  BY <1>1, <1>2 DEF Over

LEMMA NextCountSounding == LimitTypeOK' => Cardinality(sounding') \in Nat
<1>1. ASSUME LimitTypeOK' PROVE IsFiniteSet(sounding')
  <2>1. sounding' \subseteq Keys
    BY <1>1 DEF LimitTypeOK, Active
  <2>2. QED
    BY <2>1, LimitAssumption, FS_Subset
<1>2. QED
  BY <1>1, FS_CardinalityType

LEMMA LimitNumbers ==
  LimitTypeOK => limit \in Nat /\ (sending # None => sending \in Nat)
BY LimitBounds DEF LimitTypeOK, Limits

LEMMA NextLimitNumbers ==
  LimitTypeOK' => limit' \in Nat /\ (sending' # None => sending' \in Nat)
BY LimitBounds DEF LimitTypeOK, Limits

\* An excuse lasts as long as there are voices too many.
LEMMA ExcuseKept ==
  ASSUME LimitTypeOK', NEW because \in BOOLEAN, Excuse(because), excused \/ because,
         Over(limit)' \/ (sending' # None /\ Over(sending)')
  PROVE  excused'
<1>1. /\ limit' \in Nat /\ (sending' # None => sending' \in Nat)
      /\ Cardinality(sounding') \in Nat
  BY NextLimitNumbers, NextCountSounding
<1>2. Lowest' = IF sending' = None THEN limit' ELSE MinOf(limit', sending')
  BY DEF Lowest
<1>3. Cardinality(sounding') > Lowest'
  BY <1>1, <1>2 DEF Over, MinOf
<1>4. QED
  BY <1>3 DEF Excuse

\* Nothing is uncovered where voices only end.
LEMMA CoverKept ==
  ASSUME LimitTypeOK, LimitTypeOK', VoicesCovered, sounding' \subseteq sounding,
         UNCHANGED <<limit, request, pending, adrift>>, sending' \in {sending, None},
         loading # None => loading' # None \/ state'.new,
         state.new => state'.new,
         UNCHANGED excused \/ Excuse(FALSE)
  PROVE  VoicesCovered'
<1>1. \A n \in Nat : Over(n)' => Over(n)
  BY FewerSound
<1>2. ASSUME excused, Over(limit)' \/ (sending' # None /\ Over(sending)') PROVE excused'
  <2>1. CASE Excuse(FALSE)
    BY <1>2, <2>1, ExcuseKept
  <2>2. QED
    BY <1>2, <2>1
<1>3. Newest' = Newest
  BY DEF Newest
<1>4. limit \in Nat /\ limit' = limit /\ (sending # None => sending \in Nat)
  BY LimitNumbers
<1>5. ASSUME Over(limit)' PROVE excused' \/ Covers(limit)'
  <2>1. Over(limit)
    BY <1>1, <1>4, <1>5 DEF Over
  <2>2. excused \/ Covers(limit)
    BY <2>1 DEF VoicesCovered
  <2>3. QED
    BY <1>2, <1>3, <1>4, <1>5, <2>2 DEF Covers
<1>6. ASSUME sending' # None, Over(sending)'
      PROVE  excused' \/ adrift' \/ loading' # None \/ state'.new \/ Covers(sending)'
  <2>1. sending' = sending /\ sending # None
    BY <1>6
  <2>2. Over(sending)
    BY <1>1, <1>4, <1>6, <2>1 DEF Over
  <2>3. excused \/ adrift \/ loading # None \/ state.new \/ Covers(sending)
    BY <2>1, <2>2 DEF VoicesCovered
  <2>4. QED
    BY <1>2, <1>3, <1>6, <2>1, <2>3 DEF Covers
<1>7. QED
  BY <1>5, <1>6 DEF VoicesCovered

LEMMA TickCovered ==
  ASSUME LimitIInv, Tick
  PROVE  LimitIInv'
<1> DEFINE g == Refreshed
<1>1. LimitTypeOK /\ BeliefHolds /\ VoicesCovered
  BY DEF LimitIInv
<1>2. /\ sending = None /\ state' = [state EXCEPT !.new = FALSE]
      /\ UNCHANGED <<load, limit, sounding, loading, pending, ledger, sustained, pedals, notes,
                     aged, adrift, faults>>
      /\ Excuse(request' # request /\ (adrift \/ loading # None))
  BY DEF Tick, player
<1>3. PICK h : SameBelief(g, h) /\ Decides(h)
  BY <1>1, TickStep
<1>4. g.effective \in Limits /\ xruns' \in 0..MaxXruns /\ h \in GovernorState /\ h.effective = g.effective
  BY <1>1, <1>3, TickStep DEF SameBelief
<1>5. /\ gov' = h /\ sending' \in Limits \cup {None} /\ request' \in Request
      /\ \/ request' = request
         \/ \E n \in Limits : n < h.effective /\ request'.limit = n /\ request' # None
      /\ sending' # None =>
           \/ ~(sending' < h.effective /\ Cardinality(Active) > sending') /\ request' = request
           \/ request' # None /\ request'.limit = sending'
  BY <1>1, <1>2, <1>3, <1>4, DecidesType
<1>6. /\ state' \in [effective : OnLoad, new : BOOLEAN] /\ ~state'.new
      /\ state'.effective = state.effective
  BY <1>1, <1>2 DEF LimitTypeOK
<1>7. Active' = Active
  BY <1>2 DEF Active
<1>8. LimitTypeOK'
  <2>1. excused' \in BOOLEAN
    BY <1>2 DEF Excuse
  <2>2. gov' \in [effective : Emergency..Ceiling \cup {None}, bootstrapped : BOOLEAN]
    BY <1>4, <1>5 DEF GovernorState, Limits
  <2>3. sending' \in Emergency..Ceiling \cup {None}
    BY <1>5 DEF Limits
  <2>4. QED
    BY <1>1, <1>2, <1>4, <1>5, <1>6, <1>7, <2>1, <2>2, <2>3 DEF LimitTypeOK
<1>9. g.effective = IF state.new THEN state.effective ELSE gov.effective
  BY <1>1, RefreshedType
<1>10. BeliefHolds'
  BY <1>1, <1>2, <1>4, <1>5, <1>6, <1>9 DEF BeliefHolds
<1>11. /\ limit \in Nat /\ limit' = limit /\ (sending' # None => sending' \in Nat)
       /\ Cardinality(sounding) \in Nat /\ Cardinality(sounding) <= Cardinality(Active)
       /\ Cardinality(Active) \in Nat /\ h.effective \in Nat
  BY <1>1, <1>2, <1>4, <1>8, LimitNumbers, NextLimitNumbers, CountSounding, LimitBounds
<1>12. /\ Over(limit)' <=> Over(limit)
       /\ Over(sending)' <=> Cardinality(sounding) > sending'
  BY <1>2 DEF Over
<1>13. ASSUME excused \/ (request' # request /\ (adrift \/ loading # None)),
              Over(limit)' \/ (sending' # None /\ Over(sending)')
       PROVE  excused'
  <2> DEFINE because == request' # request /\ (adrift \/ loading # None)
  <2>1. because \in BOOLEAN /\ Excuse(because) /\ (excused \/ because)
    BY <1>1, <1>2, <1>13 DEF LimitTypeOK
  <2> HIDE DEF because
  <2>2. QED
    BY <1>8, <1>13, <2>1, ExcuseKept
<1>14. ASSUME ~adrift, loading = None PROVE h.effective = limit
  BY <1>1, <1>4, <1>9, <1>14 DEF BeliefHolds
<1>15. ASSUME Over(limit)' PROVE excused' \/ Covers(limit)'
  <2>1. CASE excused \/ (request' # request /\ (adrift \/ loading # None))
    BY <1>13, <1>15, <2>1
  <2>2. CASE request' = request /\ ~excused
    BY <1>1, <1>2, <1>12, <1>15, <2>2 DEF VoicesCovered, Covers, Newest
  <2>3. CASE ~adrift /\ loading = None /\ ~excused
    <3>1. Covers(limit) /\ h.effective = limit
      BY <1>1, <1>12, <1>14, <1>15, <2>3 DEF VoicesCovered
    <3>2. CASE request' = request
      BY <1>2, <3>1, <3>2 DEF Covers, Newest
    <3>3. CASE \E n \in Limits : n < h.effective /\ request'.limit = n /\ request' # None
      <4>1. PICK n \in Limits : n < limit /\ request'.limit = n /\ request' # None
        BY <3>1, <3>3
      <4>2. n \in Nat
        BY LimitBounds
      <4>3. Newest' = request'
        BY <4>1 DEF Newest
      <4>4. QED
        BY <1>11, <4>1, <4>2, <4>3 DEF Covers
    <3>4. QED
      BY <1>5, <3>2, <3>3
  <2>4. QED
    BY <2>1, <2>2, <2>3
<1>16. ASSUME sending' # None, Over(sending)'
       PROVE  excused' \/ adrift' \/ loading' # None \/ Covers(sending)'
  <2>1. CASE adrift \/ loading # None \/ excused
    BY <1>2, <1>13, <1>16, <2>1
  <2>2. CASE ~adrift /\ loading = None /\ ~excused
    <3>1. h.effective = limit
      BY <1>14, <2>2
    <3>2. CASE request' # None /\ request'.limit = sending'
      <4>1. Newest' = request'
        BY <3>2 DEF Newest
      <4>2. QED
        BY <1>11, <1>16, <3>2, <4>1 DEF Covers
    <3>3. CASE ~(sending' < h.effective /\ Cardinality(Active) > sending') /\ request' = request
      <4>1. Cardinality(sounding) > sending'
        BY <1>12, <1>16
      <4>2. sending' >= limit
        BY <1>11, <1>16, <3>1, <3>3, <4>1
      <4>3. Over(limit)
        BY <1>11, <1>16, <4>1, <4>2 DEF Over
      <4>4. Covers(limit)
        BY <1>1, <2>2, <4>3 DEF VoicesCovered
      <4>5. Newest' = Newest
        BY <1>2, <3>3 DEF Newest
      <4>6. Newest # None /\ Newest.limit <= limit /\ Newest \in Request
        BY <1>1, <4>4 DEF Covers, Newest, LimitTypeOK
      <4>7. Newest.limit \in Nat
        BY <4>6 DEF Request
      <4>8. QED
        BY <1>11, <1>16, <4>2, <4>5, <4>6, <4>7 DEF Covers
    <3>4. QED
      BY <1>5, <1>16, <3>2, <3>3
  <2>3. QED
    BY <2>1, <2>2
<1>17. VoicesCovered'
  BY <1>15, <1>16 DEF VoicesCovered
<1>18. QED
  BY <1>8, <1>10, <1>17 DEF LimitIInv

LEMMA FaultType ==
  LimitTypeOK /\ Fault => faults' \in 0..MaxFaults
BY LimitAssumption DEF LimitTypeOK, Fault

LEMMA SendLimitCovered ==
  ASSUME LimitIInv, SendLimit
  PROVE  LimitIInv'
<1>1. LimitTypeOK /\ BeliefHolds /\ VoicesCovered
  BY DEF LimitIInv
<1>2. PICK sent \in BOOLEAN :
        /\ IF sent THEN UNCHANGED faults ELSE Fault
        /\ limit' = IF sent THEN sending ELSE limit
        /\ adrift' = IF sent THEN loading # None \/ state.new ELSE adrift
        /\ gov' = [gov EXCEPT !.effective = Believed(sent)]
        /\ Excuse(sent /\ (adrift \/ adrift'))
  BY DEF SendLimit
<1>3. /\ sending # None /\ sending' = None
      /\ UNCHANGED <<load, sounding, loading, state, request, pending, ledger, sustained, pedals,
                     notes, aged, xruns>>
  BY DEF SendLimit, player
<1>4. /\ gov \in GovernorState /\ sending \in Limits /\ limit \in Limits
      /\ Believed(sent) = IF sent THEN sending ELSE gov.effective
  BY <1>1, <1>3 DEF LimitTypeOK, GovernorState, Limits, Believed
<1>5. Believed(sent) \in Limits \cup {None}
  BY <1>4 DEF GovernorState
<1>6. gov' \in GovernorState /\ gov'.effective = Believed(sent)
  BY <1>2, <1>4, <1>5, BelievedType
<1>7. Active' = Active
  BY <1>3 DEF Active
<1>8. LimitTypeOK'
  <2>1. excused' \in BOOLEAN /\ adrift' \in BOOLEAN
    BY <1>1, <1>2 DEF Excuse, LimitTypeOK
  <2>2. gov' \in [effective : Emergency..Ceiling \cup {None}, bootstrapped : BOOLEAN]
    BY <1>6 DEF GovernorState, Limits
  <2>3. limit' \in Emergency..Ceiling
    BY <1>2, <1>4 DEF Limits
  <2>4. faults' \in 0..MaxFaults
    BY <1>1, <1>2, FaultType DEF LimitTypeOK
  <2>5. QED
    BY <1>1, <1>3, <1>7, <2>1, <2>2, <2>3, <2>4 DEF LimitTypeOK
<1>9. BeliefHolds'
  BY <1>1, <1>2, <1>3, <1>4, <1>6 DEF BeliefHolds
<1>10. ASSUME Over(limit)', excused \/ (sent /\ (adrift \/ adrift')) PROVE excused'
  <2> DEFINE because == sent /\ (adrift \/ adrift')
  <2>1. because \in BOOLEAN
    BY <1>1, <1>8 DEF LimitTypeOK
  <2>2. Excuse(because) /\ (excused \/ because)
    BY <1>2, <1>10
  <2> HIDE DEF because
  <2>3. QED
    BY <1>8, <1>10, <2>1, <2>2, ExcuseKept
<1>11. Newest' = Newest
  BY <1>3 DEF Newest
<1>12. ASSUME Over(limit)' PROVE excused' \/ Covers(limit)'
  <2>1. CASE sent
    <3>1. Over(sending) /\ limit' = sending
      BY <1>2, <1>3, <1>12, <2>1 DEF Over
    <3>2. excused \/ adrift \/ loading # None \/ state.new \/ Covers(sending)
      BY <1>1, <1>3, <3>1 DEF VoicesCovered
    <3>3. loading # None \/ state.new => adrift'
      BY <1>2, <2>1
    <3>4. QED
      BY <1>10, <1>11, <1>12, <2>1, <3>1, <3>2, <3>3 DEF Covers
  <2>2. CASE ~sent
    <3>1. Over(limit) /\ limit' = limit
      BY <1>2, <1>3, <1>12, <2>2 DEF Over
    <3>2. excused \/ Covers(limit)
      BY <1>1, <3>1 DEF VoicesCovered
    <3>3. QED
      BY <1>10, <1>11, <1>12, <3>1, <3>2 DEF Covers
  <2>3. QED
    BY <2>1, <2>2
<1>13. VoicesCovered'
  BY <1>3, <1>12 DEF VoicesCovered
<1>14. QED
  BY <1>8, <1>9, <1>13 DEF LimitIInv

LEMMA GovernorRestartsCovered ==
  ASSUME LimitIInv, GovernorRestarts
  PROVE  LimitIInv'
<1>1. LimitTypeOK /\ BeliefHolds /\ VoicesCovered
  BY DEF LimitIInv
<1>2. /\ gov' = Fresh /\ sending' = None /\ state' = [state EXCEPT !.new = TRUE] /\ adrift' = TRUE
      /\ faults' \in 0..MaxFaults
      /\ UNCHANGED <<load, limit, sounding, loading, request, pending, ledger, sustained, pedals,
                     notes, aged, excused, xruns>>
  BY <1>1, FaultType DEF GovernorRestarts, player
<1>3. /\ state' \in [effective : OnLoad, new : BOOLEAN]
      /\ gov' \in [effective : Emergency..Ceiling \cup {None}, bootstrapped : BOOLEAN]
  BY <1>1, <1>2 DEF LimitTypeOK, Fresh
<1>4. Active' = Active
  BY <1>2 DEF Active
<1>5. LimitTypeOK'
  BY <1>1, <1>2, <1>3, <1>4 DEF LimitTypeOK
<1>6. BeliefHolds'
  BY <1>2 DEF BeliefHolds
<1>7. VoicesCovered'
  BY <1>1, <1>2 DEF VoicesCovered, Over, Covers, Newest
<1>8. QED
  BY <1>5, <1>6, <1>7 DEF LimitIInv

LEMMA LoadPatchCovered ==
  ASSUME LimitIInv, LoadPatch
  PROVE  LimitIInv'
<1>1. LimitTypeOK
  BY DEF LimitIInv
<1>2. PICK e \in OnLoad, sent \in BOOLEAN :
        loading' = e /\ limit' = (IF sent THEN e ELSE limit) /\ adrift' = (limit' # e)
  BY DEF LoadPatch
<1>3. /\ faults' \in 0..MaxFaults /\ Excuse(TRUE)
      /\ UNCHANGED <<load, sounding, state, gov, sending, request, pending, ledger, sustained,
                     pedals, notes, aged, xruns>>
  BY <1>1, FaultType DEF LoadPatch, player, governor
<1>4. e \in Limits /\ e # None
  BY LimitBounds
<1>5. Active' = Active
  BY <1>3 DEF Active
<1>6. LimitTypeOK'
  <2>1. excused' \in BOOLEAN
    BY <1>3 DEF Excuse
  <2>2. limit' \in Emergency..Ceiling
    BY <1>1, <1>2, <1>4 DEF LimitTypeOK, Limits
  <2>3. QED
    BY <1>1, <1>2, <1>3, <1>5, <2>1, <2>2 DEF LimitTypeOK
<1>7. BeliefHolds'
  BY <1>2, <1>4 DEF BeliefHolds
<1>8. Over(limit)' => excused'
  <2> DEFINE because == TRUE
  <2>1. Excuse(because) /\ because /\ because \in BOOLEAN
    BY <1>3
  <2> HIDE DEF because
  <2>2. QED
    BY <1>6, <2>1, ExcuseKept
<1>9. VoicesCovered'
  BY <1>2, <1>4, <1>8 DEF VoicesCovered
<1>10. QED
  BY <1>6, <1>7, <1>9 DEF LimitIInv

LEMMA TellGovernorCovered ==
  ASSUME LimitIInv, TellGovernor
  PROVE  LimitIInv'
<1>1. LimitTypeOK /\ BeliefHolds /\ VoicesCovered
  BY DEF LimitIInv
<1>2. /\ loading # None /\ loading' = None /\ state' = [effective |-> loading, new |-> TRUE]
      /\ UNCHANGED <<load, limit, sounding, gov, sending, request, pending, ledger, sustained,
                     pedals, notes, aged, adrift, excused, xruns, faults>>
  BY DEF TellGovernor, player, governor, bounds
<1>3. loading \in OnLoad /\ Active' = Active
  BY <1>1, <1>2 DEF LimitTypeOK, Active
<1>4. state' \in [effective : OnLoad, new : BOOLEAN] /\ state'.new /\ state'.effective = loading
  BY <1>2, <1>3
<1>5. LimitTypeOK'
  BY <1>1, <1>2, <1>3, <1>4 DEF LimitTypeOK
<1>6. BeliefHolds'
  BY <1>1, <1>2, <1>4 DEF BeliefHolds
<1>7. VoicesCovered'
  BY <1>1, <1>2, <1>4 DEF VoicesCovered, Over, Covers, Newest
<1>8. QED
  BY <1>5, <1>6, <1>7 DEF LimitIInv

\* What a note does to the ledger leaves the rest of the books alone.
LEMMA NotesLeaveBelief ==
  ASSUME BeliefHolds, UNCHANGED <<limit, loading, state, gov, adrift>>
  PROVE  BeliefHolds'
BY DEF BeliefHolds

LEMMA StrikeCovered ==
  ASSUME LimitIInv, NEW k \in Keys, Strike(k)
  PROVE  LimitIInv'
<1>1. LimitTypeOK /\ BeliefHolds
  BY DEF LimitIInv
<1>2. /\ notes < MaxNotes /\ notes' = notes + 1
      /\ ledger' = [ledger EXCEPT ![k] = notes + 1] /\ sustained' = sustained \ {k}
      /\ sounding' \subseteq sounding \cup {k} /\ Excuse(TRUE)
      /\ UNCHANGED <<load, limit, loading, state, gov, sending, request, pending, pedals, aged,
                     adrift, xruns, faults>>
  BY DEF Strike, governor, bounds
<1>3. notes \in Nat /\ MaxNotes \in Nat /\ ledger \in [Keys -> 0..notes]
  BY <1>1, LimitAssumption DEF LimitTypeOK
<1>4. ledger' \in [Keys -> 0..notes'] /\ Active' = Active \cup {k}
  <2>1. \A j \in Keys : ledger'[j] = IF j = k THEN notes + 1 ELSE ledger[j]
    BY <1>2, <1>3
  <2>2. \A j \in Keys : ledger'[j] \in 0..(notes + 1)
    BY <1>3, <2>1
  <2>3. ledger' \in [Keys -> 0..notes']
    BY <1>2, <1>3, <2>2
  <2>4. Active' = Active \cup {k}
    BY <1>3, <2>1 DEF Active
  <2>5. QED
    BY <2>3, <2>4
<1>5. LimitTypeOK'
  <2>1. excused' \in BOOLEAN
    BY <1>2 DEF Excuse
  <2>2. notes' \in 0..MaxNotes /\ aged' \in 0..notes'
    BY <1>1, <1>2, <1>3 DEF LimitTypeOK
  <2>3. sounding' \subseteq Active' /\ sustained' \subseteq Active'
    BY <1>1, <1>2, <1>4 DEF LimitTypeOK
  <2>4. ~pedals' => sustained' = {}
    BY <1>1, <1>2 DEF LimitTypeOK
  <2>5. QED
    BY <1>1, <1>2, <1>4, <2>1, <2>2, <2>3, <2>4 DEF LimitTypeOK
<1>6. Over(limit)' \/ (sending' # None /\ Over(sending)') => excused'
  <2> DEFINE because == TRUE
  <2>1. Excuse(because) /\ because /\ because \in BOOLEAN
    BY <1>2
  <2> HIDE DEF because
  <2>2. QED
    BY <1>5, <2>1, ExcuseKept
<1>7. VoicesCovered'
  BY <1>6 DEF VoicesCovered
<1>8. QED
  BY <1>1, <1>2, <1>5, <1>7, NotesLeaveBelief DEF LimitIInv

LEMMA LetGoCovered ==
  ASSUME LimitIInv, NEW k \in Keys, LetGo(k)
  PROVE  LimitIInv'
<1>1. LimitTypeOK /\ BeliefHolds /\ VoicesCovered
  BY DEF LimitIInv
<1>2. /\ k \in Active /\ k \notin sustained /\ Excuse(FALSE)
      /\ UNCHANGED <<load, limit, loading, state, gov, sending, request, pending, pedals, notes,
                     aged, adrift, xruns, faults>>
  BY DEF LetGo, governor, bounds
<1>3. notes \in Nat /\ ledger \in [Keys -> 0..notes]
  BY <1>1 DEF LimitTypeOK
<1>4. /\ ledger' \in [Keys -> 0..notes] /\ sounding' \subseteq sounding
      /\ sounding' \subseteq Active' /\ sustained' \subseteq Active' /\ (~pedals => sustained' = {})
  <2>1. CASE pedals
    <3>1. UNCHANGED <<ledger, sounding>> /\ sustained' = sustained \cup {k}
      BY <2>1 DEF LetGo
    <3>2. QED
      BY <1>1, <1>2, <2>1, <3>1 DEF LimitTypeOK, Active
  <2>2. CASE ~pedals
    <3>1. ledger' = [ledger EXCEPT ![k] = 0] /\ sounding' = sounding \ {k} /\ sustained' = sustained
      BY <2>2 DEF LetGo
    <3>2. /\ ledger' \in [Keys -> 0..notes]
          /\ \A j \in Keys : j # k => ledger'[j] = ledger[j]
      BY <1>3, <3>1
    <3>3. Active \ {k} \subseteq Active'
      BY <3>2 DEF Active
    <3>4. QED
      BY <1>1, <1>2, <2>2, <3>1, <3>2, <3>3 DEF LimitTypeOK
  <2>3. QED
    BY <2>1, <2>2 DEF LimitTypeOK
<1>5. LimitTypeOK'
  <2>1. excused' \in BOOLEAN
    BY <1>2 DEF Excuse
  <2>2. QED
    BY <1>1, <1>2, <1>4, <2>1 DEF LimitTypeOK
<1>6. VoicesCovered'
  BY <1>1, <1>2, <1>4, <1>5, CoverKept
<1>7. QED
  BY <1>1, <1>2, <1>5, <1>6, NotesLeaveBelief DEF LimitIInv

LEMMA PedalCovered ==
  ASSUME LimitIInv, PressPedal \/ LiftPedal
  PROVE  LimitIInv'
<1>1. LimitTypeOK /\ BeliefHolds /\ VoicesCovered
  BY DEF LimitIInv
<1>2. /\ UNCHANGED <<load, limit, loading, state, gov, sending, request, pending, notes, aged,
                     adrift, xruns, faults>>
      /\ UNCHANGED excused \/ Excuse(FALSE)
  BY DEF PressPedal, LiftPedal, governor, bounds
<1>3. notes \in Nat /\ ledger \in [Keys -> 0..notes]
  BY <1>1 DEF LimitTypeOK
<1>4. /\ ledger' \in [Keys -> 0..notes] /\ sounding' \subseteq sounding /\ pedals' \in BOOLEAN
      /\ sounding' \subseteq Active' /\ sustained' \subseteq Active' /\ (~pedals' => sustained' = {})
  <2>1. CASE PressPedal
    BY <1>1, <2>1 DEF PressPedal, LimitTypeOK, Active
  <2>2. CASE LiftPedal
    <3>1. /\ ledger' = [k \in Keys |-> IF k \in sustained THEN 0 ELSE ledger[k]]
          /\ sounding' = sounding \ sustained /\ sustained' = {} /\ pedals' = FALSE
      BY <2>2 DEF LiftPedal
    <3>2. Active \ sustained \subseteq Active' /\ ledger' \in [Keys -> 0..notes]
      BY <1>3, <3>1 DEF Active
    <3>3. QED
      BY <1>1, <3>1, <3>2 DEF LimitTypeOK
  <2>3. QED
    BY <2>1, <2>2
<1>5. LimitTypeOK'
  <2>1. excused' \in BOOLEAN
    BY <1>1, <1>2 DEF Excuse, LimitTypeOK
  <2>2. QED
    BY <1>1, <1>2, <1>4, <2>1 DEF LimitTypeOK
<1>6. VoicesCovered'
  BY <1>1, <1>2, <1>4, <1>5, CoverKept
<1>7. QED
  BY <1>1, <1>2, <1>5, <1>6, NotesLeaveBelief DEF LimitIInv

LEMMA TimeCovered ==
  ASSUME LimitIInv, Age \/ LoadChanges \/ UNCHANGED limitVars
  PROVE  LimitIInv'
<1>1. LimitTypeOK /\ BeliefHolds /\ VoicesCovered
  BY DEF LimitIInv
<1>2. /\ UNCHANGED <<limit, sounding, loading, state, gov, sending, request, pending, ledger,
                     sustained, pedals, notes, adrift, excused, xruns, faults>>
      /\ load' \in {"calm", "high", "hard"} /\ aged' \in {aged, notes}
  BY <1>1 DEF Age, LoadChanges, limitVars, governor, player, bounds, LimitTypeOK
<1>3. Active' = Active /\ aged' \in 0..notes
  BY <1>1, <1>2 DEF Active, LimitTypeOK
<1>4. LimitTypeOK'
  BY <1>1, <1>2, <1>3 DEF LimitTypeOK
<1>5. VoicesCovered'
  BY <1>1, <1>2, <1>4, CoverKept
<1>6. QED
  BY <1>1, <1>2, <1>4, <1>5, NotesLeaveBelief DEF LimitIInv

\* The notes older than one are fewer than those older than a younger one: when fewer
\* notes are released than asked for, none of those eligible is left.
LEMMA OldestReleased ==
  ASSUME LimitTypeOK, NEW E, E \subseteq Keys, NEW excess \in Int, NEW R,
         R = {k \in E : Cardinality({j \in E : ledger[j] < ledger[k]}) < excess},
         Cardinality(R) < excess
  PROVE  R = E
<1> DEFINE Older(k) == {j \in E : ledger[j] < ledger[k]}
           Rest == E \ R
           Ordering == StrictSubsetOrdering(Keys)
<1> SUFFICES ASSUME Rest # {} PROVE FALSE
  OBVIOUS
<1>1. \A k \in Keys : ledger[k] \in Nat
  BY DEF LimitTypeOK
<1>2. IsFiniteSet(R) /\ Cardinality(R) \in Nat
  BY LimitAssumption, FS_Subset, FS_CardinalityType
<1>3. \A k \in Rest : Older(k) \in FiniteSubsetsOf(Keys)
  BY LimitAssumption, FS_Subset DEF FiniteSubsetsOf
<1>4. PICK x \in {Older(k) : k \in Rest} : \A y \in {Older(k) : k \in Rest} : ~ (<<y, x>> \in Ordering)
  <2>1. IsWellFoundedOn(Ordering, FiniteSubsetsOf(Keys))
    BY FS_StrictSubsetOrderingWellFounded
  <2>2. {Older(k) : k \in Rest} \subseteq FiniteSubsetsOf(Keys) /\ {Older(k) : k \in Rest} # {}
    <3> HIDE DEF Older, Rest
    <3>1. QED
      BY <1>3
  <2>3. QED
    BY <2>1, <2>2, WFMin
<1>5. PICK m \in Rest : x = Older(m)
  BY <1>4
<1>6. ASSUME NEW j \in Older(m), j \in Rest PROVE FALSE
  <2>1. j \in E /\ ledger[j] < ledger[m] /\ ledger[j] \in Nat /\ ledger[m] \in Nat
    BY <1>1, <1>6
  <2>2. j \in Older(m) /\ j \notin Older(j)
    BY <1>6, <2>1
  <2>3. \A i \in Older(j) : i \in Older(m)
    BY <1>1, <2>1
  <2>4. <<Older(j), Older(m)>> \in Ordering
    BY <2>2, <2>3 DEF StrictSubsetOrdering
  <2>5. QED
    BY <1>4, <1>5, <1>6, <2>4
<1>7. Older(m) \subseteq R
  BY <1>6
<1>8. Cardinality(Older(m)) <= Cardinality(R) /\ Cardinality(Older(m)) \in Nat
  BY <1>2, <1>7, FS_Subset, FS_CardinalityType
<1>9. m \in R
  BY <1>2, <1>5, <1>8
<1>10. QED
  BY <1>5, <1>9

\* What a request comes to: the notes released are of those it asks for, and when it is
\* done with none of those asked for left over, as many as were too many.
LEMMA ShedComesTo ==
  ASSUME LimitTypeOK, NEW polls \in BOOLEAN, ShedPass(polls)
  PROVE  \E release, asked : \E done \in BOOLEAN :
           LET p == IF polls /\ request # None THEN request ELSE pending
           IN /\ p \in [limit : Nat, at : 0..MaxNotes] /\ p # None
              /\ release \subseteq asked /\ asked \subseteq Active \ sustained
              /\ done /\ release # asked =>
                   Cardinality(release) >= Cardinality(Active) - p.limit
              /\ ledger' = [k \in Keys |-> IF k \in release THEN 0 ELSE ledger[k]]
              /\ sounding' = sounding \ release
              /\ pending' = IF done THEN None ELSE p
              /\ request' = IF done \/ polls THEN None ELSE request
              /\ Excuse(done /\ (release = asked \/ (~polls /\ request # None)))
<1> DEFINE p        == IF polls /\ request # None THEN request ELSE pending
           excess   == Cardinality(Active) - p.limit
           asked    == {k \in Active : ledger[k] <= p.at /\ k \notin sustained /\ ~pedals}
           eligible == {k \in asked : ledger[k] <= aged}
           release  == {k \in eligible :
                          Cardinality({j \in eligible : ledger[j] < ledger[k]}) < excess}
           done     == Done(excess, release, asked \ eligible)
<1>1. /\ p # None
      /\ ledger' = [k \in Keys |-> IF k \in release THEN 0 ELSE ledger[k]]
      /\ sounding' = sounding \ release
      /\ pending' = IF done THEN None ELSE p
      /\ request' = IF done \/ polls THEN None ELSE request
      /\ Excuse(done /\ (release = asked \/ (~polls /\ request # None)))
  BY DEF ShedPass
<1>2. p \in [limit : Nat, at : 0..MaxNotes]
  BY <1>1 DEF LimitTypeOK, Request
<1>3. release \subseteq asked /\ asked \subseteq Active \ sustained /\ eligible \subseteq asked
  OBVIOUS
<1>4. excess \in Int
  BY <1>2, CountSounding
<1>5. eligible \subseteq Keys /\ asked \subseteq Keys
  BY DEF Active
<1>6. release \subseteq Keys
  BY <1>5
<1>7. Cardinality(release) \in Nat
  BY <1>6, LimitAssumption, FS_Subset, FS_CardinalityType
<1>8. ASSUME done, release # asked PROVE Cardinality(release) >= excess
  <2>1. Cardinality(release) >= excess \/ asked \ eligible = {}
    BY <1>8 DEF Done
  <2>2. ASSUME Cardinality(release) < excess PROVE release = eligible
    BY <1>4, <1>5, <2>2, OldestReleased
  <2>3. QED
    BY <1>3, <1>4, <1>7, <1>8, <2>1, <2>2
<1>9. done \in BOOLEAN
  BY DEF Done
<1> HIDE DEF asked, eligible, release, done
<1>10. QED
  BY <1>1, <1>2, <1>3, <1>8, <1>9

LEMMA ShedPassCovered ==
  ASSUME LimitIInv, NEW polls \in BOOLEAN, ShedPass(polls)
  PROVE  LimitIInv'
<1>1. LimitTypeOK /\ BeliefHolds /\ VoicesCovered
  BY DEF LimitIInv
<1> DEFINE p == IF polls /\ request # None THEN request ELSE pending
<1>2. PICK release, asked : \E done \in BOOLEAN :
        /\ p \in [limit : Nat, at : 0..MaxNotes] /\ p # None
        /\ release \subseteq asked /\ asked \subseteq Active \ sustained
        /\ done /\ release # asked =>
             Cardinality(release) >= Cardinality(Active) - p.limit
        /\ ledger' = [k \in Keys |-> IF k \in release THEN 0 ELSE ledger[k]]
        /\ sounding' = sounding \ release
        /\ pending' = IF done THEN None ELSE p
        /\ request' = IF done \/ polls THEN None ELSE request
        /\ Excuse(done /\ (release = asked \/ (~polls /\ request # None)))
  BY <1>1, ShedComesTo
<1>3. PICK done \in BOOLEAN :
        /\ p \in [limit : Nat, at : 0..MaxNotes] /\ p # None
        /\ release \subseteq asked /\ asked \subseteq Active \ sustained
        /\ done /\ release # asked =>
             Cardinality(release) >= Cardinality(Active) - p.limit
        /\ ledger' = [k \in Keys |-> IF k \in release THEN 0 ELSE ledger[k]]
        /\ sounding' = sounding \ release
        /\ pending' = IF done THEN None ELSE p
        /\ request' = IF done \/ polls THEN None ELSE request
        /\ Excuse(done /\ (release = asked \/ (~polls /\ request # None)))
  BY <1>2
<1>4. UNCHANGED <<load, limit, loading, state, gov, sending, sustained, pedals, notes, aged,
                  adrift, xruns, faults>>
  BY DEF ShedPass, governor, bounds
<1>5. notes \in Nat /\ ledger \in [Keys -> 0..notes] /\ sounding \subseteq Active
  BY <1>1 DEF LimitTypeOK
<1>6. Active' = Active \ release /\ ledger' \in [Keys -> 0..notes]
  BY <1>3, <1>5 DEF Active
<1>7. LimitTypeOK'
  <2>1. excused' \in BOOLEAN
    BY <1>3 DEF Excuse
  <2>2. pending' \in Request /\ request' \in Request
    BY <1>1, <1>3 DEF LimitTypeOK, Request
  <2>3. sounding' \subseteq Active' /\ sustained' \subseteq Active'
    BY <1>1, <1>3, <1>4, <1>6 DEF LimitTypeOK
  <2>4. QED
    BY <1>1, <1>4, <1>6, <2>1, <2>2, <2>3 DEF LimitTypeOK
<1> DEFINE because == done /\ (release = asked \/ (~polls /\ request # None))
<1>8. because \in BOOLEAN /\ Excuse(because)
  BY <1>3
<1>9. ASSUME excused \/ because, Over(limit)' \/ (sending' # None /\ Over(sending)')
      PROVE  excused'
  <2> HIDE DEF because
  <2>1. QED
    BY <1>7, <1>8, <1>9, ExcuseKept
<1>10. ~done => Newest' = Newest
  BY <1>3 DEF Newest
<1>11. ASSUME done, ~because, NEW n \in Nat, Over(n)' PROVE ~(Newest # None /\ Newest.limit <= n)
  <2>1. p = Newest /\ release # asked
    BY <1>11 DEF Newest
  <2>2. /\ IsFiniteSet(Active) /\ Cardinality(Active) \in Nat
    BY <1>1, CountSounding
  <2>3. Active \cap release = release
    BY <1>3
  <2>4. Cardinality(Active') = Cardinality(Active) - Cardinality(release)
    BY <1>6, <2>2, <2>3, FS_Difference
  <2>5. /\ Cardinality(sounding') \in Nat
        /\ Cardinality(sounding') <= Cardinality(Active')
    <3>1. sounding' \subseteq Active' /\ IsFiniteSet(Active')
      BY <1>6, <1>7, <2>2, FS_Subset DEF LimitTypeOK
    <3>2. QED
      BY <3>1, FS_Subset, FS_CardinalityType
  <2>6. Cardinality(release) \in Nat
    BY <1>3, <2>2, <2>3, FS_Subset, FS_CardinalityType
  <2>7. p.limit \in Nat /\ Cardinality(release) >= Cardinality(Active) - p.limit
    BY <1>3, <1>11, <2>1
  <2>8. Cardinality(sounding') > n
    BY <1>11 DEF Over
  <2> HIDE DEF p
  <2>9. p.limit > n
    BY <2>2, <2>4, <2>5, <2>6, <2>7, <2>8
  <2>10. QED
    BY <2>1, <2>7, <2>9
<1>12. \A n \in Nat : Over(n)' => Over(n)
  BY <1>1, <1>3, <1>7, FewerSound
<1>13. limit \in Nat /\ limit' = limit /\ sending' = sending /\ (sending # None => sending \in Nat)
  BY <1>1, <1>4, LimitNumbers
<1>14. ASSUME Over(limit)' PROVE excused' \/ Covers(limit)'
  <2>1. Over(limit)
    BY <1>12, <1>13, <1>14 DEF Over
  <2>2. excused \/ Covers(limit)
    BY <1>1, <2>1 DEF VoicesCovered
  <2>3. CASE excused \/ because
    BY <1>9, <1>14, <2>3
  <2>4. CASE ~done
    BY <1>9, <1>10, <1>13, <1>14, <2>2, <2>4 DEF Covers
  <2>5. ASSUME done, ~because, ~excused PROVE FALSE
    BY <1>11, <1>13, <1>14, <2>2, <2>5 DEF Covers, Over
  <2>6. QED
    BY <1>3, <2>3, <2>4, <2>5
<1>15. ASSUME sending' # None, Over(sending)'
       PROVE  excused' \/ adrift' \/ loading' # None \/ state'.new \/ Covers(sending)'
  <2>1. Over(sending)
    BY <1>12, <1>13, <1>15 DEF Over
  <2>2. excused \/ adrift \/ loading # None \/ state.new \/ Covers(sending)
    BY <1>1, <1>13, <1>15, <2>1 DEF VoicesCovered
  <2>3. CASE excused \/ because
    BY <1>9, <1>15, <2>3
  <2>4. CASE adrift \/ loading # None \/ state.new
    BY <1>4, <2>4
  <2>5. CASE ~done
    BY <1>4, <1>9, <1>10, <1>13, <1>15, <2>2, <2>5 DEF Covers
  <2>6. ASSUME done, ~because, Covers(sending) PROVE FALSE
    BY <1>11, <1>13, <1>15, <2>6 DEF Covers, Over
  <2>7. QED
    BY <1>3, <2>2, <2>3, <2>4, <2>5, <2>6
<1>16. VoicesCovered'
  BY <1>14, <1>15 DEF VoicesCovered
<1>17. QED
  BY <1>1, <1>4, <1>7, <1>16, NotesLeaveBelief DEF LimitIInv

LEMMA LimitStarts == LimitInit => LimitIInv
<1> SUFFICES ASSUME LimitInit PROVE LimitIInv
  OBVIOUS
<1>1. /\ load = "calm" /\ sounding = {} /\ loading = None
      /\ limit \in OnLoad /\ state = [effective |-> limit, new |-> TRUE]
      /\ gov = Fresh /\ sending = None /\ request = None /\ pending = None
      /\ ledger = [k \in Keys |-> 0] /\ sustained = {} /\ pedals = FALSE
      /\ notes = 0 /\ aged = 0 /\ adrift = FALSE /\ excused = FALSE /\ xruns = 0 /\ faults = 0
  BY DEF LimitInit
<1>2. /\ limit \in Emergency..Ceiling
      /\ state \in [effective : OnLoad, new : BOOLEAN] /\ state.new /\ state.effective = limit
      /\ gov \in [effective : Emergency..Ceiling \cup {None}, bootstrapped : BOOLEAN]
  BY <1>1, LimitBounds DEF Limits, Fresh
<1>3. {MaxNotes, MaxXruns, MaxFaults} \subseteq Nat
  BY LimitAssumption
<1>4. LimitTypeOK
  <2>1. ledger \in [Keys -> 0..notes] /\ None \in Request
    BY <1>1 DEF Request
  <2>2. /\ notes \in 0..MaxNotes /\ aged \in 0..notes
        /\ xruns \in 0..MaxXruns /\ faults \in 0..MaxFaults
    BY <1>1, <1>3
  <2> USE DEF LimitTypeOK
  <2>3. QED
    BY <1>1, <1>2, <2>1, <2>2
<1>5. BeliefHolds
  BY <1>1, <1>2 DEF BeliefHolds
<1>6. ~Over(limit)
  <2>1. Cardinality(sounding) = 0 /\ limit \in Nat
    BY <1>1, <1>4, LimitNumbers, FS_EmptySet
  <2>2. QED
    BY <2>1 DEF Over
<1>7. VoicesCovered
  BY <1>1, <1>6 DEF VoicesCovered
<1>8. QED
  BY <1>4, <1>5, <1>7 DEF LimitIInv

LEMMA LimitSteps == LimitIInv /\ [LimitNext]_limitVars => LimitIInv'
<1> SUFFICES ASSUME LimitIInv, [LimitNext]_limitVars PROVE LimitIInv'
  OBVIOUS
<1>1. CASE Govern
  BY <1>1, TickCovered, SendLimitCovered DEF Govern
<1>2. CASE GovernorRestarts
  BY <1>2, GovernorRestartsCovered
<1>3. CASE Browser
  BY <1>3, LoadPatchCovered, TellGovernorCovered DEF Browser
<1>4. CASE Player
  BY <1>4, PedalCovered, StrikeCovered, LetGoCovered DEF Player
<1>5. CASE Age \/ LoadChanges \/ UNCHANGED limitVars
  BY <1>5, TimeCovered
<1>6. CASE \E polls \in BOOLEAN : ShedPass(polls)
  BY <1>6, ShedPassCovered
<1>7. QED
  BY <1>1, <1>2, <1>3, <1>4, <1>5, <1>6 DEF LimitNext

\* The voice limit, its requests and the ledger keep their types, and every voice that
\* sounds is in the ledger the remapper sheds from.
THEOREM LimitTyping == LimitSpec => []LimitTypeOK
<1>1. LimitIInv => LimitTypeOK
  BY DEF LimitIInv
<1>2. QED
  BY LimitStarts, LimitSteps, <1>1, PTL DEF LimitSpec

\* Whenever more voices sound than Surge's limit allows, the newest request the remapper
\* has still to deal with asks for the limit or less, or the voices are of those no request
\* covers: what the player, time and a load that rises and falls do between the governor's
\* request and the shedding loses none.
THEOREM ShedsAreAsked == LimitSpec => []VoicesCovered
<1>1. LimitIInv => VoicesCovered
  BY DEF LimitIInv
<1>2. QED
  BY LimitStarts, LimitSteps, <1>1, PTL DEF LimitSpec
=============================================================================
