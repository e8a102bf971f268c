-------------------------- MODULE LivePath_proofs --------------------------
(***************************************************************************)
(* Theorems about the live signal.  LivePath: what a repair's plan does to  *)
(* any graph, and the types of the state, for any channels, faults and     *)
(* glitches.  MonitorLevel: the types, and that a capture in progress is   *)
(* not forgotten, for any loops, handlers and losses.                      *)
(***************************************************************************)
EXTENDS LivePath, MonitorLevel, FiniteSetTheorems, SequenceTheorems, TLAPS

(***************************************************************************)
(* The routing authority.                                                  *)
(***************************************************************************)

LEMMA SourceType ==
  ASSUME NEW g
  PROVE  FanoutSource(g) \in {"surge", "fx"}
BY DEF FanoutSource

LEMMA PathsType ==
  ASSUME NEW g, NEW d, NEW ch
  PROVE  /\ Direct(g, d, ch) \in {0, 1} /\ ThroughFx(g, d, ch) \in {0, 1}
         /\ IntoMon(g, ch) \in 0..2 /\ Paths(g, d, ch) \in 0..4
<1>1. \A x : Direct(g, x, ch) \in {0, 1}
  BY DEF Direct
<1>2. \A x : ThroughFx(g, x, ch) \in {0, 1}
  BY <1>1 DEF ThroughFx
<1>3. IntoMon(g, ch) \in 0..2
  BY <1>1, <1>2 DEF IntoMon
<1>4. Paths(g, d, ch) \in 0..4
  BY <1>1, <1>2, <1>3 DEF Paths
<1> QED BY <1>1, <1>2, <1>3, <1>4

\* A plan only feeds the ends of the graph.
LEMMA PlanFeedsEnds ==
  ASSUME NEW g, NEW clients, NEW e \in Plan(g, clients)
  PROVE  \E d \in {"loop", "playback"}, ch \in Channels :
           /\ e = <<FanoutSource(g), d, ch>>
           /\ <<d, ch>> \in Destinations(g, clients)
           /\ Paths(g, d, ch) = 0
<1>1. PICK c \in Destinations(g, clients) :
        Paths(g, c[1], c[2]) = 0 /\ e = <<FanoutSource(g), c[1], c[2]>>
  BY DEF Plan
<1>2. PICK d \in {"loop", "playback"}, ch \in Channels : c = <<d, ch>>
  BY <1>1 DEF Destinations
<1> QED BY <1>1, <1>2

LEMMA PlanEdges ==
  ASSUME NEW g, NEW clients, NEW s, NEW d, NEW ch,
         <<s, d, ch>> \in Plan(g, clients)
  PROVE  /\ s = FanoutSource(g) /\ d \in {"loop", "playback"} /\ ch \in Channels
         /\ Paths(g, d, ch) = 0
<1>1. PICK x \in {"loop", "playback"}, c \in Channels :
        <<s, d, ch>> = <<FanoutSource(g), x, c>> /\ Paths(g, x, c) = 0
  BY PlanFeedsEnds
<1> QED BY <1>1

\* Edges into the ends leave what reaches the inserts as it was.
LEMMA EndsDoNotFeedInserts ==
  ASSUME NEW g, NEW clients, NEW ch
  PROVE  LET h == g \cup Plan(g, clients)
         IN  /\ \A s, d : d \notin {"loop", "playback"} =>
                            (<<s, d, ch>> \in h <=> <<s, d, ch>> \in g)
             /\ \A d : <<"mon", d, ch>> \in h <=> <<"mon", d, ch>> \in g
             /\ Direct(h, "fx", ch) = Direct(g, "fx", ch)
             /\ IntoMon(h, ch) = IntoMon(g, ch)
<1> DEFINE h == g \cup Plan(g, clients)
<1>1. ASSUME NEW s, NEW d, d \notin {"loop", "playback"}
      PROVE  <<s, d, ch>> \in h <=> <<s, d, ch>> \in g
  BY <1>1, PlanEdges
<1>2. ASSUME NEW d
      PROVE  <<"mon", d, ch>> \in h <=> <<"mon", d, ch>> \in g
  BY PlanEdges, SourceType
<1>3. Direct(h, "fx", ch) = Direct(g, "fx", ch)
  BY <1>1 DEF Direct
<1>4. Direct(h, "mon", ch) = Direct(g, "mon", ch)
  BY <1>1 DEF Direct
<1>5. ThroughFx(h, "mon", ch) = ThroughFx(g, "mon", ch)
  BY <1>1, <1>3 DEF ThroughFx
<1>6. IntoMon(h, ch) = IntoMon(g, ch)
  BY <1>4, <1>5 DEF IntoMon
<1> QED BY <1>1, <1>2, <1>3, <1>6

\* What audio_routing.plan() lists reaches what is to be reached: with all its
\* connections made, no destination the fan-out owns is silent.
THEOREM PlanReachesAll ==
  ASSUME NEW g, NEW clients, NEW d \in {"loop", "playback"}, NEW ch \in Channels,
         <<d, ch>> \in Destinations(g, clients)
  PROVE  Paths(g \cup Plan(g, clients), d, ch) >= 1
<1> DEFINE h == g \cup Plan(g, clients)
<1>1. /\ Direct(h, d, ch) \in {0, 1} /\ ThroughFx(h, d, ch) \in {0, 1}
      /\ Direct(g, d, ch) \in {0, 1} /\ ThroughFx(g, d, ch) \in {0, 1}
      /\ IntoMon(h, ch) \in 0..2 /\ IntoMon(g, ch) \in 0..2
  BY PathsType
<1>2. /\ \A x : <<"mon", x, ch>> \in h <=> <<"mon", x, ch>> \in g
      /\ Direct(h, "fx", ch) = Direct(g, "fx", ch)
      /\ IntoMon(h, ch) = IntoMon(g, ch)
  BY EndsDoNotFeedInserts
<1>3. CASE Paths(g, d, ch) = 0
  <2>1. <<FanoutSource(g), d, ch>> \in h
    BY <1>3 DEF Plan
  <2>2. CASE TrunkCarries(g)
    <3>1. <<"fx", d, ch>> \in h
      BY <2>1, <2>2 DEF FanoutSource
    <3>2. Direct(h, "fx", ch) = 1
      BY <2>2, <1>2 DEF TrunkCarries, Direct
    <3>3. ThroughFx(h, d, ch) = 1
      BY <3>1, <3>2 DEF ThroughFx
    <3> HIDE DEF h
    <3>4. Paths(h, d, ch) >= 1
      BY <1>1, <3>3 DEF Paths
    <3> QED BY <3>4 DEF h
  <2>3. CASE ~TrunkCarries(g)
    <3>1. Direct(h, d, ch) = 1
      BY <2>1, <2>3 DEF FanoutSource, Direct
    <3> HIDE DEF h
    <3>2. Paths(h, d, ch) >= 1
      BY <1>1, <3>1 DEF Paths
    <3> QED BY <3>2 DEF h
  <2> QED BY <2>2, <2>3
<1>4. CASE Paths(g, d, ch) # 0
  <2>1. Direct(h, d, ch) >= Direct(g, d, ch)
    BY DEF Direct
  <2>2. ThroughFx(h, d, ch) >= ThroughFx(g, d, ch)
    BY <1>1, <1>2 DEF ThroughFx
  <2>3. Paths(h, d, ch) >= Paths(g, d, ch)
    <3> HIDE DEF h
    <3> QED BY <1>1, <1>2, <2>1, <2>2 DEF Paths
  <2>4. Paths(h, d, ch) \in 0..4 /\ Paths(g, d, ch) \in 0..4
    BY PathsType
  <2> HIDE DEF h
  <2>5. Paths(h, d, ch) >= 1
    BY <1>4, <2>3, <2>4
  <2> QED BY <2>5 DEF h
<1> QED BY <1>3, <1>4

\* And it never makes a second copy: what was reached keeps its number of
\* routes, what was not gets at most one, as long as the plan is carried out
\* on the graph it was made for.
THEOREM PlanNeverDoubles ==
  ASSUME NEW g, NEW clients, NEW d \in {"loop", "playback"}, NEW ch \in Channels
  PROVE  \/ Paths(g \cup Plan(g, clients), d, ch) = Paths(g, d, ch)
         \/ /\ Paths(g, d, ch) = 0
            /\ Paths(g \cup Plan(g, clients), d, ch) = 1
<1> DEFINE h == g \cup Plan(g, clients)
<1>1. /\ Direct(h, d, ch) \in {0, 1} /\ ThroughFx(h, d, ch) \in {0, 1}
      /\ Direct(g, d, ch) \in {0, 1} /\ ThroughFx(g, d, ch) \in {0, 1}
      /\ IntoMon(h, ch) \in 0..2 /\ IntoMon(g, ch) \in 0..2
      /\ Direct(g, "fx", ch) \in {0, 1}
  BY PathsType
<1>2. /\ \A x : <<"mon", x, ch>> \in h <=> <<"mon", x, ch>> \in g
      /\ Direct(h, "fx", ch) = Direct(g, "fx", ch)
      /\ IntoMon(h, ch) = IntoMon(g, ch)
  BY EndsDoNotFeedInserts
<1> DEFINE Monitored(k) == IF <<"mon", d, ch>> \in k THEN IntoMon(k, ch) ELSE 0
<1>3. Monitored(h) = Monitored(g) /\ Monitored(g) \in 0..2
  BY <1>1, <1>2
<1>4. /\ Paths(h, d, ch) = Direct(h, d, ch) + ThroughFx(h, d, ch) + Monitored(h)
      /\ Paths(g, d, ch) = Direct(g, d, ch) + ThroughFx(g, d, ch) + Monitored(g)
  BY DEF Paths
<1>5. CASE <<FanoutSource(g), d, ch>> \notin Plan(g, clients)
  <2>1. \A s : <<s, d, ch>> \in h <=> <<s, d, ch>> \in g
    BY <1>5, PlanEdges
  <2>2. Direct(h, d, ch) = Direct(g, d, ch)
    BY <2>1 DEF Direct
  <2>3. ThroughFx(h, d, ch) = ThroughFx(g, d, ch)
    BY <2>1, <1>2 DEF ThroughFx
  <2> HIDE DEF h, Monitored
  <2>4. Paths(h, d, ch) = Paths(g, d, ch)
    BY <2>2, <2>3, <1>3, <1>4
  <2> QED BY <2>4 DEF h
<1>6. CASE <<FanoutSource(g), d, ch>> \in Plan(g, clients)
  <2>1. Paths(g, d, ch) = 0
    BY <1>6, PlanEdges
  <2>2. \A s : s # FanoutSource(g) => (<<s, d, ch>> \in h <=> <<s, d, ch>> \in g)
    BY PlanEdges
  <2>3. Direct(g, d, ch) = 0 /\ ThroughFx(g, d, ch) = 0 /\ Monitored(g) = 0
    <3> HIDE DEF h, Monitored
    <3> QED BY <2>1, <1>1, <1>3, <1>4
  <2>4. Direct(h, d, ch) + ThroughFx(h, d, ch) = 1
    <3>1. CASE TrunkCarries(g)
      <4>1. FanoutSource(g) = "fx" /\ Direct(g, "fx", ch) = 1
        BY <3>1 DEF FanoutSource, TrunkCarries, Direct
      <4>2. Direct(h, d, ch) = 0
        BY <2>2, <2>3, <4>1 DEF Direct
      <4>3. ThroughFx(h, d, ch) = 1
        BY <1>6, <1>2, <4>1 DEF ThroughFx
      <4> QED BY <4>2, <4>3
    <3>2. CASE ~TrunkCarries(g)
      <4>1. FanoutSource(g) = "surge"
        BY <3>2 DEF FanoutSource
      <4>2. Direct(h, d, ch) = 1
        BY <1>6, <4>1 DEF Direct
      <4>3. ThroughFx(h, d, ch) = 0
        BY <2>2, <2>3, <1>2, <4>1 DEF ThroughFx
      <4> QED BY <4>2, <4>3
    <3> QED BY <3>1, <3>2
  <2> HIDE DEF h, Monitored
  <2>5. Paths(h, d, ch) = 1
    BY <2>3, <2>4, <1>1, <1>3, <1>4
  <2> QED BY <2>1, <2>5 DEF h
<1> QED BY <1>5, <1>6

(***************************************************************************)
(* Types.                                                                  *)
(***************************************************************************)

\* What a wiring pass may do, an operation of it, and what a script has read and has left.
Deeds == {"connect", "cut", "move", "follow", "restore", "detach", "decide", "takeAll", "giveBack",
          "judge", "restored", "detached", "write", "exit", "nothing"}
Ops == [do : Deeds, out : Outputs \cup {"source"}, in : Inputs, chs : SUBSET Channels]
Runs == [running : BOOLEAN, plan : SUBSET Edge, failed : BOOLEAN, carried : BOOLEAN]

\* TypeOK with the types of what the inserts and the scripts still have to do.
TodoType == todo \in [Inserts -> Seq(Ops)]
ScriptType == script \in [Scripts -> Runs]
IInv == TypeOK /\ TodoType /\ ScriptType

LEMMA FewAreFinite ==
  ASSUME NEW a, NEW b, NEW c, NEW d
  PROVE  IsFiniteSet({a, b, c}) /\ IsFiniteSet({a, b, c, d})
<1>1. IsFiniteSet({a}) /\ IsFiniteSet({b}) /\ IsFiniteSet({c}) /\ IsFiniteSet({d})
  BY FS_Singleton
<1>2. IsFiniteSet({a} \cup {b})
  BY <1>1, FS_Union
<1>3. IsFiniteSet(({a} \cup {b}) \cup {c})
  BY <1>1, <1>2, FS_Union
<1>4. IsFiniteSet((({a} \cup {b}) \cup {c}) \cup {d})
  BY <1>1, <1>3, FS_Union
<1>5. {a, b, c} = ({a} \cup {b}) \cup {c} /\ {a, b, c, d} = (({a} \cup {b}) \cup {c}) \cup {d}
  OBVIOUS
<1>6. QED
  BY <1>3, <1>4, <1>5

\* The graph has room for finitely many connections.
LEMMA EdgesFinite == IsFiniteSet(Edge)
<1>1. IsFiniteSet(Outputs) /\ IsFiniteSet(Inputs) /\ IsFiniteSet(Channels)
  BY FewAreFinite, LivePathAssumption DEF Outputs, Inputs
<1>2. IsFiniteSet(Inputs \X Channels) /\ IsFiniteSet(Outputs \X Inputs)
  BY <1>1, FS_Product
<1>3. IsFiniteSet((Outputs \X Inputs) \X Channels)
  BY <1>1, <1>2, FS_Product
<1> DEFINE f == [p \in (Outputs \X Inputs) \X Channels |-> <<p[1][1], p[1][2], p[2]>>]
           Im == {f[p] : p \in DOMAIN f}
<1>4. Edge \subseteq Im
  <2>1. SUFFICES ASSUME NEW o \in Outputs, NEW i \in Inputs, NEW c \in Channels
                 PROVE  <<o, i, c>> \in Im
    BY DEF Edge
  <2>2. <<<<o, i>>, c>> \in DOMAIN f /\ f[<<<<o, i>>, c>>] = <<o, i, c>>
    OBVIOUS
  <2>3. QED
    BY <2>2
<1>5. f \in Surjection((Outputs \X Inputs) \X Channels, Im)
  BY DEF Surjection
<1>6. IsFiniteSet(Im)
  BY <1>3, <1>5, FS_Surjection
<1>7. QED
  BY <1>4, <1>6, FS_Subset

\* Failing calls use up no more glitches than there are.
LEMMA SpendType ==
  ASSUME glitches \in 0..MaxGlitches, NEW bad, IsFiniteSet(bad), Spend(bad)
  PROVE  glitches' \in 0..MaxGlitches
<1>1. Cardinality(bad) \in Nat /\ MaxGlitches \in Nat
  BY FS_CardinalityType, LivePathAssumption
<1>2. QED
  BY <1>1 DEF Spend

\* A finite set put in some order is a sequence of its members.
LEMMA OrderedType ==
  ASSUME NEW T, NEW S \in SUBSET T, IsFiniteSet(S)
  PROVE  SetToSeq(S) \in Seq(T)
<1>1. Cardinality(S) \in Nat /\ ExistsBijection(1..Cardinality(S), S)
  BY FS_CardinalityType
<1>2. \E f \in [1..Cardinality(S) -> S] : IsInjective(f)
  BY <1>1 DEF ExistsBijection, Bijection, Injection
<1>3. SetToSeq(S) \in [1..Cardinality(S) -> S]
  BY <1>2 DEF SetToSeq
<1>4. SetToSeq(S) \in [1..Cardinality(S) -> T]
  BY <1>3
<1>5. QED
  BY <1>1, <1>4, SeqDef

\* Each operation a pass may hold has its type, and names connections of the graph.
LEMMA OpType ==
  ASSUME NEW do \in Deeds, NEW out \in Outputs \cup {"source"}, NEW in \in Inputs
  PROVE  Op(do, out, in) \in Ops
BY DEF Op, Ops

LEMMA DoType == ASSUME NEW do \in Deeds PROVE Do(do) \in Ops
BY DEF Do, Op, Ops, Outputs, Inputs

LEMMA EdgesOfType == ASSUME NEW op \in Ops PROVE EdgesOf(op) \subseteq Edge
<1>1. FanoutSource(edges) \in Outputs
  BY DEF FanoutSource, Outputs
<1>2. QED
  BY <1>1 DEF EdgesOf, Ops, Edge

LEMMA ShortSequences ==
  ASSUME NEW T
  PROVE  /\ \A a \in T : <<a>> \in Seq(T)
         /\ \A a, b \in T : <<a, b>> \in Seq(T)
         /\ \A a, b, c \in T : <<a, b, c>> \in Seq(T)
OBVIOUS

LEMMA PassesType ==
  /\ \A i \in Inserts : Pass(i) \in Seq(Ops)
  /\ FxTake \in Seq(Ops) /\ FxGiveBack \in Seq(Ops)
  /\ \A b \in BOOLEAN : FxTakeAll(b) \in Seq(Ops)
  /\ MonRestore \in Seq(Ops) /\ MonDetach \in Seq(Ops)
  /\ \A i \in Inserts : Leave(i) \in Seq(Ops)
  /\ <<Do("nothing")>> \in Seq(Ops) /\ <<Do("write")>> \in Seq(Ops)
<1> USE DEF Deeds, Outputs, Inputs
<1>1. /\ Op("connect", "surge", "fx") \in Ops /\ Op("move", "fx", "mon") \in Ops
      /\ Op("move", "fx", "loop") \in Ops /\ Op("move", "fx", "playback") \in Ops
      /\ Op("cut", "surge", "playback") \in Ops /\ Op("cut", "surge", "fx") \in Ops
      /\ Op("follow", "source", "mon") \in Ops /\ Op("connect", "mon", "playback") \in Ops
      /\ Op("restore", "source", "playback") \in Ops /\ Op("detach", "surge", "playback") \in Ops
      /\ Op("detach", "fx", "playback") \in Ops
  BY OpType
<1>2. /\ Do("decide") \in Ops /\ Do("takeAll") \in Ops /\ Do("giveBack") \in Ops
      /\ Do("judge") \in Ops /\ Do("restored") \in Ops /\ Do("detached") \in Ops
      /\ Do("write") \in Ops /\ Do("exit") \in Ops /\ Do("nothing") \in Ops
  BY DoType
<1> HIDE DEF Ops
<1>3. FxGiveBack \in Seq(Ops) /\ FxTake \in Seq(Ops) /\ FxPass \in Seq(Ops) /\ MonPass \in Seq(Ops)
  BY <1>1, <1>2, ShortSequences DEF FxGiveBack, FxTake, FxPass, MonPass
<1>4. ASSUME NEW b \in BOOLEAN PROVE FxTakeAll(b) \in Seq(Ops)
  BY <1>1, ShortSequences DEF FxTakeAll
<1>5. MonRestore \in Seq(Ops) /\ MonDetach \in Seq(Ops)
  BY <1>1, <1>2, ShortSequences DEF MonRestore, MonDetach
<1>6. FxLeave \in Seq(Ops) /\ MonLeave \in Seq(Ops)
  <2>1. <<Op("cut", "surge", "fx"), Do("exit")>> \in Seq(Ops) /\ <<Do("exit")>> \in Seq(Ops)
    BY <1>1, <1>2, ShortSequences
  <2>2. QED
    BY <2>1, <1>3, <1>5, ConcatProperties DEF FxLeave, MonLeave
<1>7. \A i \in Inserts : Pass(i) \in Seq(Ops) /\ Leave(i) \in Seq(Ops)
  BY <1>3, <1>6 DEF Pass, Leave
<1>8. <<Do("nothing")>> \in Seq(Ops) /\ <<Do("write")>> \in Seq(Ops)
  BY <1>2, ShortSequences
<1>9. QED
  BY <1>3, <1>4, <1>5, <1>7, <1>8

LEMMA MovesBackType == MovesBack \in Seq(Ops)
<1> DEFINE Fed(d) == {ch \in Channels : <<"fx", d, ch>> \in edges}
           back(d) == [Op("move", "surge", d) EXCEPT !.chs = Fed(d)]
           some == {in \in Inputs : Fed(in) # {}}
           S == {back(d) : d \in some}
<1>1. S \subseteq Ops
  <2>1. ASSUME NEW d \in Inputs PROVE back(d) \in Ops
    BY DEF Op, Ops, Outputs, Deeds
  <2> HIDE DEF back
  <2>2. QED
    BY <2>1
<1>2. IsFiniteSet(S)
  <2>1. S \subseteq {back("fx"), back("mon"), back("loop"), back("playback")}
    BY DEF Inputs
  <2>2. IsFiniteSet({back("fx"), back("mon"), back("loop"), back("playback")})
    BY FewAreFinite
  <2> HIDE DEF back, some
  <2>3. QED
    BY <2>1, <2>2, FS_Subset
<1>3. MovesBack = SetToSeq(S)
  BY DEF MovesBack
<1> HIDE DEF S
<1>4. QED
  BY <1>1, <1>2, <1>3, OrderedType

\* What an insert does next is an operation, and what comes after it is a list of them.
LEMMA AheadType ==
  ASSUME TodoType, NEW i \in Inserts
  PROVE  /\ Now(i) \in Ops /\ EdgesOf(Now(i)) \subseteq Edge
         /\ \A ops \in Seq(Ops) : Then(i, ops) => TodoType'
<1>1. todo[i] \in Seq(Ops)
  BY DEF TodoType
<1>2. Ahead(i) \in Seq(Ops)
  BY <1>1, PassesType DEF Ahead
<1>3. Ahead(i) # <<>>
  <2>1. Pass(i) # <<>>
    BY DEF Pass, FxPass, MonPass
  <2>2. Leave(i) # <<>>
    <3>1. FxGiveBack \in Seq(Ops) /\ MonRestore \in Seq(Ops)
      BY PassesType
    <3>2. <<Op("cut", "surge", "fx"), Do("exit")>> \in Seq(Ops) /\ <<Do("exit")>> \in Seq(Ops)
      <4>1. /\ Op("cut", "surge", "fx") \in Ops /\ Do("exit") \in Ops
        BY OpType, DoType DEF Deeds, Outputs, Inputs
      <4>2. QED
        BY <4>1, ShortSequences
    <3>3. FxLeave # <<>> /\ MonLeave # <<>>
      BY <3>1, <3>2, ConcatEqualIffEmpty DEF FxLeave, MonLeave
    <3>4. QED
      BY <3>3 DEF Leave
  <2>3. QED
    BY <2>1, <2>2 DEF Ahead
<1>4. Now(i) \in Ops /\ Tail(Ahead(i)) \in Seq(Ops)
  BY <1>2, <1>3, HeadTailProperties DEF Now
<1>5. ASSUME NEW ops \in Seq(Ops), Then(i, ops) PROVE TodoType'
  <2>1. ops \o Tail(Ahead(i)) \in Seq(Ops)
    BY <1>4, ConcatProperties
  <2>2. QED
    BY <2>1, <1>5 DEF Then, TodoType
<1>6. QED
  BY <1>4, <1>5, EdgesOfType


(***************************************************************************)
(* Every step keeps the types.                                             *)
(***************************************************************************)

\* Connections keep both their ends, whichever of the calls fail.
LEMMA ConnectKeeps ==
  ASSUME TypeOK, NEW es \in SUBSET Edge, NEW bad \in SUBSET es, Connect(es, bad)
  PROVE  /\ edges' \subseteq Edge /\ glitches' \in 0..MaxGlitches
         /\ \A e \in edges' : Present(e[1]) /\ Present(e[2])
<1>1. IsFiniteSet(bad)
  BY EdgesFinite, FS_Subset
<1>2. glitches' \in 0..MaxGlitches
  BY <1>1, SpendType DEF Connect, TypeOK
<1>3. edges' \subseteq edges \cup Possible(es) /\ Possible(es) \subseteq Edge
  BY DEF Connect, Possible
<1>4. QED
  BY <1>2, <1>3 DEF TypeOK, Possible

LEMMA CutKeeps ==
  ASSUME TypeOK, NEW es \in SUBSET Edge, NEW bad \in SUBSET es, Cut(es, bad)
  PROVE  /\ edges' \subseteq Edge /\ glitches' \in 0..MaxGlitches
         /\ \A e \in edges' : Present(e[1]) /\ Present(e[2])
<1>1. IsFiniteSet(bad)
  BY EdgesFinite, FS_Subset
<1>2. glitches' \in 0..MaxGlitches
  BY <1>1, SpendType DEF Cut, TypeOK
<1>3. edges' \subseteq edges
  BY DEF Cut
<1>4. QED
  BY <1>2, <1>3 DEF TypeOK

\* A client that leaves takes its connections along.
LEMMA DropKeeps ==
  ASSUME TypeOK, NEW c \in Clients, Drop(c)
  PROVE  /\ edges' \subseteq Edge /\ up' \subseteq Clients
         /\ \A e \in edges' : Present(e[1])' /\ Present(e[2])'
<1>1. edges' \subseteq edges /\ up' \subseteq up
  BY DEF Drop
<1>2. ASSUME NEW e \in edges' PROVE Present(e[1])' /\ Present(e[2])'
  <2>1. e \in Edge /\ Present(e[1]) /\ Present(e[2]) /\ ~Touches(e, c)
    BY <1>2 DEF Drop, TypeOK
  <2>2. e[1] \in Outputs
    BY <2>1 DEF Edge
  <2>3. QED
    BY <2>1, <2>2 DEF Touches, Present, Owner, Drop, Outputs
<1>3. QED
  BY <1>1, <1>2 DEF TypeOK

LEMMA PlanType == ASSUME NEW g, NEW clients PROVE Plan(g, clients) \subseteq Edge
<1>1. FanoutSource(g) \in Outputs
  BY DEF FanoutSource, Outputs
<1>2. \A d \in Destinations(g, clients) : d[1] \in Inputs /\ d[2] \in Channels
  BY DEF Destinations, Inputs
<1>3. QED
  BY <1>1, <1>2 DEF Plan, Edge

LEMMA OperateKeeps ==
  ASSUME IInv, NEW i \in Inserts, Operate(i)
  PROVE  IInv'
<1>1. /\ TypeOK /\ TodoType
      /\ UNCHANGED <<up, life, wanted, detached, file, script, due, faults, missed>>
  BY DEF IInv, Operate
<1> DEFINE op == Now(i)
           es == EdgesOf(op)
<1>2. op \in Ops /\ es \subseteq Edge /\ \A ops \in Seq(Ops) : Then(i, ops) => TodoType'
  BY <1>1, AheadType
<1>3. <<>> \in Seq(Ops)
  OBVIOUS
<1>4. PICK bad \in SUBSET es :
        \/ /\ \/ Connect(es, bad) \/ Cut(es, bad)
              \/ UNCHANGED <<edges, glitches>>
           /\ Then(i, <<>>)
        \/ /\ op.do = "move" /\ Connect(es, bad)
           /\ Then(i, <<[Op("cut", OtherTrunk(op.out), op.in) EXCEPT
                           !.chs = {ch \in @ : AllIn({<<op.out, op.in, ch>>}, bad)}]>>)
        \/ /\ op.do = "follow" /\ Connect(es, bad)
           /\ Then(i, <<Op("cut", OtherTrunk(FanoutSource(edges)), "mon")>>)
  BY DEF Operate
<1>5. clean' \in BOOLEAN
  BY <1>1 DEF Operate, TypeOK, AllIn
<1>6. \A g : OtherTrunk(g) \in Outputs
  BY DEF OtherTrunk, Outputs
<1>7. TodoType'
  <2>1. Op("cut", OtherTrunk(FanoutSource(edges)), "mon") \in Ops
    BY <1>6, OpType DEF Deeds, Inputs
  <2>2. ASSUME NEW chs \in SUBSET Channels
        PROVE  [Op("cut", OtherTrunk(op.out), op.in) EXCEPT !.chs = chs] \in Ops
    BY <1>2, <1>6 DEF Ops, Op, Deeds
  <2>3. [Op("cut", OtherTrunk(op.out), op.in) EXCEPT
                           !.chs = {ch \in @ : AllIn({<<op.out, op.in, ch>>}, bad)}] \in Ops
    BY <2>2 DEF Op
  <2> HIDE DEF op, es
  <2>4. QED
    BY <1>2, <1>3, <1>4, <2>1, <2>3, ShortSequences
<1>8. /\ edges' \subseteq Edge /\ glitches' \in 0..MaxGlitches
      /\ \A e \in edges' : Present(e[1]) /\ Present(e[2])
  <2> HIDE DEF op, es
  <2>1. Connect(es, bad) \/ Cut(es, bad) \/ UNCHANGED <<edges, glitches>>
    BY <1>4
  <2>2. CASE Connect(es, bad)
    BY <1>1, <1>2, <2>2, ConnectKeeps
  <2>3. CASE Cut(es, bad)
    BY <1>1, <1>2, <2>3, CutKeeps
  <2>4. CASE UNCHANGED <<edges, glitches>>
    BY <1>1, <2>4 DEF TypeOK
  <2>5. QED
    BY <2>1, <2>2, <2>3, <2>4
<1>9. TypeOK'
  BY <1>1, <1>5, <1>8 DEF TypeOK, Present
<1>10. ScriptType'
  BY <1>1 DEF IInv, ScriptType
<1>11. QED
  BY <1>7, <1>9, <1>10 DEF IInv

LEMMA DecideKeeps ==
  ASSUME IInv, NEW i \in Inserts, Decide(i)
  PROVE  IInv'
<1>1. /\ TypeOK /\ TodoType
      /\ UNCHANGED <<edges, up, life, wanted, script, due, faults, glitches, missed>>
  BY DEF IInv, Decide
<1>2. \A ops \in Seq(Ops) : Then(i, ops) => TodoType'
  BY <1>1, AheadType
<1>3. \E ops \in {FxTake, FxGiveBack, FxTakeAll(MonitorCarries(edges)), MovesBack, <<>>,
                   MonRestore, MonDetach, <<Do("write")>>} : Then(i, ops)
  BY DEF Decide
<1>4. MonitorCarries(edges) \in BOOLEAN
  BY DEF MonitorCarries
<1>5. TodoType'
  <2>1. \A ops \in {FxTake, FxGiveBack, FxTakeAll(MonitorCarries(edges)), MovesBack, <<>>,
                    MonRestore, MonDetach, <<Do("write")>>} : ops \in Seq(Ops)
    <3>1. <<>> \in Seq(Ops) /\ FxTakeAll(MonitorCarries(edges)) \in Seq(Ops)
      BY <1>4, PassesType
    <3>2. QED
      BY <3>1, PassesType, MovesBackType
  <2>2. QED
    BY <1>2, <1>3, <2>1
<1>6. clean' \in BOOLEAN /\ detached' \in BOOLEAN /\ file' \in [carrying : BOOLEAN, detached : BOOLEAN]
  <2>1. \/ UNCHANGED <<detached, clean, file>>
        \/ /\ detached' \in {detached /\ ~clean, detached \/ clean, detached}
           /\ clean' = TRUE
           /\ file' = [carrying |-> life[i] = "on" /\ MonitorCarries(edges),
                       detached |-> detached']
    BY DEF Decide
  <2>2. /\ detached \in BOOLEAN /\ clean \in BOOLEAN /\ (life[i] = "on" /\ MonitorCarries(edges)) \in BOOLEAN
        /\ file \in [carrying : BOOLEAN, detached : BOOLEAN]
    BY <1>1, <1>4 DEF TypeOK
  <2>3. clean' \in BOOLEAN /\ detached' \in BOOLEAN
    BY <2>1, <2>2
  <2>4. \E b \in BOOLEAN : file' = [carrying |-> b, detached |-> detached'] \/ file' = file
    BY <2>1, <2>2
  <2>5. file' \in [carrying : BOOLEAN, detached : BOOLEAN]
    BY <2>2, <2>3, <2>4
  <2>6. QED
    BY <2>3, <2>5
<1>7. TypeOK'
  BY <1>1, <1>6 DEF TypeOK, Present
<1>8. ScriptType'
  BY <1>1 DEF IInv, ScriptType
<1>9. QED
  BY <1>5, <1>7, <1>8 DEF IInv

LEMMA ExitKeeps ==
  ASSUME IInv, NEW i \in Inserts, Exit(i) \/ Crash(i)
  PROVE  IInv'
<1>1. /\ TypeOK /\ TodoType /\ ScriptType /\ Drop(i) /\ i \in Clients
      /\ life' = [life EXCEPT ![i] = "stopped"] /\ todo' = [todo EXCEPT ![i] = <<>>]
      /\ UNCHANGED <<wanted, detached, clean, file, script, due, glitches, missed>>
      /\ faults' \in 0..MaxFaults
  BY LivePathAssumption DEF IInv, Exit, Crash, Fault, TypeOK, Clients
<1>2. /\ edges' \subseteq Edge /\ up' \subseteq Clients
      /\ \A e \in edges' : Present(e[1])' /\ Present(e[2])'
  BY <1>1, DropKeeps
<1>3. TypeOK'
  BY <1>1, <1>2 DEF TypeOK
<1>4. TodoType' /\ ScriptType'
  BY <1>1 DEF TodoType, ScriptType
<1>5. QED
  BY <1>3, <1>4 DEF IInv

LEMMA StartKeeps ==
  ASSUME IInv, NEW i \in Inserts, Start(i)
  PROVE  IInv'
<1>1. TypeOK'
  BY DEF IInv, Start, TypeOK, Present, Inserts, Clients
<1>2. TodoType' /\ ScriptType'
  BY DEF IInv, Start, TodoType, ScriptType
<1>3. QED
  BY <1>1, <1>2 DEF IInv

LEMMA BeginScriptKeeps ==
  ASSUME IInv, NEW r \in Scripts, BeginScript(r)
  PROVE  IInv'
<1>1. /\ TypeOK /\ ScriptType
      /\ UNCHANGED <<edges, up, life, wanted, todo, detached, clean, file, faults, missed>>
      /\ due' = due \ {r}
  BY DEF IInv, BeginScript
<1>2. PICK listed \in BOOLEAN :
        LET g == IF listed THEN edges ELSE {}
            clients == IF listed THEN up ELSE {"looper"}
        IN /\ Spend(IF listed THEN {} ELSE {r})
           /\ script' = [script EXCEPT ![r] =
                [running |-> TRUE, failed |-> FALSE, plan |-> Plan(g, clients),
                 carried |-> r \in Restores /\ MonitorCarries(g)]]
  BY DEF BeginScript
<1> DEFINE g == IF listed THEN edges ELSE {}
           clients == IF listed THEN up ELSE {"looper"}
<1>3. glitches' \in 0..MaxGlitches
  <2>1. IsFiniteSet({}) /\ IsFiniteSet({r})
    BY FS_EmptySet, FS_Singleton
  <2>2. QED
    BY <1>1, <1>2, <2>1, SpendType DEF TypeOK
<1>4. Plan(g, clients) \subseteq Edge
  BY PlanType
<1>5. ScriptType'
  <2> DEFINE new == [running |-> TRUE, failed |-> FALSE, plan |-> Plan(g, clients),
                     carried |-> r \in Restores /\ MonitorCarries(g)]
  <2>1. script' = [script EXCEPT ![r] = new]
    BY <1>2
  <2> HIDE DEF g, clients
  <2>2. new \in Runs
    BY <1>4 DEF Runs, MonitorCarries
  <2> HIDE DEF new
  <2>3. QED
    BY <1>1, <2>1, <2>2 DEF ScriptType
<1>6. TypeOK'
  BY <1>1, <1>3 DEF TypeOK, Present
<1>7. TodoType'
  BY <1>1 DEF IInv, TodoType
<1>8. QED
  BY <1>5, <1>6, <1>7 DEF IInv

LEMMA PassOverKeeps ==
  ASSUME IInv, PassOver
  PROVE  IInv'
<1>1. /\ TypeOK /\ ScriptType /\ TodoType
      /\ UNCHANGED <<edges, up, life, wanted, todo, detached, clean, file, script, faults>>
      /\ due' = due \ {"surge"}
  BY DEF IInv, PassOver
<1>2. PICK heard \in BOOLEAN :
        /\ Spend(IF heard THEN {} ELSE {"surge"})
        /\ missed' = (missed \/ ~NothingToDo(TRUE))
  BY DEF PassOver
<1>3. glitches' \in 0..MaxGlitches
  <2>1. IsFiniteSet({}) /\ IsFiniteSet({"surge"})
    BY FS_EmptySet, FS_Singleton
  <2>2. QED
    BY <1>1, <1>2, <2>1, SpendType DEF TypeOK
<1>4. missed' \in BOOLEAN
  BY <1>1, <1>2 DEF TypeOK
<1>5. TypeOK'
  BY <1>1, <1>3, <1>4 DEF TypeOK, Present
<1>6. TodoType' /\ ScriptType'
  BY <1>1 DEF TodoType, ScriptType
<1>7. QED
  BY <1>5, <1>6 DEF IInv

LEMMA RunScriptKeeps ==
  ASSUME IInv, NEW r \in Scripts, RunScript(r)
  PROVE  IInv'
<1> DEFINE plan == script[r].plan
           es == {e \in plan : e[2] = "loop" \/ \A f \in plan : f[2] # "loop"}
           over == plan = es
           failed(bad) == script[r].failed \/ ~AllIn(es, bad)
<1>1. /\ TypeOK /\ ScriptType /\ TodoType
      /\ UNCHANGED <<up, wanted, todo, detached, clean, faults>>
  BY DEF IInv, RunScript
<1>2. script[r] \in Runs /\ plan \subseteq Edge /\ es \subseteq plan
  BY <1>1 DEF ScriptType, Runs
<1>3. PICK bad \in SUBSET es :
        /\ Connect(es, bad)
        /\ script' = [script EXCEPT ![r] =
             IF over THEN Idle
             ELSE [script[r] EXCEPT !.plan = plan \ es, !.failed = failed(bad)]]
        /\ missed' = (missed \/ (r \in Restores /\ bad # {}))
        /\ life' = [i \in Inserts |-> IF over /\ i = r THEN "off" ELSE life[i]]
        /\ file' = IF over /\ r \in Restores /\ ~failed(bad) /\ ~script[r].carried
                   THEN NoClaim ELSE file
        /\ due' = IF over /\ r \in Rewires /\ failed(bad) THEN due \cup {r} ELSE due
  BY DEF RunScript
<1>4. failed(bad) \in BOOLEAN /\ Idle \in Runs /\ NoClaim \in [carrying : BOOLEAN, detached : BOOLEAN]
  BY <1>2 DEF Idle, Runs, NoClaim, AllIn
<1> HIDE DEF es, failed, over
<1>5. /\ edges' \subseteq Edge /\ glitches' \in 0..MaxGlitches
      /\ \A e \in edges' : Present(e[1]) /\ Present(e[2])
  BY <1>1, <1>2, <1>3, ConnectKeeps
<1>6. ScriptType'
  <2>1. [script[r] EXCEPT !.plan = plan \ es, !.failed = failed(bad)] \in Runs
    BY <1>2, <1>4 DEF Runs
  <2>2. QED
    BY <1>1, <1>3, <1>4, <2>1 DEF ScriptType
<1>7. /\ missed' \in BOOLEAN /\ file' \in [carrying : BOOLEAN, detached : BOOLEAN]
      /\ due' \subseteq Rewires /\ life' \in [Inserts -> {"off", "on", "leaving", "stopped"}]
  BY <1>1, <1>3, <1>4 DEF TypeOK
<1>8. TypeOK'
  BY <1>1, <1>5, <1>7 DEF TypeOK, Present
<1>9. TodoType'
  BY <1>1 DEF TodoType
<1>10. QED
  BY <1>6, <1>8, <1>9 DEF IInv

LEMMA OthersKeep ==
  ASSUME IInv,
         \/ \E i \in Inserts : SwitchOff(i) \/ SwitchOn(i)
         \/ \E c \in Clients : Die(c) \/ Return(c)
  PROVE  IInv'
<1>1. /\ TypeOK /\ TodoType /\ ScriptType /\ UNCHANGED <<todo, script>>
  BY DEF IInv, SwitchOff, SwitchOn, Die, Return
<1>2. ASSUME NEW i \in Inserts, SwitchOff(i) \/ SwitchOn(i) PROVE TypeOK'
  <2>1. /\ faults' \in 0..MaxFaults /\ wanted' \subseteq Enabled
        /\ life' \in [Inserts -> {"off", "on", "leaving", "stopped"}]
        /\ UNCHANGED <<edges, up, detached, clean, file, due, glitches, missed>>
    <3>1. CASE SwitchOff(i)
      BY <1>1, <3>1, LivePathAssumption DEF SwitchOff, Fault, TypeOK
    <3>2. CASE SwitchOn(i)
      BY <1>1, <3>2, LivePathAssumption DEF SwitchOn, Fault, TypeOK
    <3>3. QED
      BY <1>2, <3>1, <3>2
  <2>2. QED
    BY <1>1, <2>1 DEF TypeOK, Present
<1>3. ASSUME NEW c \in Clients, Die(c) PROVE TypeOK'
  <2>1. /\ edges' \subseteq Edge /\ up' \subseteq Clients
        /\ \A e \in edges' : Present(e[1])' /\ Present(e[2])'
    BY <1>1, <1>3, DropKeeps DEF Die
  <2>2. /\ faults' \in 0..MaxFaults
        /\ UNCHANGED <<life, wanted, detached, clean, file, due, glitches, missed>>
    BY <1>1, <1>3, LivePathAssumption DEF Die, Fault, TypeOK
  <2>3. QED
    BY <1>1, <2>1, <2>2 DEF TypeOK
<1>4. ASSUME NEW c \in Clients, Return(c) PROVE TypeOK'
  <2>1. /\ up' = up \cup {c} /\ due' = due \cup {c} /\ c \in {"surge", "looper"}
        /\ edges' \subseteq edges \cup {<<"surge", "playback", ch>> : ch \in IF c = "surge" THEN Channels ELSE {}}
        /\ UNCHANGED <<life, wanted, todo, detached, clean, file, script, faults, glitches, missed>>
    BY <1>4 DEF Return
  <2>2. ASSUME NEW e \in edges' PROVE e \in Edge /\ Present(e[1])' /\ Present(e[2])'
    <3>1. CASE e \in edges
      BY <1>1, <2>1, <3>1 DEF TypeOK, Present
    <3>2. CASE e \notin edges
      BY <2>1, <2>2, <3>2 DEF Edge, Outputs, Inputs, Present, Owner
    <3>3. QED
      BY <3>1, <3>2
  <2>3. QED
    BY <1>1, <2>1, <2>2 DEF TypeOK, Rewires, Clients
<1>5. TypeOK'
  BY <1>2, <1>3, <1>4
<1>6. TodoType' /\ ScriptType'
  BY <1>1 DEF TodoType, ScriptType
<1>7. QED
  BY <1>5, <1>6 DEF IInv

LEMMA InitTypes == Init => IInv
<1> SUFFICES ASSUME Init PROVE IInv
  OBVIOUS
<1>2. wanted \subseteq Inserts /\ wanted \subseteq Enabled
  BY LivePathAssumption DEF Init, Inserts
<1>3. edges \subseteq Edge /\ \A e \in edges : Present(e[1]) /\ Present(e[2])
  <2>1. up = {"surge", "looper"} \cup wanted /\ edges = Settled(wanted)
    BY DEF Init
  <2>2. ASSUME NEW e \in edges PROVE e \in Edge /\ Present(e[1]) /\ Present(e[2])
    <3> DEFINE source == IF "fx" \in wanted THEN "fx" ELSE "surge"
               final == IF "mon" \in wanted THEN "mon" ELSE source
    <3>1. \E ch \in Channels :
            \/ e = <<"surge", "fx", ch>> /\ "fx" \in wanted
            \/ e = <<source, "loop", ch>>
            \/ e = <<source, "mon", ch>> /\ "mon" \in wanted
            \/ e = <<final, "playback", ch>>
      BY <2>1, <2>2 DEF Settled
    <3>2. source \in up \cap Outputs /\ final \in up \cap Outputs /\ "looper" \in up /\ "surge" \in up
      BY <2>1 DEF Outputs
    <3>3. QED
      BY <2>1, <3>1, <3>2 DEF Edge, Outputs, Inputs, Present, Owner
  <2>3. QED
    BY <2>2
<1>4. TypeOK
  <2>1. up \subseteq Clients /\ life \in [Inserts -> {"off", "on", "leaving", "stopped"}]
    BY <1>2 DEF Init, Clients, Inserts
  <2>2. file \in [carrying : BOOLEAN, detached : BOOLEAN] /\ detached \in BOOLEAN
    <3>1. ("mon" \in wanted) \in BOOLEAN
      OBVIOUS
    <3>2. QED
      BY <3>1 DEF Init
  <2>3. /\ due = {} /\ clean = TRUE /\ missed = FALSE
        /\ faults \in 0..MaxFaults /\ glitches \in 0..MaxGlitches
    BY DEF Init
  <2>4. QED
    BY <1>2, <1>3, <2>1, <2>2, <2>3 DEF TypeOK
<1>5. TodoType
  BY DEF Init, TodoType
<1>6. ScriptType
  BY DEF Init, ScriptType, Idle, Runs
<1>7. QED
  BY <1>4, <1>5, <1>6 DEF IInv

\* The graph, the inserts, the scripts and the monitor's claim keep their types, and no
\* connection outlives either of its ends, however clients come and go between the
\* calls of those that wire them.
THEOREM Typing == Spec => []TypeOK
<1>1. IInv /\ [Next]_vars => IInv'
  <2>1. SUFFICES ASSUME IInv, [Next]_vars PROVE IInv'
    OBVIOUS
  <2>2. ASSUME NEW i \in Inserts, Wiring(i) PROVE IInv'
    BY <2>1, <2>2, OperateKeeps, DecideKeeps, ExitKeeps, StartKeeps DEF Wiring
  <2>3. ASSUME NEW r \in Scripts, Scripting(r) PROVE IInv'
    BY <2>1, <2>3, BeginScriptKeeps, RunScriptKeeps, PassOverKeeps DEF Scripting
  <2>4. ASSUME NEW i \in Inserts, Crash(i) PROVE IInv'
    BY <2>1, <2>4, ExitKeeps
  <2>5. CASE (\E i \in Inserts : SwitchOff(i) \/ SwitchOn(i)) \/ \E c \in Clients : Die(c) \/ Return(c)
    BY <2>1, <2>5, OthersKeep
  <2>6. CASE UNCHANGED vars
    BY <2>1, <2>6 DEF vars, IInv, TypeOK, TodoType, ScriptType, Present
  <2>7. QED
    BY <2>1, <2>2, <2>3, <2>4, <2>5, <2>6 DEF Next, Faulty
<1>2. IInv => TypeOK
  BY DEF IInv
<1>3. QED
  BY <1>1, <1>2, InitTypes, PTL DEF Spec

(***************************************************************************)
(* The monitor's level.                                                    *)
(***************************************************************************)

LEMMA ContainsRange ==
  ASSUME NEW s, s \in Seq(Loops), NEW l
  PROVE  Contains(s, l) <=> l \in Range(s)
<1>1. DOMAIN s = 1..Len(s)
  OBVIOUS
<1>2. QED
  BY <1>1 DEF Contains, Range

LEMMA AppendContains ==
  ASSUME NEW s, s \in Seq(Loops), NEW l \in Loops, IsInjective(s), ~Contains(s, l)
  PROVE  /\ Append(s, l) \in Seq(Loops)
         /\ IsInjective(Append(s, l))
         /\ \A k : Contains(Append(s, l), k) <=> Contains(s, k) \/ k = l
<1> DEFINE q == Append(s, l)
<1>1. /\ q \in Seq(Loops) /\ Len(q) = Len(s) + 1 /\ Len(s) \in Nat
      /\ \A i \in 1..Len(s) : q[i] = s[i]
      /\ q[Len(s) + 1] = l
  OBVIOUS
<1>2. DOMAIN q = 1..Len(q) /\ DOMAIN s = 1..Len(s)
  BY <1>1
<1> HIDE DEF q
<1>3. IsInjective(q)
  BY <1>1, <1>2 DEF IsInjective, Contains
<1>4. ASSUME NEW k PROVE Contains(q, k) <=> Contains(s, k) \/ k = l
  BY <1>1 DEF Contains
<1>5. QED
  BY <1>1, <1>3, <1>4 DEF q

\* What is left of a list of loops holds the loops that stay, each of them once.
LEMMA WithoutLeaves ==
  ASSUME NEW s, s \in Seq(Loops), NEW gone, NEW q \in Without(s, gone)
  PROVE  /\ q \in Seq(Loops) /\ IsInjective(q)
         /\ \A l : Contains(q, l) <=> Contains(s, l) /\ l \notin gone
<1>1. PICK n \in 0..Cardinality(Loops) : q \in [1..n -> Loops]
  BY DEF Without
<1>2. Cardinality(Loops) \in Nat
  BY MonitorAssumption, FS_CardinalityType
<1>3. n \in Nat
  BY <1>1, <1>2
<1>4. q \in Seq(Loops)
  BY <1>1, <1>3, SeqDef
<1>5. IsInjective(q) /\ Range(q) = Range(s) \ gone
  BY DEF Without
<1>6. QED
  BY <1>4, <1>5, ContainsRange

\* The level to play at is a level, whatever the captures.
LEMMA TargetType ==
  ASSUME NEW s, s \in Seq(Loops), NEW lv \in [Loops -> Levels]
  PROVE  Target(s, lv) \in Levels
<1>1. CASE s = <<>>
  BY <1>1, MonitorAssumption DEF Target
<1>2. CASE s # <<>>
  <2>1. Len(s) \in 1..Len(s)
    BY <1>2
  <2>2. s[Len(s)] \in Loops
    BY <2>1
  <2>3. QED
    BY <1>2, <2>2 DEF Target, Last
<1>3. QED
  BY <1>1, <1>2

LEMMA BudgetUsed ==
  ASSUME MonitorTypeOK, used \in [DOMAIN Budget -> Nat], NEW what \in DOMAIN Budget, Use(what)
  PROVE  /\ used' \in [DOMAIN Budget -> Nat]
         /\ \A w \in DOMAIN Budget : used'[w] \in 0..Budget[w]
<1>1. DOMAIN Budget = {"takes", "moves", "faults"}
  BY DEF Budget
<1>2. Budget["takes"] = MaxTakes /\ Budget["moves"] = MaxMoves /\ Budget["faults"] = MaxLosses
  BY DEF Budget
<1>3. \A w \in DOMAIN Budget : Budget[w] \in Nat
  BY <1>1, <1>2, MonitorAssumption
<1>4. used[what] < Budget[what] /\ used' = [used EXCEPT ![what] = @ + 1]
  BY DEF Use
<1>5. \A w \in DOMAIN Budget : used[w] \in 0..Budget[w]
  BY DEF MonitorTypeOK
<1>6. QED
  BY <1>3, <1>4, <1>5

\* Words on the way, and what the bench has asked and heard nothing of.
OnItsWay(l) == \E n \in 1..Len(reports) : reports[n].loop = l
Unanswered(l) == asked[l] <= ignored[l] + (IF l \in questions THEN 1 ELSE 0)

\* A capture that is open has a report on its way, or was asked about no more often
\* than a question or an answer was lost since, but for the question under way.
Accounted ==
  /\ ~running => open = <<>>
  /\ \A l \in Loops : Contains(open, l) => OnItsWay(l) \/ Unanswered(l)
Spent == used \in [DOMAIN Budget -> Nat]
MonitorIInv == MonitorTypeOK /\ Spent /\ Accounted

LEMMA AttemptsType == Attempts \in Nat /\ Attempts # 0
BY MonitorAssumption

\* How often the bench has asked about each loop.
Tallies == [Loops -> 0..Attempts]

LEMMA CountType ==
  ASSUME NEW f \in Tallies
  PROVE  \A l \in Loops : f[l] \in Nat
BY AttemptsType DEF Tallies

LEMMA AskedType == MonitorTypeOK => asked \in Tallies
BY DEF MonitorTypeOK, Tallies

LEMMA NothingOpen == \A l : ~Contains(<<>>, l)
BY DEF Contains

LEMMA SayType ==
  ASSUME MonitorTypeOK, NEW l \in Loops, NEW c \in BOOLEAN, NEW a \in BOOLEAN, Say(l, c, a)
  PROVE  /\ reports' \in Seq(Report) /\ OnItsWay(l)'
         /\ \A k \in Loops : OnItsWay(k) => OnItsWay(k)'
<1> DEFINE r == [loop |-> l, capturing |-> c, answer |-> a]
<1>1. r \in Report /\ r.loop = l
  BY DEF Report
<1> HIDE DEF r
<1>2. reports \in Seq(Report) /\ reports' = Append(reports, r)
  BY DEF MonitorTypeOK, Say, r
<1>3. /\ reports' \in Seq(Report) /\ Len(reports') = Len(reports) + 1 /\ Len(reports) \in Nat
      /\ \A i \in 1..Len(reports) : reports'[i] = reports[i]
      /\ reports'[Len(reports) + 1] = r
  BY <1>1, <1>2
<1>4. QED
  BY <1>1, <1>3 DEF OnItsWay

LEMMA OpenTakeCounted ==
  ASSUME MonitorIInv, NEW l \in Loops, OpenTake(l)
  PROVE  MonitorIInv'
<1>1. /\ running /\ ~Contains(open, l) /\ Use("takes") /\ open' = Append(open, l)
      /\ Say(l, TRUE, FALSE) /\ reused' \in BOOLEAN
      /\ UNCHANGED <<running, questions, level, known, asked, thread, last, error, stage,
                     ignored, dropped, stale>>
  BY DEF OpenTake, policy, gain
<1>2. MonitorTypeOK /\ Spent /\ Accounted
  BY DEF MonitorIInv
<1>3. Spent' /\ \A w \in DOMAIN Budget : used'[w] \in 0..Budget[w]
  <2>1. "takes" \in DOMAIN Budget
    BY DEF Budget
  <2>2. QED
    BY <1>1, <1>2, <2>1, BudgetUsed DEF Spent
<1>4. /\ open' \in Seq(Loops) /\ IsInjective(open')
      /\ \A k : Contains(open', k) <=> Contains(open, k) \/ k = l
  BY <1>1, <1>2, AppendContains DEF MonitorTypeOK
<1>5. /\ reports' \in Seq(Report) /\ OnItsWay(l)'
      /\ \A k \in Loops : OnItsWay(k) => OnItsWay(k)'
  BY <1>1, <1>2, SayType
<1>6. MonitorTypeOK'
  BY <1>1, <1>2, <1>3, <1>4, <1>5 DEF MonitorTypeOK
<1>7. Accounted'
  BY <1>1, <1>2, <1>4, <1>5 DEF Accounted, Unanswered
<1>8. QED
  BY <1>3, <1>6, <1>7 DEF MonitorIInv

LEMMA CloseTakeCounted ==
  ASSUME MonitorIInv, NEW l \in Loops, CloseTake(l)
  PROVE  MonitorIInv'
<1>1. /\ Contains(open, l) /\ open' \in Without(open, {l})
      /\ UNCHANGED <<running, questions, level, known, asked, thread, last, error, stage,
                     ignored, dropped, reused, stale>>
  BY DEF CloseTake, policy, gain, history
<1>2. MonitorTypeOK /\ Spent /\ Accounted
  BY DEF MonitorIInv
<1>3. /\ open' \in Seq(Loops) /\ IsInjective(open')
      /\ \A k : Contains(open', k) => Contains(open, k)
  BY <1>1, <1>2, WithoutLeaves DEF MonitorTypeOK
<1>4. Spent' /\ \A w \in DOMAIN Budget : used'[w] \in 0..Budget[w]
  <2>1. CASE UNCHANGED used
    BY <1>2, <2>1 DEF Spent, MonitorTypeOK
  <2>2. CASE Use("faults")
    <3>1. "faults" \in DOMAIN Budget
      BY DEF Budget
    <3>2. QED
      BY <1>2, <2>2, <3>1, BudgetUsed DEF Spent
  <2>3. QED
    BY <2>1, <2>2 DEF CloseTake
<1>5. /\ reports' \in Seq(Report)
      /\ \A k \in Loops : OnItsWay(k) => OnItsWay(k)'
  <2>1. CASE Say(l, FALSE, FALSE)
    BY <1>2, <2>1, SayType
  <2>2. CASE UNCHANGED reports
    BY <1>2, <2>2 DEF MonitorTypeOK, OnItsWay
  <2>3. QED
    BY <2>1, <2>2 DEF CloseTake
<1>6. MonitorTypeOK'
  BY <1>1, <1>2, <1>3, <1>4, <1>5 DEF MonitorTypeOK
<1>7. ~running => open' = <<>>
  BY <1>1, <1>2, NothingOpen DEF Accounted
<1>8. Accounted'
  BY <1>1, <1>2, <1>3, <1>5, <1>7 DEF Accounted, Unanswered
<1>9. QED
  BY <1>4, <1>6, <1>8 DEF MonitorIInv

LEMMA AnswerCounted ==
  ASSUME MonitorIInv, NEW l \in Loops, Answer(l)
  PROVE  MonitorIInv'
<1>1. /\ l \in questions /\ questions' = questions \ {l}
      /\ UNCHANGED <<open, running, level, known, asked, thread, last, error, stage,
                     dropped, reused, stale>>
  BY DEF Answer, engine, policy, gain, history
<1>2. MonitorTypeOK /\ Spent /\ Accounted
  BY DEF MonitorIInv
<1>3. Spent' /\ \A w \in DOMAIN Budget : used'[w] \in 0..Budget[w]
  <2>1. CASE UNCHANGED used
    BY <1>2, <2>1 DEF Spent, MonitorTypeOK
  <2>2. CASE Use("faults")
    <3>1. "faults" \in DOMAIN Budget
      BY DEF Budget
    <3>2. QED
      BY <1>2, <2>2, <3>1, BudgetUsed DEF Spent
  <2>3. QED
    BY <2>1, <2>2 DEF Answer
<1>4. /\ \A k : k # l => (k \in questions' <=> k \in questions)
      /\ l \notin questions' /\ questions' \subseteq Loops
  BY <1>1, <1>2 DEF MonitorTypeOK
<1>5. CASE running /\ Say(l, Contains(open, l), TRUE) /\ UNCHANGED ignored
  <2>1. Contains(open, l) \in BOOLEAN
    BY DEF Contains
  <2>2. /\ reports' \in Seq(Report) /\ OnItsWay(l)'
        /\ \A k \in Loops : OnItsWay(k) => OnItsWay(k)'
    BY <1>2, <1>5, <2>1, SayType
  <2>3. MonitorTypeOK'
    BY <1>1, <1>2, <1>3, <1>4, <1>5, <2>2 DEF MonitorTypeOK
  <2>4. Accounted'
    BY <1>1, <1>2, <1>4, <1>5, <2>2 DEF Accounted, Unanswered
  <2>5. QED
    BY <1>3, <2>3, <2>4 DEF MonitorIInv
<1>6. CASE running /\ ignored' = [ignored EXCEPT ![l] = @ + 1] /\ UNCHANGED reports
  <2>1. /\ ignored' \in [Loops -> Nat] /\ ignored'[l] = ignored[l] + 1
        /\ \A k \in Loops : k # l => ignored'[k] = ignored[k]
    BY <1>2, <1>6 DEF MonitorTypeOK
  <2>2. MonitorTypeOK'
    BY <1>1, <1>2, <1>3, <1>4, <1>6, <2>1 DEF MonitorTypeOK
  <2>3. asked \in [Loops -> Nat] /\ ignored \in [Loops -> Nat]
    BY <1>2, MonitorAssumption DEF MonitorTypeOK
  <2>4. Unanswered(l) => Unanswered(l)'
    BY <1>1, <1>4, <2>1, <2>3 DEF Unanswered
  <2>5. \A k \in Loops : k # l /\ Unanswered(k) => Unanswered(k)'
    BY <1>1, <1>4, <2>1 DEF Unanswered
  <2>6. \A k : OnItsWay(k)' <=> OnItsWay(k)
    BY <1>6 DEF OnItsWay
  <2>7. Accounted'
    BY <1>1, <1>2, <2>4, <2>5, <2>6 DEF Accounted
  <2>8. QED
    BY <1>3, <2>2, <2>7 DEF MonitorIInv
<1>7. CASE ~running /\ UNCHANGED <<ignored, reports>>
  <2>1. MonitorTypeOK'
    BY <1>1, <1>2, <1>3, <1>4, <1>7 DEF MonitorTypeOK
  <2>2. Accounted'
    BY <1>1, <1>2, <1>7, NothingOpen DEF Accounted
  <2>3. QED
    BY <1>3, <2>1, <2>2 DEF MonitorIInv
<1>8. QED
  BY <1>5, <1>6, <1>7 DEF Answer

LEMMA EngineCounted ==
  ASSUME MonitorIInv, EngineDies \/ EngineReturns
  PROVE  MonitorIInv'
<1>1. /\ open' = <<>> /\ running' \in BOOLEAN
      /\ UNCHANGED <<reports, questions, level, known, asked, thread, last, error, stage,
                     ignored, dropped, reused, stale>>
  BY DEF EngineDies, EngineReturns, policy, gain, history, MonitorIInv, Accounted
<1>2. MonitorTypeOK /\ Spent
  BY DEF MonitorIInv
<1>3. Spent' /\ \A w \in DOMAIN Budget : used'[w] \in 0..Budget[w]
  <2>1. CASE UNCHANGED used
    BY <1>2, <2>1 DEF Spent, MonitorTypeOK
  <2>2. CASE Use("faults")
    <3>1. "faults" \in DOMAIN Budget
      BY DEF Budget
    <3>2. QED
      BY <1>2, <2>2, <3>1, BudgetUsed DEF Spent
  <2>3. QED
    BY <2>1, <2>2 DEF EngineDies, EngineReturns
<1>4. IsInjective(open') /\ open' \in Seq(Loops)
  BY <1>1 DEF IsInjective
<1>5. MonitorTypeOK'
  BY <1>1, <1>2, <1>3, <1>4 DEF MonitorTypeOK
<1>6. Accounted'
  BY <1>1, NothingOpen DEF Accounted
<1>7. QED
  BY <1>3, <1>5, <1>6 DEF MonitorIInv

\* What the policy is left with, whoever computes a level and from whatever captures.
LEMMA ComputeType ==
  ASSUME MonitorTypeOK, NEW t \in Threads, NEW captures, captures \in Seq(Loops),
         IsInjective(captures), NEW ended, NEW tally \in Tallies,
         NEW qs \in SUBSET Loops, level' \in [Loops -> Levels],
         Compute(t, captures, ended, tally, qs)
  PROVE  /\ known' \in Seq(Loops) /\ IsInjective(known')
         /\ asked' \in Tallies /\ questions' = qs
         /\ thread' \in [Threads -> [busy : BOOLEAN, amp : Levels]]
         /\ dropped' \in BOOLEAN
         /\ \A l \in Loops : asked'[l] <= tally[l]
         /\ \A l \in Loops : Contains(captures, l) /\ ~Contains(known', l)
                     => l \in ended \/ l \in GivenUp(tally, qs)
<1>1. /\ known' \in Without(captures, ended \cup GivenUp(tally, qs))
      /\ asked' = [l \in Loops |-> IF l \in GivenUp(tally, qs) THEN 0 ELSE tally[l]]
      /\ questions' = qs /\ dropped' \in BOOLEAN
      /\ thread' = [thread EXCEPT ![t] = [busy |-> TRUE, amp |-> Target(known', level')]]
  BY DEF Compute, MonitorTypeOK
<1>2. /\ known' \in Seq(Loops) /\ IsInjective(known')
      /\ \A l : Contains(known', l)
                  <=> Contains(captures, l) /\ l \notin ended \cup GivenUp(tally, qs)
  <2> DEFINE gone == ended \cup GivenUp(tally, qs)
  <2>1. known' \in Without(captures, gone)
    BY <1>1
  <2> HIDE DEF gone
  <2>2. /\ known' \in Seq(Loops) /\ IsInjective(known')
        /\ \A l : Contains(known', l) <=> Contains(captures, l) /\ l \notin gone
    BY <2>1, WithoutLeaves
  <2>3. QED
    BY <2>2 DEF gone
<1>3. asked' \in Tallies /\ \A l \in Loops : asked'[l] <= tally[l]
  <2>1. \A l \in Loops : asked'[l] = IF l \in GivenUp(tally, qs) THEN 0 ELSE tally[l]
    BY <1>1
  <2>2. asked' \in Tallies
    BY <1>1, AttemptsType DEF Tallies
  <2>3. \A l \in Loops : tally[l] \in Nat
    BY CountType
  <2>4. QED
    BY <2>1, <2>2, <2>3
<1>4. Target(known', level') \in Levels
  BY <1>2, TargetType
<1>5. [busy |-> TRUE, amp |-> Target(known', level')] \in [busy : BOOLEAN, amp : Levels]
  BY <1>4
<1>6. thread' \in [Threads -> [busy : BOOLEAN, amp : Levels]]
  BY <1>1, <1>5 DEF MonitorTypeOK
<1>7. QED
  BY <1>1, <1>2, <1>3, <1>6

\* A capture is given up only when questions enough about it have been lost.
LEMMA GivenUpLost ==
  ASSUME MonitorIInv, NEW tally \in Tallies, NEW qs, NEW l \in GivenUp(tally, qs),
         questions \subseteq qs, tally[l] <= asked[l], Contains(open, l)
  PROVE  ignored[l] >= Attempts
<1>1. l \in Loops /\ tally[l] >= Attempts /\ l \notin qs /\ ~OnItsWay(l)
  BY DEF GivenUp, TimedOut, OnItsWay
<1>2. Unanswered(l) /\ l \notin questions
  BY <1>1 DEF MonitorIInv, Accounted
<1>3. asked[l] \in Nat /\ ignored[l] \in Nat /\ tally[l] \in Nat /\ Attempts \in Nat
  BY <1>1, AttemptsType, CountType, AskedType DEF MonitorIInv, MonitorTypeOK
<1>4. asked[l] <= ignored[l]
  BY <1>2, <1>3 DEF Unanswered
<1>5. QED
  BY <1>1, <1>3, <1>4

LEMMA MainIsThread == "main" \in Threads /\ Handlers \subseteq Threads
BY DEF Threads

\* The captures and the questions that a report leaves to the policy.
LEMMA TakeReportStep ==
  ASSUME MonitorIInv, NEW t \in Handlers, TakeReport(t)
  PROVE  \E l \in Loops, captures \in Seq(Loops), ended \in SUBSET Loops, tally \in Tallies :
           /\ reports # <<>> /\ l = Head(reports).loop /\ reports' = Tail(reports)
           /\ Compute(t, captures, ended, tally, questions)
           /\ IsInjective(captures) /\ ended \subseteq {l}
           /\ \A k : Contains(known, k) => Contains(captures, k)
           /\ tally[l] = 0 /\ \A k \in Loops : k # l => tally[k] = asked[k]
           /\ ignored' = [ignored EXCEPT ![l] = 0]
           /\ UNCHANGED <<open, running, level, last, error, stage, reused, stale, used>>
<1> DEFINE r == Head(reports)
           l == r.loop
           captures == IF r.capturing /\ ~Contains(known, l) THEN Append(known, l) ELSE known
           ended == IF r.capturing THEN {} ELSE {l}
           tally == [asked EXCEPT ![l] = 0]
<1>1. /\ reports # <<>> /\ reports' = Tail(reports)
      /\ Compute(t, captures, ended, tally, questions)
      /\ ignored' = [ignored EXCEPT ![l] = 0]
      /\ UNCHANGED <<open, running, level, last, error, stage, reused, stale, used>>
  BY DEF TakeReport, engine, gain
<1>2. MonitorTypeOK
  BY DEF MonitorIInv
<1>3. l \in Loops
  <2>1. reports \in Seq(Report)
    BY <1>2 DEF MonitorTypeOK
  <2>2. r \in Report
    BY <1>1, <2>1
  <2>3. QED
    BY <2>2 DEF Report
<1>4. /\ captures \in Seq(Loops) /\ IsInjective(captures)
      /\ \A k : Contains(known, k) => Contains(captures, k)
  <2>1. known \in Seq(Loops) /\ IsInjective(known)
    BY <1>2 DEF MonitorTypeOK
  <2>2. CASE r.capturing /\ ~Contains(known, l)
    BY <1>3, <2>1, <2>2, AppendContains
  <2>3. CASE ~(r.capturing /\ ~Contains(known, l))
    BY <2>1, <2>3
  <2>4. QED
    BY <2>2, <2>3
<1>5. /\ tally \in Tallies /\ tally[l] = 0
      /\ \A k \in Loops : k # l => tally[k] = asked[k]
  BY <1>2, <1>3, AttemptsType DEF MonitorTypeOK, Tallies
<1>6. ended \in SUBSET Loops /\ ended \subseteq {l}
  BY <1>3
<1> HIDE DEF captures, ended, tally
<1>7. QED
  BY <1>1, <1>3, <1>4, <1>5, <1>6

LEMMA TakeReportCounted ==
  ASSUME MonitorIInv, NEW t \in Handlers, TakeReport(t)
  PROVE  MonitorIInv'
<1>1. PICK l \in Loops, captures \in Seq(Loops), ended \in SUBSET Loops, tally \in Tallies :
           /\ reports # <<>> /\ l = Head(reports).loop /\ reports' = Tail(reports)
           /\ Compute(t, captures, ended, tally, questions)
           /\ IsInjective(captures) /\ ended \subseteq {l}
           /\ \A k : Contains(known, k) => Contains(captures, k)
           /\ tally[l] = 0 /\ \A k \in Loops : k # l => tally[k] = asked[k]
           /\ ignored' = [ignored EXCEPT ![l] = 0]
           /\ UNCHANGED <<open, running, level, last, error, stage, reused, stale, used>>
  BY TakeReportStep
<1>2. MonitorTypeOK /\ Spent /\ Accounted
  BY DEF MonitorIInv
<1>3. t \in Threads /\ questions \in SUBSET Loops /\ level' \in [Loops -> Levels]
  BY <1>1, <1>2, MainIsThread DEF MonitorTypeOK
<1>4. /\ known' \in Seq(Loops) /\ IsInjective(known')
      /\ asked' \in Tallies /\ questions' = questions
      /\ thread' \in [Threads -> [busy : BOOLEAN, amp : Levels]]
      /\ dropped' \in BOOLEAN
      /\ \A k \in Loops : asked'[k] <= tally[k]
  BY <1>1, <1>2, <1>3, ComputeType
<1>5. /\ reports' \in Seq(Report)
      /\ \A k \in Loops : k # l /\ OnItsWay(k) => OnItsWay(k)'
  <2>1. reports \in Seq(Report)
    BY <1>2 DEF MonitorTypeOK
  <2>2. /\ reports' \in Seq(Report) /\ Len(reports') = Len(reports) - 1 /\ Len(reports) \in Nat
        /\ \A i \in 1..Len(reports') : reports'[i] = reports[i + 1]
        /\ Head(reports) = reports[1]
    BY <1>1, <2>1
  <2>3. ASSUME NEW k \in Loops, k # l, OnItsWay(k) PROVE OnItsWay(k)'
    <3>1. PICK n \in 1..Len(reports) : reports[n].loop = k
      BY <2>3 DEF OnItsWay
    <3>2. n # 1 /\ n - 1 \in 1..Len(reports') /\ (n - 1) + 1 = n
      BY <1>1, <2>2, <2>3, <3>1
    <3>3. reports'[n - 1].loop = k
      BY <2>2, <3>1, <3>2
    <3>4. QED
      BY <3>2, <3>3 DEF OnItsWay
  <2>4. QED
    BY <2>2, <2>3
<1>6. /\ ignored' \in [Loops -> Nat] /\ ignored'[l] = 0
      /\ \A k \in Loops : k # l => ignored'[k] = ignored[k]
  BY <1>1, <1>2 DEF MonitorTypeOK
<1>7. MonitorTypeOK' /\ Spent'
  BY <1>1, <1>2, <1>4, <1>5, <1>6 DEF MonitorTypeOK, Spent, Tallies
<1>8. ASSUME NEW k \in Loops, Contains(open', k) PROVE OnItsWay(k)' \/ Unanswered(k)'
  <2>1. /\ asked[k] \in Nat /\ asked'[k] \in Nat /\ ignored[k] \in Nat /\ ignored'[k] \in Nat
        /\ tally[k] \in Nat /\ asked'[k] <= tally[k]
    BY <1>2, <1>4, <1>6, CountType, AskedType DEF MonitorTypeOK
  <2>2. CASE k = l
    <3>1. asked'[k] = 0 /\ ignored'[k] = 0
      BY <1>1, <1>6, <2>1, <2>2
    <3>2. QED
      BY <3>1 DEF Unanswered
  <2>3. CASE k # l /\ OnItsWay(k)
    BY <1>5, <2>3
  <2>4. CASE k # l /\ Unanswered(k)
    <3>1. asked'[k] <= asked[k] /\ ignored'[k] = ignored[k] /\ questions' = questions
      BY <1>1, <1>4, <1>6, <2>1, <2>4
    <3>2. QED
      BY <2>1, <2>4, <3>1 DEF Unanswered
  <2>5. QED
    BY <1>1, <1>2, <1>8, <2>2, <2>3, <2>4 DEF Accounted
<1>9. Accounted'
  BY <1>1, <1>2, <1>8 DEF Accounted
<1>10. QED
  BY <1>7, <1>9 DEF MonitorIInv

\* A question is counted when it is put, and none is put while one is under way.
LEMMA AskStep ==
  ASSUME MonitorIInv, NEW l \in Loops, Ask(l)
  PROVE  \E tally \in Tallies, qs \in SUBSET Loops :
           /\ Compute("main", known, {}, tally, qs)
           /\ qs = questions \cup {l} /\ tally[l] = asked[l] + 1
           /\ asked[l] = 0 \/ TimedOut(l, questions)
           /\ \A k \in Loops : k # l => tally[k] = asked[k]
           /\ UNCHANGED <<open, running, reports, level, last, error, stage, ignored,
                          reused, stale, used>>
<1> DEFINE tally == [asked EXCEPT ![l] = @ + 1]
           qs == questions \cup {l}
<1>1. /\ Compute("main", known, {}, tally, qs) /\ MayAsk(l)
      /\ UNCHANGED <<open, running, reports, level, last, error, stage, ignored,
                     reused, stale, used>>
  BY DEF Ask, engine, gain
<1>2. asked[l] = 0 \/ (asked[l] < Attempts /\ TimedOut(l, questions))
  BY <1>1 DEF MayAsk
<1>3. asked \in Tallies /\ questions \subseteq Loops
  BY DEF MonitorIInv, MonitorTypeOK, Tallies
<1>4. asked[l] + 1 \in 0..Attempts
  BY <1>2, <1>3, MonitorAssumption DEF Tallies
<1>5. /\ tally \in Tallies /\ tally[l] = asked[l] + 1
      /\ \A k \in Loops : k # l => tally[k] = asked[k]
  BY <1>3, <1>4 DEF Tallies
<1>6. qs \in SUBSET Loops
  BY <1>3
<1> HIDE DEF tally
<1>7. QED
  BY <1>1, <1>2, <1>5, <1>6

LEMMA AskCounted ==
  ASSUME MonitorIInv, NEW l \in Loops, Ask(l)
  PROVE  MonitorIInv'
<1>1. PICK tally \in Tallies, qs \in SUBSET Loops :
           /\ Compute("main", known, {}, tally, qs)
           /\ qs = questions \cup {l} /\ tally[l] = asked[l] + 1
           /\ asked[l] = 0 \/ TimedOut(l, questions)
           /\ \A k \in Loops : k # l => tally[k] = asked[k]
           /\ UNCHANGED <<open, running, reports, level, last, error, stage, ignored,
                          reused, stale, used>>
  BY AskStep
<1>2. MonitorTypeOK /\ Spent /\ Accounted
  BY DEF MonitorIInv
<1>3. level' \in [Loops -> Levels] /\ known \in Seq(Loops) /\ IsInjective(known)
  BY <1>1, <1>2 DEF MonitorTypeOK
<1>4. /\ known' \in Seq(Loops) /\ IsInjective(known')
      /\ asked' \in Tallies /\ questions' = qs
      /\ thread' \in [Threads -> [busy : BOOLEAN, amp : Levels]]
      /\ dropped' \in BOOLEAN
      /\ \A k \in Loops : asked'[k] <= tally[k]
  BY <1>1, <1>2, <1>3, MainIsThread, ComputeType
<1>5. MonitorTypeOK' /\ Spent'
  BY <1>1, <1>2, <1>4 DEF MonitorTypeOK, Spent, Tallies
<1>6. ASSUME NEW k \in Loops, Contains(open', k) PROVE OnItsWay(k)' \/ Unanswered(k)'
  <2>1. /\ asked[k] \in Nat /\ asked'[k] \in Nat /\ ignored[k] \in Nat
        /\ tally[k] \in Nat /\ asked'[k] <= tally[k] /\ ignored'[k] = ignored[k]
    BY <1>1, <1>2, <1>4, CountType, AskedType DEF MonitorTypeOK
  <2>2. OnItsWay(k) \/ Unanswered(k)
    BY <1>1, <1>2, <1>6 DEF Accounted
  <2>3. OnItsWay(k) => OnItsWay(k)'
    BY <1>1 DEF OnItsWay
  <2>4. CASE k # l /\ Unanswered(k)
    <3>1. asked'[k] <= asked[k] /\ (k \in questions' <=> k \in questions)
      BY <1>1, <1>4, <2>1, <2>4
    <3>2. QED
      BY <2>1, <2>4, <3>1 DEF Unanswered
  <2>5. CASE k = l /\ ~OnItsWay(k)
    <3>1. asked[l] <= ignored[l]
      <4>1. CASE asked[l] = 0
        BY <2>1, <2>5, <4>1
      <4>2. CASE TimedOut(l, questions)
        BY <2>1, <2>2, <2>5, <4>2 DEF TimedOut, Unanswered
      <4>3. QED
        BY <1>1, <4>1, <4>2
    <3>2. l \in questions' /\ asked'[l] <= asked[l] + 1
      BY <1>1, <1>4, <2>1, <2>5
    <3>3. QED
      BY <2>1, <2>5, <3>1, <3>2 DEF Unanswered
  <2>6. QED
    BY <2>2, <2>3, <2>4, <2>5
<1>7. Accounted'
  BY <1>1, <1>2, <1>6 DEF Accounted
<1>8. QED
  BY <1>5, <1>7 DEF MonitorIInv

\* Going round, or moving a fader, asks nothing and forgets only what is given up.
LEMMA PollCounted ==
  ASSUME MonitorIInv, NEW lv \in [Loops -> Levels], level' = lv,
         Compute("main", known, {}, asked, questions),
         UNCHANGED <<open, running, reports, last, error, stage, ignored, reused, stale>>,
         Spent', \A w \in DOMAIN Budget : used'[w] \in 0..Budget[w]
  PROVE  MonitorIInv'
<1>1. MonitorTypeOK /\ Accounted
  BY DEF MonitorIInv
<1>2. /\ known \in Seq(Loops) /\ IsInjective(known) /\ asked \in Tallies
      /\ questions \in SUBSET Loops
  BY <1>1 DEF MonitorTypeOK, Tallies
<1>3. /\ known' \in Seq(Loops) /\ IsInjective(known')
      /\ asked' \in Tallies /\ questions' = questions
      /\ thread' \in [Threads -> [busy : BOOLEAN, amp : Levels]]
      /\ dropped' \in BOOLEAN
      /\ \A k \in Loops : asked'[k] <= asked[k]
  BY <1>1, <1>2, MainIsThread, ComputeType
<1>4. MonitorTypeOK'
  BY <1>1, <1>3 DEF MonitorTypeOK, Tallies
<1>5. ASSUME NEW k \in Loops, Contains(open', k) PROVE OnItsWay(k)' \/ Unanswered(k)'
  <2>1. /\ asked[k] \in Nat /\ asked'[k] \in Nat /\ ignored[k] \in Nat
        /\ asked'[k] <= asked[k] /\ ignored'[k] = ignored[k]
    BY <1>1, <1>3, CountType, AskedType DEF MonitorTypeOK
  <2>2. OnItsWay(k) \/ Unanswered(k)
    BY <1>1, <1>5 DEF Accounted
  <2>3. OnItsWay(k) => OnItsWay(k)'
    BY DEF OnItsWay
  <2>4. QED
    BY <1>3, <2>1, <2>2, <2>3 DEF Unanswered
<1>6. Accounted'
  BY <1>1, <1>5 DEF Accounted
<1>7. QED
  BY <1>4, <1>6 DEF MonitorIInv

LEMMA MainCounted ==
  ASSUME MonitorIInv, Poll \/ \E l \in Loops, amp \in Levels : MoveFader(l, amp)
  PROVE  MonitorIInv'
<1>1. MonitorTypeOK /\ Spent
  BY DEF MonitorIInv
<1>2. CASE Poll
  <2>1. /\ Compute("main", known, {}, asked, questions) /\ level' = level /\ used' = used
        /\ UNCHANGED <<open, running, reports, last, error, stage, ignored, reused, stale>>
    BY <1>2 DEF Poll, engine, gain
  <2>2. /\ level \in [Loops -> Levels] /\ Spent'
        /\ \A w \in DOMAIN Budget : used'[w] \in 0..Budget[w]
    BY <1>1, <2>1 DEF MonitorTypeOK, Spent
  <2>3. QED
    BY <2>1, <2>2, PollCounted
<1>3. ASSUME NEW l \in Loops, NEW amp \in Levels, MoveFader(l, amp) PROVE MonitorIInv'
  <2>1. /\ Compute("main", known, {}, asked, questions) /\ level' = [level EXCEPT ![l] = amp]
        /\ Use("moves")
        /\ UNCHANGED <<open, running, reports, last, error, stage, ignored, reused, stale>>
    BY <1>3 DEF MoveFader, engine, gain
  <2>2. [level EXCEPT ![l] = amp] \in [Loops -> Levels]
    BY <1>1 DEF MonitorTypeOK
  <2>3. "moves" \in DOMAIN Budget
    BY DEF Budget
  <2>4. Spent' /\ \A w \in DOMAIN Budget : used'[w] \in 0..Budget[w]
    BY <1>1, <2>1, <2>3, BudgetUsed DEF Spent
  <2>5. QED
    BY <2>1, <2>2, <2>4, PollCounted
<1>4. QED
  BY <1>2, <1>3

LEMMA SendCounted ==
  ASSUME MonitorIInv, NEW t \in Threads, Send(t)
  PROVE  MonitorIInv'
<1>1. /\ thread[t].busy /\ Push(thread[t].amp) /\ stale' \in BOOLEAN
      /\ thread' = [thread EXCEPT ![t] = Resting]
      /\ UNCHANGED <<open, running, reports, questions, level, known, asked, ignored,
                     dropped, reused, used>>
  BY DEF Send, engine, policy, MonitorIInv, MonitorTypeOK
<1>2. MonitorTypeOK /\ Spent /\ Accounted
  BY DEF MonitorIInv
<1>3. thread[t].amp \in Levels /\ Resting \in [busy : BOOLEAN, amp : Levels]
  BY <1>2, MonitorAssumption DEF MonitorTypeOK, Resting
<1>4. thread' \in [Threads -> [busy : BOOLEAN, amp : Levels]]
  BY <1>1, <1>2, <1>3 DEF MonitorTypeOK
<1>5. last' \in Levels /\ error' \in BOOLEAN /\ stage' \in [up : BOOLEAN, amp : Levels]
  <2>1. last \in Levels /\ error \in BOOLEAN /\ stage \in [up : BOOLEAN, amp : Levels]
    BY <1>2 DEF MonitorTypeOK
  <2>2. QED
    BY <1>1, <1>3, <2>1 DEF Push, gain
<1>6. MonitorTypeOK'
  BY <1>1, <1>2, <1>4, <1>5 DEF MonitorTypeOK
<1>7. Accounted' /\ Spent'
  BY <1>1, <1>2 DEF Accounted, Spent, OnItsWay, Unanswered
<1>8. QED
  BY <1>6, <1>7 DEF MonitorIInv

LEMMA StageCounted ==
  ASSUME MonitorIInv, StageDies \/ StageStarts
  PROVE  MonitorIInv'
<1>1. UNCHANGED <<open, running, reports, questions, level, known, asked, thread, last, error,
                  ignored, dropped, reused>>
  BY DEF StageDies, StageStarts, engine, policy, history
<1>2. MonitorTypeOK /\ Spent /\ Accounted
  BY DEF MonitorIInv
<1>3. stage' \in [up : BOOLEAN, amp : Levels] /\ stale' \in BOOLEAN
  <2>1. stage \in [up : BOOLEAN, amp : Levels] /\ stale \in BOOLEAN /\ Unity \in Levels
    BY <1>2, MonitorAssumption DEF MonitorTypeOK
  <2>2. CASE StageDies
    BY <2>1, <2>2 DEF StageDies
  <2>3. CASE StageStarts
    BY <2>1, <2>3 DEF StageStarts, history
  <2>4. QED
    BY <2>2, <2>3
<1>4. Spent' /\ \A w \in DOMAIN Budget : used'[w] \in 0..Budget[w]
  <2>1. CASE UNCHANGED used
    BY <1>2, <2>1 DEF Spent, MonitorTypeOK
  <2>2. CASE Use("faults")
    <3>1. "faults" \in DOMAIN Budget
      BY DEF Budget
    <3>2. QED
      BY <1>2, <2>2, <3>1, BudgetUsed DEF Spent
  <2>3. QED
    BY <2>1, <2>2 DEF StageDies, StageStarts
<1>5. MonitorTypeOK'
  BY <1>1, <1>2, <1>3, <1>4 DEF MonitorTypeOK
<1>6. Accounted'
  BY <1>1, <1>2 DEF Accounted, OnItsWay, Unanswered
<1>7. QED
  BY <1>4, <1>5, <1>6 DEF MonitorIInv

LEMMA MonitorStarts == MonitorInit => MonitorIInv
<1> SUFFICES ASSUME MonitorInit PROVE MonitorIInv
  OBVIOUS
<1>1. IsInjective(<<>>) /\ <<>> \in Seq(Loops) /\ <<>> \in Seq(Report)
  BY DEF IsInjective
<1>2. Resting \in [busy : BOOLEAN, amp : Levels]
  BY MonitorAssumption DEF Resting
<1>3. Spent /\ \A w \in DOMAIN Budget : used[w] \in 0..Budget[w]
  <2>1. DOMAIN Budget = {"takes", "moves", "faults"}
    BY DEF Budget
  <2>2. \A w \in DOMAIN Budget : Budget[w] \in Nat
    BY MonitorAssumption DEF Budget
  <2>3. QED
    BY <2>2 DEF MonitorInit, Spent
<1>4. MonitorTypeOK
  <2>1. 0 \in 0..Attempts /\ Unity \in Levels
    BY MonitorAssumption
  <2>2. /\ level \in [Loops -> Levels] /\ asked \in Tallies
        /\ ignored \in [Loops -> Nat] /\ questions \subseteq Loops
    BY <2>1 DEF MonitorInit, Tallies
  <2>3. thread \in [Threads -> [busy : BOOLEAN, amp : Levels]]
    BY <1>2 DEF MonitorInit
  <2>4. /\ IsInjective(open) /\ open \in Seq(Loops) /\ running \in BOOLEAN
        /\ reports \in Seq(Report) /\ IsInjective(known) /\ known \in Seq(Loops)
    BY <1>1 DEF MonitorInit
  <2>5. /\ last \in Levels /\ error \in BOOLEAN /\ stage \in [up : BOOLEAN, amp : Levels]
        /\ {dropped, reused, stale} \subseteq BOOLEAN
    BY <2>1 DEF MonitorInit
  <2>6. QED
    BY <1>3, <2>2, <2>3, <2>4, <2>5 DEF MonitorTypeOK, Tallies
<1>5. Accounted
  BY NothingOpen DEF MonitorInit, Accounted
<1>6. QED
  BY <1>3, <1>4, <1>5 DEF MonitorIInv

LEMMA MonitorSteps == MonitorIInv /\ [MonitorNext]_monitorVars => MonitorIInv'
<1> SUFFICES ASSUME MonitorIInv, [MonitorNext]_monitorVars PROVE MonitorIInv'
  OBVIOUS
<1>1. CASE Main
  BY <1>1, MainCounted, AskCounted, SendCounted, MainIsThread DEF Main
<1>2. CASE World
  BY <1>2, OpenTakeCounted, CloseTakeCounted, MainCounted, EngineCounted, StageCounted DEF World
<1>3. ASSUME NEW t \in Handlers, Handle(t) PROVE MonitorIInv'
  BY <1>3, TakeReportCounted, SendCounted, MainIsThread DEF Handle
<1>4. ASSUME NEW l \in Loops, Answer(l) PROVE MonitorIInv'
  BY <1>4, AnswerCounted
<1>5. CASE UNCHANGED monitorVars
  BY <1>5 DEF monitorVars, MonitorIInv, MonitorTypeOK, Spent, Accounted, OnItsWay, Unanswered
<1>6. QED
  BY <1>1, <1>2, <1>3, <1>4, <1>5 DEF MonitorNext

\* The engine's captures and the bench's stay lists of different loops, and no loop is
\* asked about more often than the policy allows, whatever is lost and whoever dies.
THEOREM MonitorTyping == MonitorSpec => []MonitorTypeOK
<1>1. MonitorIInv => MonitorTypeOK
  BY DEF MonitorIInv
<1>2. QED
  BY <1>1, MonitorStarts, MonitorSteps, PTL DEF MonitorSpec

\* The step that forgets a loop is a report about it, or comes after the losses.
LEMMA ForgottenFor ==
  ASSUME MonitorIInv, [MonitorNext]_monitorVars, NEW l \in Loops,
         Contains(open, l), Contains(known, l), ~Contains(known', l)
  PROVE  \/ ignored[l] >= Attempts
         \/ reports # <<>> /\ Head(reports).loop = l /\ reports' = Tail(reports)
<1>1. /\ MonitorTypeOK /\ known \in Seq(Loops) /\ IsInjective(known)
      /\ asked \in Tallies /\ questions \in SUBSET Loops
      /\ level \in [Loops -> Levels]
  BY DEF MonitorIInv, MonitorTypeOK, Tallies
<1>2. known' # known
  OBVIOUS
<1>3. ASSUME NEW t \in Handlers, TakeReport(t)
      PROVE  \/ ignored[l] >= Attempts
             \/ reports # <<>> /\ Head(reports).loop = l /\ reports' = Tail(reports)
  <2>1. PICK k \in Loops, captures \in Seq(Loops), ended \in SUBSET Loops, tally \in Tallies :
           /\ reports # <<>> /\ k = Head(reports).loop /\ reports' = Tail(reports)
           /\ Compute(t, captures, ended, tally, questions)
           /\ IsInjective(captures) /\ ended \subseteq {k}
           /\ \A x : Contains(known, x) => Contains(captures, x)
           /\ tally[k] = 0 /\ \A x \in Loops : x # k => tally[x] = asked[x]
           /\ ignored' = [ignored EXCEPT ![k] = 0]
           /\ UNCHANGED <<open, running, level, last, error, stage, reused, stale, used>>
    BY <1>3, TakeReportStep
  <2>2. l \in ended \/ l \in GivenUp(tally, questions)
    BY <1>1, <1>3, <2>1, MainIsThread, ComputeType
  <2>3. tally[l] <= asked[l]
    <3>1. tally[l] \in Nat /\ asked[l] \in Nat
      BY <1>1, CountType
    <3>2. QED
      BY <2>1, <3>1
  <2>4. QED
    BY <2>1, <2>2, <2>3, GivenUpLost
<1>4. ASSUME NEW k \in Loops, Ask(k) PROVE ignored[l] >= Attempts
  <2>1. PICK tally \in Tallies, qs \in SUBSET Loops :
           /\ Compute("main", known, {}, tally, qs)
           /\ qs = questions \cup {k} /\ UNCHANGED level
           /\ \A x \in Loops : x # k => tally[x] = asked[x]
    BY <1>4, AskStep
  <2>2. l \in GivenUp(tally, qs)
    <3> DEFINE none == {}
    <3>1. Compute("main", known, none, tally, qs) /\ level' \in [Loops -> Levels]
      BY <1>1, <2>1
    <3> HIDE DEF none
    <3>2. l \in none \/ l \in GivenUp(tally, qs)
      BY <1>1, <3>1, MainIsThread, ComputeType
    <3>3. QED
      BY <3>2 DEF none
  <2>3. l # k
    BY <2>1, <2>2 DEF GivenUp, TimedOut
  <2>4. tally[l] <= asked[l] /\ questions \subseteq qs
    <3>1. tally[l] \in Nat /\ asked[l] \in Nat
      BY <1>1, CountType
    <3>2. QED
      BY <2>1, <2>3, <3>1
  <2>5. QED
    BY <2>2, <2>4, GivenUpLost
<1>5. CASE Poll \/ \E k \in Loops, amp \in Levels : MoveFader(k, amp)
  <2>1. Compute("main", known, {}, asked, questions) /\ level' \in [Loops -> Levels]
    BY <1>1, <1>5 DEF Poll, MoveFader
  <2>2. l \in GivenUp(asked, questions)
    <3> DEFINE none == {}
    <3>1. Compute("main", known, none, asked, questions)
      BY <2>1
    <3> HIDE DEF none
    <3>2. l \in none \/ l \in GivenUp(asked, questions)
      BY <1>1, <2>1, <3>1, MainIsThread, ComputeType
    <3>3. QED
      BY <3>2 DEF none
  <2>3. asked[l] <= asked[l] /\ questions \subseteq questions
    BY <1>1, CountType
  <2>4. QED
    BY <1>1, <2>2, <2>3, GivenUpLost
<1>6. \A k \in Loops : ~OpenTake(k) /\ ~CloseTake(k) /\ ~Answer(k)
  BY <1>2 DEF OpenTake, CloseTake, Answer, policy
<1>7. ~EngineDies /\ ~EngineReturns /\ ~StageDies /\ ~StageStarts /\ \A t : ~Send(t)
  BY <1>2 DEF EngineDies, EngineReturns, StageDies, StageStarts, Send, policy
<1>8. ~UNCHANGED monitorVars
  BY <1>2 DEF monitorVars
<1>9. QED
  BY <1>3, <1>4, <1>5, <1>6, <1>7, <1>8 DEF MonitorNext, Main, World, Handle

\* A capture that is running is forgotten only at a report about its loop, or after as
\* many losses as the policy has attempts: never on silence alone.
THEOREM CapturesKept == MonitorSpec => KnownCaptureKept
<1>1. MonitorIInv /\ [MonitorNext]_monitorVars
        => [\A l \in Loops : Contains(open, l) /\ Contains(known, l) /\ ~Contains(known', l)
              => \/ ignored[l] >= Attempts
                 \/ reports # <<>> /\ Head(reports).loop = l /\ reports' = Tail(reports)]_monitorVars
  BY ForgottenFor
<1>2. QED
  BY <1>1, MonitorStarts, MonitorSteps, PTL DEF MonitorSpec, KnownCaptureKept
=============================================================================
