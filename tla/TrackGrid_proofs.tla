-------------------------- MODULE TrackGrid_proofs --------------------------
(***************************************************************************)
(* Proofs about TrackGrid, for any loops and lengths and for either        *)
(* reading of `record` on an armed loop: the engine counts the bench's     *)
(* grid, which is the length of the take that made it; the take that is    *)
(* waited for exists, and once it has landed it is no longer waited for.   *)
(***************************************************************************)
EXTENDS TrackGrid, TLAPS

-----------------------------------------------------------------------------
(* The inductive invariant. *)

\* A loop that sounds, or could, has audio, and one that takes it in or is empty has none;
\* only a queued close leads into a ring-out.
Sound == {e \in Engine : /\ e.st \in {"ring", "play", "quiet"} => e.len # 0
                         /\ e.st \in {"off", "rec", "waitstop"} => e.len = 0
                         /\ e.ringing => e.st = "waitstop"}
AudioHasLength == eng \in [Loops -> Sound]

\* A loop that is armed or records is known to the bench, or its report is owed.
TakesAreKnown ==
  \A l \in Loops : eng[l].st \in {"waitstart", "rec"} /\ ~owed[l]
                     => heard[l].st \in {"waitstart", "rec"}

\* A grid and a take to define one exclude each other.
GridOrDefiner == grid.est => grid.pending = None

\* A loop that is still heard playing while its next take is to define the grid
\* was pressed just now, and the take has not been closed.
RearmedIsOwed ==
  \A l \in Loops :
    heard[l].st = "play" /\ heard[l].len # 0 /\ grid.pending = l
      => owed[l] /\ eng[l].st \in {"off", "waitstart", "rec", "quiet"}

\* A loop the grid does not count is heard empty, or is empty and about to be.
UncountedIsEmpty ==
  \A l \in Loops :
    l \notin grid.occupied /\ heard[l].st # "off" => eng[l].st = "off" /\ owed[l]

IInv == TypeOK /\ AudioHasLength /\ TakesAreKnown /\ GridOrDefiner /\ RearmedIsOwed
Counts == IInv /\ UncountedIsEmpty

-----------------------------------------------------------------------------
(* What the commands leave. *)

LEMMA IntoSound ==
  ASSUME NEW st \in EngineState, NEW len \in Lengths \cup {0},
         st \in {"ring", "play", "quiet"} => len # 0,
         st \in {"off", "rec", "waitstop"} => len = 0
  PROVE  Into(st, len) \in Sound
BY DEF Into, Sound, Engine

LEMMA LandingsSound ==
  ASSUME NEW st \in {"ring", "play", "quiet"}
  PROVE  Landings(st) \subseteq Sound
<1> SUFFICES ASSUME NEW len \in Lengths PROVE Into(st, len) \in Sound
  BY DEF Landings
<1> len # 0
  BY LengthsAssumption
<1> QED
  BY IntoSound DEF EngineState

LEMMA BlankSound == Blank \in Sound
BY IntoSound DEF Blank, EngineState

LEMMA HitRecordSound ==
  ASSUME NEW e \in Sound, told.quant \in BOOLEAN
  PROVE  HitRecord(e) \subseteq Sound
<1>1. e.st \in EngineState /\ e.len \in Lengths \cup {0}
  BY DEF Sound, Engine
<1>2. /\ Into("waitstop", 0) \in Sound /\ Into("rec", 0) \in Sound
      /\ Into("waitstart", e.len) \in Sound
      /\ e.len # 0 => Into("play", e.len) \in Sound
  BY <1>1, IntoSound DEF EngineState
<1>3. Landings("play") \subseteq Sound
  BY LandingsSound DEF EngineState
<1>4. CASE e.st = "waitstart"
  BY <1>2, <1>4, BlankSound, ArmedRecordAssumption DEF HitRecord
<1>5. CASE e.st = "rec"
  BY <1>2, <1>3, <1>5 DEF HitRecord
<1>6. CASE e.st = "waitstop"
  BY <1>2, <1>6 DEF HitRecord
<1>7. CASE e.st \notin {"waitstart", "rec", "waitstop"}
  BY <1>2, <1>7 DEF HitRecord
<1>8. QED
  BY <1>4, <1>5, <1>6, <1>7

LEMMA HitOverdubSound ==
  ASSUME NEW e \in Sound, told.quant \in BOOLEAN
  PROVE  HitOverdub(e) \subseteq Sound
<1>1. e.st \in EngineState /\ e.len \in Lengths \cup {0}
  BY DEF Sound, Engine
<1>2. [Into("waitstop", 0) EXCEPT !.ringing = TRUE] \in Sound
  BY DEF Into, Sound, Engine, EngineState
<1>3. Landings("ring") \subseteq Sound
  BY LandingsSound DEF EngineState
<1>4. e.st \in {"ring", "play"} => Into("play", e.len) \in Sound /\ Into("ring", e.len) \in Sound
  BY <1>1, IntoSound DEF EngineState, Sound
<1>5. CASE e.st = "rec"
  BY <1>2, <1>3, <1>5 DEF HitOverdub
<1>6. CASE e.st = "ring"
  BY <1>4, <1>6 DEF HitOverdub
<1>7. CASE e.st = "play"
  BY <1>4, <1>7 DEF HitOverdub
<1>8. CASE e.st \notin {"rec", "ring", "play"}
  BY <1>8 DEF HitOverdub
<1>9. QED
  BY <1>5, <1>6, <1>7, <1>8

LEMMA HitQuietSound ==
  ASSUME NEW e \in Sound
  PROVE  HitQuiet(e) \subseteq Sound /\ HitTrigger(e) \subseteq Sound
<1>1. e.st \in EngineState /\ e.len \in Lengths \cup {0}
  BY DEF Sound, Engine
<1>2. e.st \in {"ring", "play", "quiet"} => Into("quiet", e.len) \in Sound /\ Into("play", e.len) \in Sound
  BY <1>1, IntoSound DEF EngineState, Sound
<1>3. QED
  BY <1>2 DEF HitQuiet, HitTrigger, ActivePlay

LEMMA HitSound ==
  ASSUME NEW e \in Sound, NEW cmd \in Commands, told.quant \in BOOLEAN
  PROVE  Hit(cmd, e) \subseteq Sound
<1>1. CASE cmd = "record"
  BY <1>1, HitRecordSound DEF Hit
<1>2. CASE cmd = "overdub"
  BY <1>2, HitOverdubSound DEF Hit
<1>3. CASE cmd = "quiet"
  BY <1>3, HitQuietSound DEF Hit
<1>4. CASE cmd = "trigger"
  BY <1>4, HitQuietSound DEF Hit
<1>5. CASE cmd \in {"undo_all", "nothing"}
  BY <1>5, BlankSound DEF Hit
<1>6. QED
  BY <1>1, <1>2, <1>3, <1>4, <1>5 DEF Commands

LEMMA SilencedSound ==
  ASSUME NEW e \in Sound
  PROVE  Silenced(e) \subseteq Sound
BY HitQuietSound, LandingsSound DEF Silenced, EngineState

-----------------------------------------------------------------------------
(* The grid and what is told of it. *)

LEMMA GridTypes ==
  ASSUME NEW g \in Grid, NEW l \in Loops, NEW len \in Lengths \cup {0}, NEW holds \in BOOLEAN
  PROVE  /\ NoGrid \in Grid /\ Arm(g, l) \in Grid /\ Cancel(g, l) \in Grid
         /\ Establish(g, l, len) \in Grid /\ NoteLoopContent(g, l, holds) \in Grid
BY DEF Grid, NoGrid, Arm, Cancel, Establish, NoteLoopContent

LEMMA ToldTypes ==
  ASSUME NEW t \in Told, NEW g \in Grid, NEW h \in Grid, NEW arm \in BOOLEAN
  PROVE  /\ Freeform \in Told /\ DropGrid(t) \in Told /\ Tell(t, g, h) \in Told
         /\ ApplyEstablishedGrid(t, g, arm) \in Told
BY DEF Grid, Told, Freeform, DropGrid, Tell, ApplyEstablishedGrid

\* Only the loop that is pending becomes a grid, and then none is pending.
LEMMA EstablishChanges ==
  ASSUME NEW g \in Grid, NEW l \in Loops, NEW len \in Lengths \cup {0}
  PROVE  /\ g.est => Establish(g, l, len) = g
         /\ Establish(g, l, len).est /\ ~g.est => Establish(g, l, len).pending = None
         /\ Establish(g, l, len).pending \in {g.pending, None}
         /\ len # 0 /\ ~g.est => Establish(g, l, len).pending # l
BY NoneAssumption DEF Grid, Establish

LEMMA NoteChanges ==
  ASSUME NEW g \in Grid, NEW l \in Loops, NEW holds \in BOOLEAN
  PROVE  /\ NoteLoopContent(g, l, holds).est => g.est
         /\ NoteLoopContent(g, l, holds).est => NoteLoopContent(g, l, holds).cycle = g.cycle
         /\ NoteLoopContent(g, l, holds).pending \in {g.pending, None}
BY DEF Grid, NoGrid, NoteLoopContent

\* A report keeps the engine's grid the bench's.
LEMMA TellKeeps ==
  ASSUME NEW t \in Told, NEW g \in Grid, NEW h \in Grid,
         g.est => t.cycle = g.cycle /\ t.shared,
         g.est /\ h.est => h.cycle = g.cycle
  PROVE  /\ h.est => Tell(t, g, h).cycle = h.cycle /\ Tell(t, g, h).shared
         /\ t.quant = g.est => Tell(t, g, h).quant = h.est
BY DEF Tell, Told, Grid, ApplyEstablishedGrid, DropGrid

-----------------------------------------------------------------------------
(* What a press means. *)

Plans == [cmd : Commands, intent : Intents, arm : BOOLEAN, queue : BOOLEAN]

LEMMA PlanType ==
  ASSUME NEW cmd \in Commands, NEW i \in Intents
  PROVE  Plan(cmd, i) \in Plans /\ ~Plan(cmd, i).arm
BY DEF Plan, NoPlan, Plans

LEMMA EffectiveType ==
  ASSUME NEW st \in EngineState, NEW i \in Intents
  PROVE  EffectiveState(st, i) \in {"idle", "recording", "playing", "stopped"}
BY DEF EffectiveState, DeriveState, EngineState, Intents, ActivePlay

\* Only a `record` arms the grid, and only where there is none.
LEMMA PlanDownType ==
  ASSUME TypeOK, NEW l \in Loops, NEW st \in EngineState, NEW i \in Intents
  PROVE  /\ PlanDown(l, st, i) \in Plans
         /\ PlanDown(l, st, i).arm => PlanDown(l, st, i).cmd = "record" /\ ~grid.est
<1>1. CASE EffectiveState(st, i) = "idle"
  <2>1. PlanDown(l, st, i) = [Plan("record", "recording") EXCEPT !.arm = ~grid.est]
    BY <1>1 DEF PlanDown
  <2>2. Plan("record", "recording") \in Plans /\ Plan("record", "recording").cmd = "record"
    BY PlanType DEF Commands, Intents, Plan, NoPlan
  <2>3. QED
    BY <2>1, <2>2 DEF TypeOK, Grid, Plans
<1>2. CASE EffectiveState(st, i) = "recording"
  <2>1. PlanDown(l, st, i) \in {Plan("record", i), Plan("overdub", i), Plan("overdub", "playing"),
                               Plan("record", "playing"),
                               [Plan("nothing", "recording") EXCEPT !.queue = TRUE]}
    BY <1>2 DEF PlanDown
  <2>2. /\ [Plan("nothing", "recording") EXCEPT !.queue = TRUE] \in Plans
        /\ ~[Plan("nothing", "recording") EXCEPT !.queue = TRUE].arm
    BY DEF Plan, NoPlan, Plans, Commands, Intents
  <2>3. QED
    BY <2>1, <2>2, PlanType DEF Commands, Intents
<1>3. CASE EffectiveState(st, i) \in {"playing", "stopped"}
  <2>1. PlanDown(l, st, i) \in {Plan("overdub", "playing"), Plan("nothing", i)}
    BY <1>3 DEF PlanDown
  <2>2. QED
    BY <2>1, PlanType DEF Commands, Intents
<1>4. QED
  BY <1>1, <1>2, <1>3, EffectiveType

LEMMA PlanUpType ==
  ASSUME NEW st \in EngineState, NEW i \in Intents
  PROVE  PlanUp(st, i) \in Plans /\ ~PlanUp(st, i).arm
BY PlanType DEF PlanUp, Commands, Intents

LEMMA ExpireType ==
  ASSUME NEW st \in EngineState, NEW i \in Intents, NEW late \in BOOLEAN
  PROVE  Expire(st, i, late) \subseteq Intents
BY DEF Expire, Intents

-----------------------------------------------------------------------------
(* The steps. *)

LEMMA InitIInv == Init => IInv
<1> SUFFICES ASSUME Init PROVE IInv
  OBVIOUS
<1>1. Blank \in Sound /\ Blank.st = "off"
  BY BlankSound DEF Blank, Into
<1>2. TypeOK
  BY <1>1 DEF Init, TypeOK, Sound, Freeform, Told, NoGrid, Grid, EngineState, Intents
<1>3. AudioHasLength /\ TakesAreKnown /\ GridOrDefiner /\ RearmedIsOwed
  BY <1>1 DEF Init, AudioHasLength, TakesAreKnown, GridOrDefiner, RearmedIsOwed, NoGrid
<1>4. QED
  BY <1>2, <1>3 DEF IInv

\* A loop the player acts on is heard as it is, or takes on it are known and it
\* does not play on as the one to define the grid.
LEMMA ActingOn ==
  ASSUME IInv, NEW l \in Loops, MayAct(l), heard[l].st = "play"
  PROVE  /\ eng[l].st \notin {"waitstart", "rec"}
         /\ heard[l].len # 0 => grid.pending # l
BY DEF IInv, MayAct, Current, TakesAreKnown, RearmedIsOwed

\* What is known of every step that sends a command to one loop.
LEMMA DoKeeps ==
  ASSUME IInv, NEW l \in Loops, NEW cmd \in Commands, NEW i \in Intents,
         MayAct(l), Do(l, cmd, i), heard' = heard
  PROVE  /\ AudioHasLength' /\ TakesAreKnown'
         /\ eng' \in [Loops -> Engine] /\ owed' \in [Loops -> BOOLEAN]
         /\ intent' \in [Loops -> Intents]
         /\ \A k \in Loops \ {l} : eng'[k] = eng[k] /\ owed'[k] = owed[k]
<1>1. PICK e \in Hit(cmd, eng[l]) : /\ eng' = [eng EXCEPT ![l] = e]
                                    /\ owed' = [owed EXCEPT ![l] = e # eng[l]]
                                    /\ intent' = [intent EXCEPT ![l] = i]
  BY DEF Do
<1>2. e \in Sound
  BY HitSound DEF IInv, TypeOK, AudioHasLength, Told
<1>3. AudioHasLength' /\ eng' \in [Loops -> Engine]
  BY <1>1, <1>2 DEF IInv, AudioHasLength, TypeOK, Sound
<1>4. owed' \in [Loops -> BOOLEAN] /\ intent' \in [Loops -> Intents]
  BY <1>1 DEF IInv, TypeOK
<1>5. eng[l].st \in {"waitstart", "rec"} => heard[l].st \in {"waitstart", "rec"}
  BY DEF IInv, MayAct, Current, TakesAreKnown
<1>6. TakesAreKnown'
  BY <1>1, <1>5 DEF IInv, TakesAreKnown, TypeOK
<1>7. QED
  BY <1>1, <1>3, <1>4, <1>6 DEF IInv, TypeOK

LEMMA CarryKeeps ==
  ASSUME IInv, NEW l \in Loops, NEW p \in Plans, p.arm => p.cmd = "record" /\ ~grid.est,
         MayAct(l), Carry(l, p), UNCHANGED <<told, restarts, heard, tail, settle>>
  PROVE  IInv'
<1>1. p.cmd \in Commands /\ p.intent \in Intents /\ p.queue \in BOOLEAN
  BY DEF Plans
<1>2. Do(l, p.cmd, p.intent) /\ heard' = heard
  BY DEF Carry
<1>3. /\ AudioHasLength' /\ TakesAreKnown'
      /\ eng' \in [Loops -> Engine] /\ owed' \in [Loops -> BOOLEAN]
      /\ intent' \in [Loops -> Intents]
      /\ \A k \in Loops \ {l} : eng'[k] = eng[k] /\ owed'[k] = owed[k]
  BY <1>1, <1>2, DoKeeps
<1>4. grid' \in Grid /\ stopDue' \in [Loops -> BOOLEAN]
  BY <1>1, GridTypes DEF IInv, TypeOK, Carry
<1>5. TypeOK'
  BY <1>3, <1>4 DEF IInv, TypeOK
<1>6. grid'.est = grid.est /\ grid'.pending \in {grid.pending, l}
  BY DEF Carry, Arm, IInv, TypeOK, Grid
<1>7. GridOrDefiner'
  BY <1>6 DEF IInv, GridOrDefiner, Carry, Arm
<1>8. ASSUME heard[l].st = "play", heard[l].len # 0, grid'.pending = l
      PROVE  owed'[l] /\ eng'[l].st \in {"waitstart", "rec"}
  <2>1. eng[l].st \notin {"waitstart", "rec"} /\ grid.pending # l
    BY <1>8, ActingOn
  <2>2. p.cmd = "record"
    BY <1>8, <2>1 DEF Carry
  <2>3. PICK e \in HitRecord(eng[l]) : /\ eng' = [eng EXCEPT ![l] = e]
                                       /\ owed' = [owed EXCEPT ![l] = e # eng[l]]
    BY <1>2, <2>2 DEF Do, Hit
  <2>4. e.st \in {"waitstart", "rec"}
    BY <2>1, <2>3 DEF HitRecord, Into
  <2>5. QED
    BY <2>1, <2>3, <2>4 DEF IInv, TypeOK
<1>9. RearmedIsOwed'
  BY <1>2, <1>3, <1>6, <1>8 DEF IInv, RearmedIsOwed
<1>10. QED
  BY <1>3, <1>5, <1>7, <1>9 DEF IInv

LEMMA PadDownKeeps ==
  ASSUME IInv, NEW l \in Loops, OnPadDown(l)
  PROVE  IInv'
<1>1. PICK i \in Expire(heard[l].st, intent[l], Current(l)) :
        Carry(l, PlanDown(l, heard[l].st, i))
  BY DEF OnPadDown
<1>2. i \in Intents /\ heard[l].st \in EngineState
  BY ExpireType DEF IInv, TypeOK, Current
<1>3. QED
  BY <1>1, <1>2, PlanDownType, CarryKeeps DEF OnPadDown, IInv

LEMMA PadUpKeeps ==
  ASSUME IInv, NEW l \in Loops, OnPadUp(l)
  PROVE  IInv'
<1>1. PICK i \in Expire(heard[l].st, intent[l], Current(l)) :
        Carry(l, PlanUp(heard[l].st, i))
  BY DEF OnPadUp
<1>2. i \in Intents /\ heard[l].st \in EngineState
  BY ExpireType DEF IInv, TypeOK, Current
<1>3. QED
  BY <1>1, <1>2, PlanUpType, CarryKeeps DEF OnPadUp

LEMMA PollHoldKeeps ==
  ASSUME IInv, NEW l \in Loops, PollHold(l)
  PROVE  IInv'
<1>1. PICK cmd \in Commands : Do(l, cmd, "idle") /\ heard' = heard /\ MayAct(l)
  BY DEF PollHold, Commands
<1>2. /\ AudioHasLength' /\ TakesAreKnown'
      /\ eng' \in [Loops -> Engine] /\ owed' \in [Loops -> BOOLEAN]
      /\ intent' \in [Loops -> Intents]
      /\ \A k \in Loops \ {l} : eng'[k] = eng[k] /\ owed'[k] = owed[k]
  BY <1>1, DoKeeps DEF Intents
<1>3. grid' \in Grid /\ stopDue' \in [Loops -> BOOLEAN]
  BY GridTypes DEF IInv, TypeOK, PollHold
<1>4. TypeOK'
  BY <1>2, <1>3 DEF IInv, TypeOK, PollHold
<1>5. grid'.est = grid.est /\ grid'.pending \in {grid.pending, None} /\ grid'.pending # l
  BY NoneAssumption DEF PollHold, Cancel, IInv, TypeOK, Grid
<1>6. GridOrDefiner' /\ RearmedIsOwed'
  BY <1>1, <1>2, <1>5, NoneAssumption DEF IInv, GridOrDefiner, RearmedIsOwed
<1>7. QED
  BY <1>2, <1>4, <1>6 DEF IInv

LEMMA BoundaryKeeps ==
  ASSUME IInv, NEW l \in Loops, Boundary(l)
  PROVE  IInv'
<1>1. PICK e \in Sound : eng' = [eng EXCEPT ![l] = e] /\
        \/ eng[l].st = "waitstart" /\ e.st = "rec"
        \/ eng[l].st = "waitstop" /\ e.st \in {"ring", "play"}
  <2>1. CASE eng[l].st = "waitstart" /\ eng' = [eng EXCEPT ![l] = Into("rec", 0)]
    <3>1. Into("rec", 0) \in Sound /\ Into("rec", 0).st = "rec"
      BY IntoSound DEF Into, EngineState
    <3>2. QED
      BY <2>1, <3>1
  <2>2. CASE eng[l].st = "waitstop" /\
               \E e \in Landings(IF eng[l].ringing THEN "ring" ELSE "play") :
                 eng' = [eng EXCEPT ![l] = e]
    <3>1. PICK e \in Landings(IF eng[l].ringing THEN "ring" ELSE "play") :
            eng' = [eng EXCEPT ![l] = e]
      BY <2>2
    <3>2. e \in Sound /\ e.st \in {"ring", "play"}
      BY LandingsSound DEF Landings, Into, EngineState
    <3>3. QED
      BY <2>2, <3>1, <3>2
  <2>3. QED
    BY <2>1, <2>2 DEF Boundary
<1>2. AudioHasLength' /\ TypeOK'
  BY <1>1 DEF IInv, AudioHasLength, TypeOK, Sound, Boundary
<1>3. TakesAreKnown'
  BY <1>1 DEF IInv, TakesAreKnown, TypeOK, Boundary
<1>4. GridOrDefiner' /\ RearmedIsOwed'
  BY <1>1 DEF IInv, GridOrDefiner, RearmedIsOwed, TypeOK, Boundary
<1>5. QED
  BY <1>2, <1>3, <1>4 DEF IInv

LEMMA PollTailKeeps ==
  ASSUME IInv, NEW l \in Loops, PollTail(l)
  PROVE  IInv'
<1>1. PICK e \in Sound : eng' = [eng EXCEPT ![l] = e] /\
        \/ e = eng[l]
        \/ heard[l].st = "ring" /\ e.st \notin {"waitstart", "rec"}
  <2>1. PICK e \in (IF heard[l].st = "ring" THEN HitOverdub(eng[l]) ELSE {eng[l]}) :
          eng' = [eng EXCEPT ![l] = e]
    BY DEF PollTail
  <2>2. eng[l] \in Sound /\ e \in Sound
    BY <2>1, HitOverdubSound DEF IInv, AudioHasLength, TypeOK, Told
  <2>3. heard[l].st = "ring" => e = eng[l] \/ e.st \notin {"waitstart", "rec"}
    BY <2>1 DEF HitOverdub, Landings, Into
  <2>4. QED
    BY <2>1, <2>2, <2>3
<1>2. AudioHasLength' /\ TypeOK'
  BY <1>1 DEF IInv, AudioHasLength, TypeOK, Sound, PollTail
<1>3. TakesAreKnown'
  BY <1>1 DEF IInv, TakesAreKnown, TypeOK, PollTail
<1>4. GridOrDefiner' /\ RearmedIsOwed'
  BY <1>1 DEF IInv, GridOrDefiner, RearmedIsOwed, TypeOK, PollTail
<1>5. QED
  BY <1>2, <1>3, <1>4 DEF IInv

\* The length is in: a loop heard playing with audio is no longer waited for.
LEMMA SyncLoopLenKeeps ==
  ASSUME IInv, NEW l \in Loops, SyncLoopLen(l)
  PROVE  IInv'
<1> DEFINE g == IF heard[l].st = "play" THEN Establish(grid, l, eng[l].len) ELSE grid
<1>1. /\ heard' = [heard EXCEPT ![l].len = eng[l].len]
      /\ owed' = [owed EXCEPT ![l] = @ /\ heard[l].st # eng[l].st]
      /\ grid' = g /\ told' = Tell(told, grid, g)
      /\ UNCHANGED <<eng, restarts, intent, stopDue, tail, settle>>
  BY DEF SyncLoopLen
<1>2. eng[l].len \in Lengths \cup {0}
  BY DEF IInv, TypeOK, Engine
<1>3. g \in Grid
  BY <1>2, GridTypes DEF IInv, TypeOK
<1>4. TypeOK' /\ AudioHasLength'
  BY <1>1, <1>2, <1>3, ToldTypes DEF IInv, TypeOK, AudioHasLength
<1>5. TakesAreKnown'
  BY <1>1 DEF IInv, TakesAreKnown, TypeOK
<1>6. /\ g.est => g.pending = None
      /\ g.pending \in {grid.pending, None}
      /\ heard[l].st = "play" /\ eng[l].len # 0 => g.pending # l
  BY <1>2, EstablishChanges, NoneAssumption DEF IInv, GridOrDefiner, TypeOK
<1>7. GridOrDefiner'
  BY <1>1, <1>6 DEF GridOrDefiner
<1>8. RearmedIsOwed'
  BY <1>1, <1>6, NoneAssumption DEF IInv, RearmedIsOwed, TypeOK
<1>9. QED
  BY <1>4, <1>5, <1>7, <1>8 DEF IInv

\* The state is in: the same, the length having been heard before.
LEMMA SyncFromSlKeeps ==
  ASSUME IInv, NEW l \in Loops, SyncFromSl(l)
  PROVE  IInv'
<1> DEFINE st == eng[l].st
           close == stopDue[l] /\ st = "rec"
<1>1. PICK e \in (IF close THEN HitRecord(eng[l]) ELSE {eng[l]}) :
        /\ eng' = [eng EXCEPT ![l] = e]
        /\ owed' = [owed EXCEPT ![l] = @ /\ heard[l].len # eng[l].len]
  BY DEF SyncFromSl
<1>2. PICK i \in Expire(st, intent[l], TRUE) :
        /\ intent' = [intent EXCEPT ![l] = i]
        /\ grid' = GridAfterState(l, st, i)
        /\ told' = Tell(told, grid, GridAfterState(l, st, i))
  BY DEF SyncFromSl
<1>3. /\ heard' = [heard EXCEPT ![l].st = st]
      /\ stopDue' = [stopDue EXCEPT ![l] = @ /\ ~close]
      /\ tail' = [tail EXCEPT ![l] = st = "ring"]
      /\ UNCHANGED <<restarts, settle>>
  BY DEF SyncFromSl
<1>4. /\ st \in EngineState /\ i \in Intents
      /\ eng[l] \in Sound /\ e \in Sound /\ heard[l].len \in Lengths \cup {0}
  BY <1>1, HitRecordSound, ExpireType DEF IInv, TypeOK, AudioHasLength, Engine, Told
<1> DEFINE g == IF st = "play" THEN Establish(grid, l, heard[l].len) ELSE grid
<1>5. g \in Grid /\ grid' = NoteLoopContent(g, l, HoldsAudio(st, i))
  BY <1>2, <1>4, GridTypes DEF IInv, TypeOK, GridAfterState
<1>6. HoldsAudio(st, i) \in BOOLEAN
  BY DEF HoldsAudio
<1>7. grid' \in Grid
  BY <1>5, <1>6, GridTypes
<1>8. TypeOK' /\ AudioHasLength'
  <2>1. told' \in Told
    BY <1>2, <1>7, ToldTypes DEF IInv, TypeOK
  <2>2. eng' \in [Loops -> Engine] /\ AudioHasLength'
    BY <1>1, <1>4 DEF IInv, TypeOK, AudioHasLength, Sound
  <2>3. heard' \in [Loops -> [st : EngineState, len : Lengths \cup {0}]]
    BY <1>3, <1>4 DEF IInv, TypeOK
  <2>4. /\ intent' \in [Loops -> Intents] /\ owed' \in [Loops -> BOOLEAN]
        /\ stopDue' \in [Loops -> BOOLEAN] /\ tail' \in [Loops -> BOOLEAN]
    BY <1>1, <1>2, <1>3, <1>4 DEF IInv, TypeOK
  <2>5. QED
    BY <1>3, <1>7, <2>1, <2>2, <2>3, <2>4 DEF IInv, TypeOK
<1>9. TakesAreKnown'
  BY <1>1, <1>3 DEF IInv, TakesAreKnown, TypeOK
<1>10. /\ g.est => g.pending = None
       /\ g.pending \in {grid.pending, None}
       /\ st = "play" /\ heard[l].len # 0 => g.pending # l
  BY <1>4, EstablishChanges, NoneAssumption DEF IInv, GridOrDefiner, TypeOK
<1>11. /\ grid'.est => grid'.pending = None
       /\ grid'.pending \in {grid.pending, None}
       /\ st = "play" /\ heard[l].len # 0 => grid'.pending # l
  BY <1>5, <1>6, <1>10, NoteChanges, NoneAssumption
<1>12. GridOrDefiner'
  BY <1>11 DEF GridOrDefiner
<1>13. RearmedIsOwed'
  BY <1>1, <1>3, <1>11, NoneAssumption DEF IInv, RearmedIsOwed, TypeOK
<1>14. QED
  BY <1>8, <1>9, <1>12, <1>13 DEF IInv

\* A `mute_on` or `pause_on` makes nothing play and arms nothing.
LEMMA SilencedStates ==
  ASSUME NEW e \in Sound, NEW f \in Silenced(e)
  PROVE  f = e \/ f.st = "quiet"
BY DEF Silenced, HitQuiet, Landings, Into

\* Silencing loops that are reported as they are, or not at all.
LEMMA SilencingKeeps ==
  ASSUME IInv, eng' \in [Loops -> Sound],
         \A l \in Loops : eng'[l] = eng[l] \/ eng'[l].st = "quiet",
         intent' \in [Loops -> Intents], settle' \in BOOLEAN, told' \in Told,
         UNCHANGED <<restarts, heard, stopDue, owed, tail, grid>>
  PROVE  IInv'
<1>1. TypeOK' /\ AudioHasLength'
  BY DEF IInv, TypeOK, AudioHasLength, Sound
<1>2. TakesAreKnown' /\ GridOrDefiner' /\ RearmedIsOwed'
  BY DEF IInv, TakesAreKnown, GridOrDefiner, RearmedIsOwed
<1>3. QED
  BY <1>1, <1>2 DEF IInv

LEMMA StopAllKeeps ==
  ASSUME IInv, StopAllLoops
  PROVE  IInv'
<1>1. \A l \in Loops : eng'[l] \in Silenced(eng[l])
  BY DEF StopAllLoops
<1>2. eng' \in [Loops -> Sound]
  <2>1. \A l \in Loops : eng'[l] \in Sound
    BY <1>1, SilencedSound DEF IInv, AudioHasLength
  <2>2. eng' = [l \in Loops |-> eng'[l]]
    BY DEF StopAllLoops
  <2>3. QED
    BY <2>1, <2>2
<1>3. \A l \in Loops : eng'[l] = eng[l] \/ eng'[l].st = "quiet"
  BY <1>1, SilencedStates DEF IInv, AudioHasLength
<1>4. intent' \in [Loops -> Intents]
  BY DEF StopAllLoops, IInv, TypeOK, Intents
<1>5. told' \in Told
  BY ToldTypes DEF StopAllLoops, IInv, TypeOK, Told
<1>6. QED
  BY <1>2, <1>3, <1>4, <1>5, SilencingKeeps DEF StopAllLoops

LEMMA SettleKeeps ==
  ASSUME IInv, SettleStopAll
  PROVE  IInv'
<1>1. \A l \in Loops : eng'[l] \in Silenced(eng[l]) \cup {eng[l]}
  BY DEF SettleStopAll
<1>2. eng' \in [Loops -> Sound]
  <2>1. \A l \in Loops : eng'[l] \in Sound
    BY <1>1, SilencedSound DEF IInv, AudioHasLength
  <2>2. eng' = [l \in Loops |-> eng'[l]]
    BY DEF SettleStopAll
  <2>3. QED
    BY <2>1, <2>2
<1>3. \A l \in Loops : eng'[l] = eng[l] \/ eng'[l].st = "quiet"
  BY <1>1, SilencedStates DEF IInv, AudioHasLength
<1>4. told' \in Told
  BY DEF SettleStopAll, IInv, TypeOK, Told, Grid
<1>5. QED
  BY <1>2, <1>3, <1>4, SilencingKeeps DEF SettleStopAll, IInv, TypeOK

LEMMA ResetAllKeeps ==
  ASSUME IInv, ResetAllLoops
  PROVE  IInv'
<1>1. NoGrid.pending = None /\ NoGrid \in Grid
  BY DEF NoGrid, Grid
<1>2. Blank \in Sound /\ Blank.st = "off" /\ Blank \in Engine
  BY BlankSound DEF Blank, Into, Sound
<1>3. TypeOK' /\ AudioHasLength'
  BY <1>1, <1>2, ToldTypes DEF ResetAllLoops, IInv, TypeOK, AudioHasLength, Intents
<1>4. TakesAreKnown' /\ GridOrDefiner' /\ RearmedIsOwed'
  BY <1>1, <1>2, NoneAssumption DEF ResetAllLoops, TakesAreKnown, GridOrDefiner, RearmedIsOwed
<1>5. QED
  BY <1>3, <1>4 DEF IInv

LEMMA RestartKeeps ==
  ASSUME IInv, EngineRestarts
  PROVE  IInv'
<1>1. Blank \in Sound /\ Blank.st = "off" /\ Blank \in Engine /\ Freeform \in Told
  BY BlankSound DEF Blank, Into, Sound, Freeform, Told
<1>2. TypeOK' /\ AudioHasLength'
  BY <1>1 DEF EngineRestarts, IInv, TypeOK, AudioHasLength
<1>3. TakesAreKnown' /\ GridOrDefiner'
  BY <1>1 DEF EngineRestarts, IInv, TakesAreKnown, GridOrDefiner
<1>4. RearmedIsOwed'
  <2> SUFFICES ASSUME NEW l \in Loops, heard[l].st = "play"
               PROVE  owed'[l] /\ eng'[l].st = "off"
    BY DEF EngineRestarts, RearmedIsOwed
  <2>1. heard[l] # [st |-> "off", len |-> 0]
    OBVIOUS
  <2>2. QED
    BY <1>1, <2>1 DEF EngineRestarts
<1>5. QED
  BY <1>2, <1>3, <1>4 DEF IInv

LEMMA StartedKeeps ==
  ASSUME IInv, OnLooperEngineStarted
  PROVE  IInv'
<1>1. Freeform \in Told
  BY DEF Freeform, Told
<1>2. TypeOK' /\ AudioHasLength'
  BY <1>1, ToldTypes DEF OnLooperEngineStarted, IInv, TypeOK, AudioHasLength
<1>3. TakesAreKnown' /\ GridOrDefiner' /\ RearmedIsOwed'
  BY DEF OnLooperEngineStarted, IInv, TakesAreKnown, GridOrDefiner, RearmedIsOwed
<1>4. QED
  BY <1>2, <1>3 DEF IInv

LEMMA NextKeeps == IInv /\ [Next]_vars => IInv'
<1> SUFFICES ASSUME IInv, [Next]_vars PROVE IInv'
  OBVIOUS
<1>1. ASSUME NEW l \in Loops,
             \/ OnPadDown(l) \/ OnPadUp(l) \/ PollHold(l) \/ Boundary(l)
             \/ SyncFromSl(l) \/ SyncLoopLen(l) \/ PollTail(l)
      PROVE  IInv'
  BY <1>1, PadDownKeeps, PadUpKeeps, PollHoldKeeps, BoundaryKeeps,
     SyncFromSlKeeps, SyncLoopLenKeeps, PollTailKeeps
<1>2. CASE StopAllLoops \/ SettleStopAll \/ ResetAllLoops
  BY <1>2, StopAllKeeps, SettleKeeps, ResetAllKeeps
<1>3. CASE EngineRestarts \/ OnLooperEngineStarted
  BY <1>3, RestartKeeps, StartedKeeps
<1>4. CASE UNCHANGED vars
  BY <1>4 DEF vars, IInv, TypeOK, AudioHasLength, TakesAreKnown, GridOrDefiner, RearmedIsOwed
<1>5. QED
  BY <1>1, <1>2, <1>3, <1>4 DEF Next

-----------------------------------------------------------------------------
(* What the grid counts, and what the engine is told. *)

\* The operations of the grid, and the loops it counts.
LEMMA OccupiedChanges ==
  ASSUME NEW g \in Grid, NEW l \in Loops, NEW len \in Lengths \cup {0}, NEW holds \in BOOLEAN
  PROVE  /\ Arm(g, l).occupied = g.occupied /\ Cancel(g, l).occupied = g.occupied
         /\ Establish(g, l, len).occupied = g.occupied
         /\ g.est => Arm(g, l).est /\ Cancel(g, l).est /\ Establish(g, l, len).est
         /\ holds => l \in NoteLoopContent(g, l, holds).occupied
         /\ g.occupied \ {l} \subseteq NoteLoopContent(g, l, holds).occupied
         /\ g.est /\ ~NoteLoopContent(g, l, holds).est
              => ~holds /\ g.occupied \subseteq {l}
BY DEF Grid, NoGrid, Arm, Cancel, Establish, NoteLoopContent

\* A gesture reaches no loop whose emptying is still to be reported.
LEMMA GestureCounts ==
  ASSUME Counts, NEW l \in Loops, NEW cmd \in Commands, NEW i \in Intents,
         MayAct(l), Do(l, cmd, i), heard' = heard, grid'.occupied = grid.occupied
  PROVE  UncountedIsEmpty'
<1>1. \A k \in Loops \ {l} : eng'[k] = eng[k] /\ owed'[k] = owed[k]
  BY DoKeeps DEF Counts
<1>2. l \in grid.occupied \/ heard[l].st = "off"
  BY DEF Counts, UncountedIsEmpty, MayAct, Current
<1>3. QED
  BY <1>1, <1>2 DEF Counts, UncountedIsEmpty

LEMMA CarryCounts ==
  ASSUME Counts, NEW l \in Loops, NEW p \in Plans, MayAct(l), Carry(l, p), heard' = heard
  PROVE  UncountedIsEmpty' /\ (grid.est => grid'.est)
<1>1. p.cmd \in Commands /\ p.intent \in Intents /\ grid \in Grid
  BY DEF Plans, Counts, IInv, TypeOK
<1>2. grid'.occupied = grid.occupied /\ (grid.est => grid'.est)
  BY <1>1 DEF Carry, Arm
<1>3. QED
  BY <1>1, <1>2, GestureCounts DEF Carry

LEMMA SyncFromSlCounts ==
  ASSUME Counts, NEW l \in Loops, SyncFromSl(l)
  PROVE  /\ UncountedIsEmpty'
         /\ grid.est /\ ~grid'.est => \A k \in Loops : heard'[k].st = "off" \/ eng'[k].st = "off"
<1> DEFINE st == eng[l].st
           g == IF st = "play" THEN Establish(grid, l, heard[l].len) ELSE grid
<1>1. PICK i : grid' = NoteLoopContent(g, l, HoldsAudio(st, i))
  BY DEF SyncFromSl, GridAfterState
<1>2. g \in Grid /\ g.occupied = grid.occupied /\ (grid.est => g.est)
  BY GridTypes, OccupiedChanges DEF Counts, IInv, TypeOK
<1>3. HoldsAudio(st, i) \in BOOLEAN /\ (~HoldsAudio(st, i) => st = "off")
  BY DEF HoldsAudio
<1>4. /\ st # "off" => l \in grid'.occupied
      /\ grid.occupied \ {l} \subseteq grid'.occupied
      /\ grid.est /\ ~grid'.est => st = "off" /\ grid.occupied \subseteq {l}
  BY <1>1, <1>2, <1>3, OccupiedChanges
<1>5. /\ heard' = [heard EXCEPT ![l].st = st]
      /\ \A k \in Loops \ {l} : eng'[k] = eng[k] /\ owed'[k] = owed[k]
  BY DEF SyncFromSl, Counts, IInv, TypeOK
<1>6. heard'[l].st = st /\ \A k \in Loops \ {l} : heard'[k] = heard[k]
  BY <1>5 DEF Counts, IInv, TypeOK
<1>7. UncountedIsEmpty'
  BY <1>4, <1>5, <1>6 DEF Counts, UncountedIsEmpty
<1>8. ASSUME grid.est, ~grid'.est, NEW k \in Loops
      PROVE  heard'[k].st = "off" \/ eng'[k].st = "off"
  BY <1>4, <1>5, <1>6, <1>8 DEF Counts, UncountedIsEmpty
<1>9. QED
  BY <1>7, <1>8

LEMMA SyncLoopLenCounts ==
  ASSUME Counts, NEW l \in Loops, SyncLoopLen(l)
  PROVE  UncountedIsEmpty' /\ (grid.est => grid'.est)
<1>1. grid'.occupied = grid.occupied /\ (grid.est => grid'.est)
  BY OccupiedChanges DEF SyncLoopLen, Counts, IInv, TypeOK, Engine
<1>2. eng' = eng /\ \A k \in Loops : heard'[k].st = heard[k].st
  BY DEF SyncLoopLen, Counts, IInv, TypeOK
<1>3. \A k \in Loops : owed'[k] = owed[k] \/ heard[k].st = eng[k].st
  BY DEF SyncLoopLen, Counts, IInv, TypeOK
<1>4. QED
  BY <1>1, <1>2, <1>3 DEF Counts, UncountedIsEmpty

\* The engine moves by itself, or is silenced: an empty loop stays empty.
LEMMA MovesCount ==
  ASSUME Counts,
         \/ \E l \in Loops : Boundary(l) \/ PollTail(l)
         \/ StopAllLoops \/ SettleStopAll \/ OnLooperEngineStarted
  PROVE  UncountedIsEmpty' /\ grid' = grid
<1>1. grid' = grid /\ heard' = heard /\ owed' = owed
  BY DEF Boundary, PollTail, StopAllLoops, SettleStopAll, OnLooperEngineStarted
<1> DEFINE Stays == \A k \in Loops : eng[k].st = "off" => eng'[k] = eng[k]
<1>2. Stays
  <2>1. ASSUME NEW l \in Loops, Boundary(l) PROVE Stays
    BY <2>1 DEF Boundary, Counts, IInv, TypeOK
  <2>2. ASSUME NEW l \in Loops, PollTail(l) PROVE Stays
    BY <2>2 DEF PollTail, HitOverdub, Counts, IInv, TypeOK
  <2>3. CASE StopAllLoops
    BY <2>3 DEF StopAllLoops, Silenced, HitQuiet, ActivePlay
  <2>4. CASE SettleStopAll
    BY <2>4 DEF SettleStopAll, Silenced, HitQuiet, ActivePlay
  <2>5. QED
    BY <2>1, <2>2, <2>3, <2>4 DEF OnLooperEngineStarted
<1>3. QED
  BY <1>1, <1>2 DEF Counts, UncountedIsEmpty


\* Every step keeps count, and drops the grid only when no loop has audio.
LEMMA NextCounts ==
  Counts /\ [Next]_vars =>
    /\ Counts'
    /\ grid.est /\ ~grid'.est => \A k \in Loops : heard'[k].st = "off" \/ eng'[k].st = "off"
<1> SUFFICES ASSUME Counts, [Next]_vars
             PROVE  /\ UncountedIsEmpty'
                    /\ grid.est /\ ~grid'.est =>
                         \A k \in Loops : heard'[k].st = "off" \/ eng'[k].st = "off"
  BY NextKeeps DEF Counts
<1> DEFINE Goal == /\ UncountedIsEmpty'
                   /\ grid.est /\ ~grid'.est =>
                        \A k \in Loops : heard'[k].st = "off" \/ eng'[k].st = "off"
<1>1. ASSUME NEW l \in Loops, OnPadDown(l) PROVE Goal
  <2>1. PICK i \in Expire(heard[l].st, intent[l], Current(l)) :
          Carry(l, PlanDown(l, heard[l].st, i))
    BY <1>1 DEF OnPadDown
  <2>2. PlanDown(l, heard[l].st, i) \in Plans
    BY ExpireType, PlanDownType DEF Counts, IInv, TypeOK, Current
  <2>3. QED
    BY <1>1, <2>1, <2>2, CarryCounts DEF OnPadDown
<1>2. ASSUME NEW l \in Loops, OnPadUp(l) PROVE Goal
  <2>1. PICK i \in Expire(heard[l].st, intent[l], Current(l)) :
          Carry(l, PlanUp(heard[l].st, i))
    BY <1>2 DEF OnPadUp
  <2>2. PlanUp(heard[l].st, i) \in Plans
    BY ExpireType, PlanUpType DEF Counts, IInv, TypeOK, Current
  <2>3. QED
    BY <1>2, <2>1, <2>2, CarryCounts DEF OnPadUp
<1>3. ASSUME NEW l \in Loops, PollHold(l) PROVE Goal
  <2>1. PICK cmd \in Commands : Do(l, cmd, "idle") /\ heard' = heard /\ MayAct(l)
    BY <1>3 DEF PollHold, Commands
  <2>2. grid'.occupied = grid.occupied /\ (grid.est => grid'.est)
    BY <1>3 DEF PollHold, Cancel, Counts, IInv, TypeOK, Grid
  <2>3. QED
    BY <2>1, <2>2, GestureCounts DEF Intents
<1>4. ASSUME NEW l \in Loops, SyncFromSl(l) PROVE Goal
  BY <1>4, SyncFromSlCounts
<1>5. ASSUME NEW l \in Loops, SyncLoopLen(l) PROVE Goal
  BY <1>5, SyncLoopLenCounts
<1>6. ASSUME NEW l \in Loops, Boundary(l) \/ PollTail(l) PROVE Goal
  BY <1>6, MovesCount
<1>7. CASE StopAllLoops \/ SettleStopAll \/ OnLooperEngineStarted
  BY <1>7, MovesCount
<1>8. CASE ResetAllLoops
  <2>1. \A k \in Loops : eng'[k] = Blank /\ (owed'[k] <=> heard[k] # [st |-> "off", len |-> 0])
    BY <1>8 DEF ResetAllLoops
  <2>2. heard' = heard
    BY <1>8 DEF ResetAllLoops
  <2>3. QED
    BY <2>1, <2>2 DEF UncountedIsEmpty, Blank, Into
<1>9. CASE EngineRestarts
  <2>1. \A k \in Loops : eng'[k] = Blank /\ (owed'[k] <=> heard[k] # [st |-> "off", len |-> 0])
    BY <1>9 DEF EngineRestarts
  <2>2. heard' = heard /\ grid' = grid
    BY <1>9 DEF EngineRestarts
  <2>3. QED
    BY <2>1, <2>2 DEF UncountedIsEmpty, Blank, Into
<1>10. CASE UNCHANGED vars
  BY <1>10 DEF vars, Counts, UncountedIsEmpty
<1>11. QED
  BY <1>1, <1>2, <1>3, <1>4, <1>5, <1>6, <1>7, <1>8, <1>9, <1>10 DEF Next

LEMMA InitCounts == Init => Counts
BY InitIInv DEF Init, Counts, UncountedIsEmpty

\* No step tells the engine another grid than the bench's.
LEMMA KnowsKeeps == IInv /\ EngineKnowsGrid /\ [Next]_vars => EngineKnowsGrid'
<1> SUFFICES ASSUME IInv, EngineKnowsGrid, [Next]_vars PROVE EngineKnowsGrid'
  OBVIOUS
<1>1. told \in Told /\ grid \in Grid
  BY DEF IInv, TypeOK
\* A report, that may establish or drop the grid.
<1>2. ASSUME NEW g, g \in Grid, grid' = g, told' = Tell(told, grid, g),
             grid.est /\ g.est => g.cycle = grid.cycle,
             UNCHANGED <<restarts, settle>>
      PROVE  EngineKnowsGrid'
  <2>1. CASE restarts.unheard
    BY <1>2, <2>1 DEF EngineKnowsGrid
  <2>2. CASE ~restarts.unheard
    <3>1. grid.est => told.cycle = grid.cycle /\ told.shared
      BY <2>2 DEF EngineKnowsGrid
    <3>2. /\ g.est => Tell(told, grid, g).cycle = g.cycle /\ Tell(told, grid, g).shared
          /\ told.quant = grid.est => Tell(told, grid, g).quant = g.est
      BY <1>1, <1>2, <3>1, TellKeeps
    <3>3. QED
      BY <1>2, <2>2, <3>2 DEF EngineKnowsGrid
  <2>3. QED
    BY <2>1, <2>2
<1>3. ASSUME NEW l \in Loops, SyncFromSl(l) PROVE EngineKnowsGrid'
  <2>1. PICK i \in Expire(eng[l].st, intent[l], TRUE) :
          /\ grid' = GridAfterState(l, eng[l].st, i)
          /\ told' = Tell(told, grid, GridAfterState(l, eng[l].st, i))
    BY <1>3 DEF SyncFromSl
  <2> DEFINE g == IF eng[l].st = "play" THEN Establish(grid, l, heard[l].len) ELSE grid
  <2>2. /\ g \in Grid /\ (grid.est => g = grid)
        /\ grid' = NoteLoopContent(g, l, HoldsAudio(eng[l].st, i))
        /\ HoldsAudio(eng[l].st, i) \in BOOLEAN
    BY <1>1, <2>1, GridTypes, EstablishChanges DEF IInv, TypeOK, GridAfterState, HoldsAudio
  <2>3. grid' \in Grid /\ (grid.est /\ grid'.est => grid'.cycle = grid.cycle)
    BY <2>2, GridTypes, NoteChanges
  <2>4. QED
    BY <1>2, <1>3, <2>1, <2>3 DEF SyncFromSl
<1>4. ASSUME NEW l \in Loops, SyncLoopLen(l) PROVE EngineKnowsGrid'
  <2> DEFINE g == IF heard[l].st = "play" THEN Establish(grid, l, eng[l].len) ELSE grid
  <2>1. g \in Grid /\ (grid.est => g = grid)
    BY <1>1, GridTypes, EstablishChanges DEF IInv, TypeOK, Engine
  <2>2. QED
    BY <1>2, <1>4, <2>1 DEF SyncLoopLen
\* A gesture, a boundary, the end of a ring-out: nothing is told.
<1>5. ASSUME UNCHANGED <<told, restarts, settle>>,
             grid'.est = grid.est, grid'.cycle = grid.cycle
      PROVE  EngineKnowsGrid'
  BY <1>5 DEF EngineKnowsGrid
<1>6. ASSUME NEW l \in Loops, OnPadDown(l) \/ OnPadUp(l) \/ PollHold(l) PROVE EngineKnowsGrid'
  <2>1. grid'.est = grid.est /\ grid'.cycle = grid.cycle
    BY <1>1, <1>6 DEF OnPadDown, OnPadUp, PollHold, Carry, Arm, Cancel, Grid
  <2>2. QED
    BY <1>5, <1>6, <2>1 DEF OnPadDown, OnPadUp, PollHold
<1>7. ASSUME NEW l \in Loops, Boundary(l) \/ PollTail(l) PROVE EngineKnowsGrid'
  BY <1>5, <1>7 DEF Boundary, PollTail
<1>8. CASE StopAllLoops
  BY <1>1, <1>8 DEF StopAllLoops, EngineKnowsGrid, ApplyEstablishedGrid, Told
<1>9. CASE SettleStopAll
  BY <1>1, <1>9 DEF SettleStopAll, EngineKnowsGrid, Told
<1>10. CASE ResetAllLoops
  BY <1>1, <1>10 DEF ResetAllLoops, EngineKnowsGrid, DropGrid, NoGrid, Told
<1>11. CASE EngineRestarts
  BY <1>11 DEF EngineRestarts, EngineKnowsGrid
<1>12. CASE OnLooperEngineStarted
  BY <1>1, <1>12 DEF OnLooperEngineStarted, EngineKnowsGrid, ApplyEstablishedGrid, Freeform, Grid
<1>13. CASE UNCHANGED vars
  BY <1>13 DEF vars, EngineKnowsGrid
<1>14. QED
  BY <1>3, <1>4, <1>6, <1>7, <1>8, <1>9, <1>10, <1>11, <1>12, <1>13 DEF Next

LEMMA InitKnows == Init => EngineKnowsGrid
BY DEF Init, EngineKnowsGrid, NoGrid, Freeform

-----------------------------------------------------------------------------
(* The take the grid waits for. *)

Heard == [st : EngineState, len : Lengths \cup {0}]

\* The bench expects the loop to be empty, or to hold its first take.
Empties(i, est) == i = "idle" \/ (i = "recording" /\ ~est)

\* What engine and bench know of one loop: e, h, i, s and o are its values of eng,
\* heard, intent, stopDue and owed, est whether there is a grid, fresh whether the
\* engine has never come back.  Whatever has emptied a loop, or armed or started one
\* that is heard empty, owes a report; only with a grid is a loop armed over its
\* audio; and a loop the bench expects to be empty does not ring out.
Known(e, h, i, s, o, est, fresh) ==
  /\ e.st = "off" => o \/ (h.st = "off" /\ h.len = 0)
  /\ h.st = "off" => e.st \in {"off", "waitstart", "rec"} /\ (e.st # "off" => o)
  /\ e.st = "waitstart" /\ e.len # 0 => est /\ h.st # "off"
  /\ h.len \notin {0, e.len} => o \/ (est /\ h.st # "off")
  /\ h.st = "waitstart" \/ Empties(i, est) => e.st # "ring" /\ ~e.ringing
  /\ Empties(i, est) /\ h.st = "ring" => e.st = "off"
  /\ i = "idle" => ~s
  /\ ArmedRecordCancels /\ fresh /\ e.st = "waitstart" /\ i = "idle" => est /\ h.st # "off"

\* Of the loop the grid waits for: a length that is not its own is heard only while
\* the take is still short of one, a close is due only of a take not heard of yet,
\* and, unless the engine came back, there is a take.
Defines(e, h, s, o, fresh) ==
  /\ h.len \notin {0, e.len} => o /\ e.st \in {"off", "waitstart", "rec", "quiet"}
  /\ s => e.st = "off" \/ (h.st = "off" /\ h.len = 0 /\ e.st = "rec" /\ o)
  /\ h.st = "ring" => e.st \notin {"rec", "waitstart"}
  /\ fresh => e.st # "off" /\ (ArmedRecordCancels => e.st # "waitstart")

LoopKnown(l) ==
  Known(eng[l], heard[l], intent[l], stopDue[l], owed[l], grid.est, restarts.total = 0)
LoopDefines(l) ==
  grid.pending = l => Defines(eng[l], heard[l], stopDue[l], owed[l], restarts.total = 0)

\* The loops wait for the bar only where there is a grid.
WaitsOnGrid == told.quant => grid.est

DefinerKnown == /\ Counts
                /\ WaitsOnGrid
                /\ \A l \in Loops : LoopKnown(l) /\ LoopDefines(l)

\* The step of a grid that is established: its length is that of the take.
TakesTheLength ==
  grid'.est /\ ~grid.est => eng[grid.pending].len = grid'.cycle /\ grid'.cycle >= MinDefining

\* A grid may come at any time; it goes only where the loop is empty or heard so.
LEMMA KnownWithGrid ==
  ASSUME NEW e \in Sound, NEW h \in Heard, NEW i \in Intents, NEW s \in BOOLEAN,
         NEW o \in BOOLEAN, NEW est \in BOOLEAN, NEW new \in BOOLEAN, NEW fresh \in BOOLEAN,
         Known(e, h, i, s, o, est, fresh),
         est /\ ~new => h.st = "off" \/ (e.st = "off" /\ o)
  PROVE  Known(e, h, i, s, o, new, fresh)
BY DEF Known, Empties, Sound, Engine, EngineState, Heard

\* A command to a loop the player acts on, which is heard as it is unless nothing
\* moved it: what is known stays known,
LEMMA RecordKnown ==
  ASSUME NEW e \in Sound, NEW h \in Heard, NEW i \in Intents, NEW s \in BOOLEAN,
         NEW o \in BOOLEAN, NEW est \in BOOLEAN, NEW fresh \in BOOLEAN,
         Known(e, h, i, s, o, est, fresh), o => h.st = e.st /\ h.len = e.len,
         told.quant \in BOOLEAN, told.quant => est,
         NEW f \in HitRecord(e), NEW j \in Intents,
         h.st = "ring" => ~Empties(j, est),
         j = "idle" => ~s /\ h.st = "waitstart"
  PROVE  Known(f, h, j, s, f # e, est, fresh)
<1>1. CASE e.st = "waitstart" /\ ~ArmedRecordCancels
  BY <1>1 DEF HitRecord, Known, Sound, Empties
<1>2. CASE e.st = "waitstart" /\ ArmedRecordCancels
  BY <1>2 DEF HitRecord, Known, Sound, Empties, Into, Blank
<1>3. CASE e.st = "rec"
  BY <1>3 DEF HitRecord, Landings, Known, Sound, Empties, Into
<1>4. CASE e.st = "waitstop"
  BY <1>4 DEF HitRecord, Known, Sound, Empties, Into
<1>5. CASE e.st \notin {"waitstart", "rec", "waitstop"}
  BY <1>5 DEF HitRecord, Known, Sound, Empties, Into
<1>6. QED
  BY <1>1, <1>2, <1>3, <1>4, <1>5, ArmedRecordAssumption

LEMMA OverdubKnown ==
  ASSUME NEW e \in Sound, NEW h \in Heard, NEW i \in Intents, NEW s \in BOOLEAN,
         NEW o \in BOOLEAN, NEW est \in BOOLEAN, NEW fresh \in BOOLEAN,
         Known(e, h, i, s, o, est, fresh), o => h.st = e.st /\ h.len = e.len,
         told.quant \in BOOLEAN,
         NEW f \in HitOverdub(e), NEW j \in Intents,
         h.st \in {"rec", "ring"}, ~Empties(j, est)
  PROVE  Known(f, h, j, s, f # e, est, fresh)
<1>1. CASE e.st = "rec"
  BY <1>1 DEF HitOverdub, Landings, Known, Sound, Empties, Into
<1>2. CASE e.st \in {"ring", "play"}
  BY <1>2 DEF HitOverdub, Known, Sound, Empties, Into
<1>3. CASE e.st \notin {"rec", "ring", "play"}
  BY <1>3 DEF HitOverdub, Known, Sound, Empties, Into
<1>4. QED
  BY <1>1, <1>2, <1>3

LEMMA MuteKnown ==
  ASSUME NEW e \in Sound, NEW h \in Heard, NEW i \in Intents, NEW s \in BOOLEAN,
         NEW o \in BOOLEAN, NEW est \in BOOLEAN, NEW fresh \in BOOLEAN,
         Known(e, h, i, s, o, est, fresh), o => h.st = e.st /\ h.len = e.len,
         NEW f \in HitQuiet(e) \cup HitTrigger(e), NEW j \in Intents,
         ~Empties(j, est), h.st # "waitstart"
  PROVE  Known(f, h, j, s, f # e, est, fresh)
BY DEF HitQuiet, HitTrigger, ActivePlay, Known, Sound, Empties, Into

LEMMA NothingKnown ==
  ASSUME NEW e \in Sound, NEW h \in Heard, NEW i \in Intents, NEW s \in BOOLEAN,
         NEW o \in BOOLEAN, NEW est \in BOOLEAN, NEW fresh \in BOOLEAN,
         Known(e, h, i, s, o, est, fresh), o => h.st = e.st /\ h.len = e.len,
         NEW f \in {e}, NEW j \in Intents, NEW t \in BOOLEAN,
         Empties(j, est) => Empties(i, est) \/ h.st = "waitstart",
         j = "idle" => i = "idle" /\ t = s
  PROVE  Known(f, h, j, t, f # e, est, fresh)
BY DEF Known, Sound, Empties

LEMMA UndoKnown ==
  ASSUME NEW e \in Sound, NEW h \in Heard, NEW i \in Intents, NEW s \in BOOLEAN,
         NEW o \in BOOLEAN, NEW est \in BOOLEAN, NEW fresh \in BOOLEAN,
         Known(e, h, i, s, o, est, fresh), o => h.st = e.st /\ h.len = e.len,
         NEW f, f = Blank, NEW t \in BOOLEAN, ~t
  PROVE  Known(f, h, "idle", t, f # e, est, fresh)
<1>1. e.st = "off" => e = Blank
  BY DEF Sound, Engine, Blank, Into
<1>2. Blank.st = "off" /\ Blank.len = 0 /\ Blank.ringing = FALSE
  BY DEF Blank, Into
<1>3. QED
  BY <1>1, <1>2 DEF Known, Sound, Empties

\* and so does what is known of the loop the grid waits for: the first press,
LEMMA ArmDefines ==
  ASSUME NEW e \in Sound, NEW h \in Heard, NEW i \in Intents, NEW s \in BOOLEAN,
         NEW o \in BOOLEAN, NEW est \in BOOLEAN, NEW fresh \in BOOLEAN,
         ~est, Known(e, h, i, s, o, est, fresh), o => h.st = e.st /\ h.len = e.len,
         told.quant \in BOOLEAN, ~told.quant, NEW f \in HitRecord(e),
         i = "idle" \/ h.st = "off"
  PROVE  Defines(f, h, s, f # e, fresh)
<1>1. CASE e.st = "waitstart" /\ ~ArmedRecordCancels
  BY <1>1 DEF HitRecord, Known, Defines, Sound, Empties
<1>2. CASE e.st = "waitstart" /\ ArmedRecordCancels
  BY <1>2 DEF HitRecord, Known, Defines, Sound, Empties, Into, Blank
<1>3. CASE e.st = "rec"
  BY <1>3 DEF HitRecord, Landings, Known, Defines, Sound, Empties, Into
<1>4. CASE e.st = "waitstop"
  BY <1>4 DEF HitRecord, Known, Defines, Sound, Empties, Into
<1>5. CASE e.st \notin {"waitstart", "rec", "waitstop"}
  BY <1>5 DEF HitRecord, Known, Defines, Sound, Empties, Into
<1>6. QED
  BY <1>1, <1>2, <1>3, <1>4, <1>5, ArmedRecordAssumption

\* the press that closes the take,
LEMMA RecordDefines ==
  ASSUME NEW e \in Sound, NEW h \in Heard, NEW i \in Intents, NEW s \in BOOLEAN,
         NEW o \in BOOLEAN, NEW est \in BOOLEAN, NEW fresh \in BOOLEAN,
         ~est, Known(e, h, i, s, o, est, fresh), o => h.st = e.st /\ h.len = e.len,
         Defines(e, h, s, o, fresh),
         told.quant \in BOOLEAN, ~told.quant, NEW f \in HitRecord(e),
         h.st = "ring" => i = "recording"
  PROVE  Defines(f, h, s, f # e, fresh)
<1>1. CASE e.st = "waitstart" /\ ~ArmedRecordCancels
  BY <1>1 DEF HitRecord, Known, Defines, Sound, Empties
<1>2. CASE e.st = "waitstart" /\ ArmedRecordCancels
  BY <1>2 DEF HitRecord, Known, Defines, Sound, Empties, Into, Blank
<1>3. CASE e.st = "rec"
  BY <1>3 DEF HitRecord, Landings, Known, Defines, Sound, Empties, Into
<1>4. CASE e.st = "waitstop"
  BY <1>4 DEF HitRecord, Known, Defines, Sound, Empties, Into
<1>5. CASE e.st \notin {"waitstart", "rec", "waitstop"}
  BY <1>5 DEF HitRecord, Known, Defines, Sound, Empties, Into
<1>6. QED
  BY <1>1, <1>2, <1>3, <1>4, <1>5, ArmedRecordAssumption

LEMMA OverdubDefines ==
  ASSUME NEW e \in Sound, NEW h \in Heard, NEW i \in Intents, NEW s \in BOOLEAN,
         NEW o \in BOOLEAN, NEW est \in BOOLEAN, NEW fresh \in BOOLEAN,
         ~est, Known(e, h, i, s, o, est, fresh), o => h.st = e.st /\ h.len = e.len,
         Defines(e, h, s, o, fresh), told.quant \in BOOLEAN, ~told.quant,
         NEW f \in HitOverdub(e), h.st \in {"rec", "ring"}
  PROVE  Defines(f, h, s, f # e, fresh)
<1>1. CASE e.st = "rec"
  BY <1>1 DEF HitOverdub, Landings, Known, Defines, Sound, Into
<1>2. CASE e.st \in {"ring", "play"}
  BY <1>2 DEF HitOverdub, Known, Defines, Sound, Into
<1>3. CASE e.st \notin {"rec", "ring", "play"}
  BY <1>3 DEF HitOverdub, Known, Defines, Sound
<1>4. QED
  BY <1>1, <1>2, <1>3

\* and every other gesture.
LEMMA MuteDefines ==
  ASSUME NEW e \in Sound, NEW h \in Heard, NEW i \in Intents, NEW s \in BOOLEAN,
         NEW o \in BOOLEAN, NEW est \in BOOLEAN, NEW fresh \in BOOLEAN,
         ~est, Known(e, h, i, s, o, est, fresh), o => h.st = e.st /\ h.len = e.len,
         Defines(e, h, s, o, fresh),
         NEW f \in HitQuiet(e) \cup HitTrigger(e)
  PROVE  Defines(f, h, s, f # e, fresh)
BY DEF HitQuiet, HitTrigger, ActivePlay, Known, Defines, Sound, Into

-----------------------------------------------------------------------------
(* The take the grid waits for: the steps. *)

\* What is known, loop by loop.
LEMMA DefinerSays ==
  ASSUME DefinerKnown, NEW l \in Loops
  PROVE  /\ IInv /\ eng[l] \in Sound /\ heard[l] \in Heard /\ intent[l] \in Intents
         /\ stopDue[l] \in BOOLEAN /\ owed[l] \in BOOLEAN /\ grid.est \in BOOLEAN
         /\ told.quant \in BOOLEAN /\ (told.quant => grid.est)
         /\ heard[l].st \in EngineState /\ eng[l].len \in Lengths \cup {0}
         /\ heard[l].len \in Lengths \cup {0}
         /\ Known(eng[l], heard[l], intent[l], stopDue[l], owed[l], grid.est, restarts.total = 0)
         /\ grid.pending = l =>
              ~grid.est /\ Defines(eng[l], heard[l], stopDue[l], owed[l], restarts.total = 0)
         /\ MayAct(l) => (owed[l] => heard[l].st = eng[l].st /\ heard[l].len = eng[l].len)
<1>1. IInv /\ LoopKnown(l) /\ LoopDefines(l) /\ WaitsOnGrid
  BY DEF DefinerKnown, Counts
<1>2. eng[l] \in Sound /\ heard[l] \in Heard
  BY <1>1 DEF IInv, AudioHasLength, TypeOK, Heard
<1>3. grid.pending = l => ~grid.est
  BY <1>1, NoneAssumption DEF IInv, GridOrDefiner
<1>4. QED
  BY <1>1, <1>2, <1>3
     DEF IInv, TypeOK, LoopKnown, LoopDefines, WaitsOnGrid, Told, Grid, Heard, Sound, Engine,
         MayAct, Current

\* A step of one loop leaves what is known of the others, even where it makes a grid
\* or drops it.
LEMMA OthersKnown ==
  ASSUME DefinerKnown, NEW l \in Loops, UNCHANGED restarts,
         \A k \in Loops \ {l} : /\ eng'[k] = eng[k] /\ heard'[k] = heard[k]
                                /\ intent'[k] = intent[k] /\ stopDue'[k] = stopDue[k]
                                /\ owed'[k] = owed[k],
         grid' \in Grid, grid'.pending \in {grid.pending, l, None},
         grid.est /\ ~grid'.est =>
           \A k \in Loops \ {l} : heard[k].st = "off" \/ (eng[k].st = "off" /\ owed[k]),
         LoopKnown(l)', LoopDefines(l)'
  PROVE  \A k \in Loops : LoopKnown(k)' /\ LoopDefines(k)'
<1> SUFFICES ASSUME NEW k \in Loops \ {l} PROVE LoopKnown(k)' /\ LoopDefines(k)'
  OBVIOUS
<1>1. /\ eng[k] \in Sound /\ heard[k] \in Heard /\ intent[k] \in Intents
      /\ stopDue[k] \in BOOLEAN /\ owed[k] \in BOOLEAN /\ grid.est \in BOOLEAN
      /\ Known(eng[k], heard[k], intent[k], stopDue[k], owed[k], grid.est, restarts.total = 0)
      /\ grid.pending = k =>
           Defines(eng[k], heard[k], stopDue[k], owed[k], restarts.total = 0)
  BY DefinerSays
<1>2. grid'.est \in BOOLEAN /\ (restarts.total = 0) \in BOOLEAN
  BY DEF Grid
<1>3. grid.est /\ ~grid'.est => heard[k].st = "off" \/ (eng[k].st = "off" /\ owed[k])
  OBVIOUS
<1>4. Known(eng[k], heard[k], intent[k], stopDue[k], owed[k], grid'.est, restarts.total = 0)
  BY <1>1, <1>2, <1>3, KnownWithGrid
<1>5. LoopKnown(k)'
  BY <1>4 DEF LoopKnown
<1>6. LoopDefines(k)'
  BY <1>1, NoneAssumption DEF LoopDefines
<1>7. QED
  BY <1>5, <1>6

\* What a gesture's command changes.
LEMMA DoSays ==
  ASSUME DefinerKnown, NEW l \in Loops, NEW cmd, NEW i, Do(l, cmd, i)
  PROVE  /\ eng'[l] \in Hit(cmd, eng[l]) /\ owed'[l] = (eng'[l] # eng[l]) /\ intent'[l] = i
         /\ \A k \in Loops \ {l} : eng'[k] = eng[k] /\ owed'[k] = owed[k] /\ intent'[k] = intent[k]
<1>1. eng \in [Loops -> Engine] /\ owed \in [Loops -> BOOLEAN] /\ intent \in [Loops -> Intents]
  BY DEF DefinerKnown, Counts, IInv, TypeOK
<1>2. QED
  BY <1>1 DEF Do

\* The plans of a gesture on loop l: it is started, its take closed or the close
\* noted, its ring-out ended, it is muted or launched, or nothing is done.
Starts(l, p) ==
  /\ p.cmd = "record" /\ p.intent = "recording" /\ p.arm = ~grid.est /\ ~p.queue
  /\ intent[l] = "idle" \/ heard[l].st = "off"
Closes(l, p) ==
  /\ p.cmd = "record" /\ p.intent \in {"none", "recording", "playing"} /\ ~p.arm /\ ~p.queue
  /\ heard[l].st = "ring" => intent[l] = "recording" /\ p.intent = "playing"
EndsRing(l, p) ==
  /\ p.cmd = "overdub" /\ ~p.arm /\ ~p.queue
  /\ heard[l].st \in {"rec", "ring"} /\ ~Empties(p.intent, grid.est)
NotesClose(l, p) ==
  /\ p.cmd = "nothing" /\ p.intent = "recording" /\ ~p.arm /\ p.queue
  /\ grid.pending # l /\ (intent[l] = "recording" \/ heard[l].st = "waitstart")
Mutes(l, p) ==
  /\ p.cmd \in {"quiet", "trigger"} /\ p.intent \in {"none", "stopped", "playing"}
  /\ ~p.arm /\ ~p.queue /\ heard[l].st # "waitstart"
DoesNothing(l, p) ==
  p.cmd = "nothing" /\ ~p.arm /\ ~p.queue /\ p.intent \in {intent[l], "none"}
Means(l, p) ==
  \/ Starts(l, p) \/ Closes(l, p) \/ EndsRing(l, p)
  \/ NotesClose(l, p) \/ Mutes(l, p) \/ DoesNothing(l, p)

LEMMA PlanUpMeans ==
  ASSUME DefinerKnown, NEW l \in Loops, NEW i \in {intent[l], "none"}, heard[l].st # "waitstart"
  PROVE  Means(l, PlanUp(heard[l].st, i))
<1> DEFINE p == PlanUp(heard[l].st, i)
<1>1. \/ p \in {Plan(cmd, j) : cmd \in {"quiet", "trigger"}, j \in {"none", "stopped", "playing"}}
      \/ p = Plan("nothing", i)
  BY DEF PlanUp
<1>2. ASSUME NEW cmd \in {"quiet", "trigger"}, NEW j \in {"none", "stopped", "playing"},
             p = Plan(cmd, j)
      PROVE  Mutes(l, p)
  BY <1>2 DEF Plan, NoPlan, Mutes
<1>3. p = Plan("nothing", i) => DoesNothing(l, p)
  BY DEF Plan, NoPlan, DoesNothing
<1>4. QED
  BY <1>1, <1>2, <1>3 DEF Means

LEMMA PlanDownMeans ==
  ASSUME DefinerKnown, NEW l \in Loops, NEW i \in {intent[l], "none"}
  PROVE  Means(l, PlanDown(l, heard[l].st, i))
<1> DEFINE st == heard[l].st
           p == PlanDown(l, st, i)
<1>1. st \in EngineState /\ i \in Intents /\ grid.est \in BOOLEAN
  BY DefinerSays DEF Intents
<1>2. CASE EffectiveState(st, i) = "idle"
  <2>1. intent[l] = "idle" \/ st = "off"
    BY <1>1, <1>2 DEF EffectiveState, DeriveState, EngineState, ActivePlay
  <2>2. p = [Plan("record", "recording") EXCEPT !.arm = ~grid.est]
    BY <1>2 DEF PlanDown
  <2>3. p.cmd = "record" /\ p.intent = "recording" /\ p.arm = ~grid.est /\ ~p.queue
    BY <2>2 DEF Plan, NoPlan
  <2>4. QED
    BY <2>1, <2>3 DEF Means, Starts
<1>3. CASE EffectiveState(st, i) = "recording"
  <2>1. \/ i = "recording" /\ intent[l] = "recording"
        \/ i = "none" /\ st \in {"waitstart", "rec", "waitstop"}
    BY <1>1, <1>3 DEF EffectiveState, DeriveState, EngineState, ActivePlay
  <2>2. CASE st = "waitstop"
    <3>1. p = Plan("record", i)
      BY <1>3, <2>2 DEF PlanDown
    <3>2. p.cmd = "record" /\ p.intent = i /\ ~p.arm /\ ~p.queue
      BY <3>1 DEF Plan, NoPlan
    <3>3. QED
      BY <2>1, <2>2, <3>2 DEF Means, Closes
  <2>3. CASE st # "waitstop" /\ grid.pending = l
    <3>1. p = Plan(IF st = "rec" THEN "overdub" ELSE "record", "playing")
      BY <1>3, <2>3 DEF PlanDown
    <3>2. /\ p.cmd = IF st = "rec" THEN "overdub" ELSE "record"
          /\ p.intent = "playing" /\ ~p.arm /\ ~p.queue
      BY <3>1 DEF Plan, NoPlan
    <3>3. QED
      BY <2>1, <3>2 DEF Means, Closes, EndsRing, Empties
  <2>4. CASE st \notin {"waitstop", "rec"} /\ grid.pending # l
    <3>1. p = [Plan("nothing", "recording") EXCEPT !.queue = TRUE]
      BY <1>3, <2>4 DEF PlanDown
    <3>2. p.cmd = "nothing" /\ p.intent = "recording" /\ ~p.arm /\ p.queue
      BY <3>1 DEF Plan, NoPlan
    <3>3. QED
      BY <2>1, <2>4, <3>2 DEF Means, NotesClose
  <2>5. CASE st = "rec" /\ grid.pending # l /\ grid.est
    <3>1. p = Plan("overdub", i)
      BY <1>3, <2>5 DEF PlanDown
    <3>2. p.cmd = "overdub" /\ p.intent = i /\ ~p.arm /\ ~p.queue
      BY <3>1 DEF Plan, NoPlan
    <3>3. QED
      BY <2>1, <2>5, <3>2 DEF Means, EndsRing, Empties
  <2>6. CASE st = "rec" /\ grid.pending # l /\ ~grid.est
    <3>1. p = Plan("record", "playing")
      BY <1>3, <2>6 DEF PlanDown
    <3>2. p.cmd = "record" /\ p.intent = "playing" /\ ~p.arm /\ ~p.queue
      BY <3>1 DEF Plan, NoPlan
    <3>3. QED
      BY <2>6, <3>2 DEF Means, Closes
  <2>7. QED
    BY <2>2, <2>3, <2>4, <2>5, <2>6
<1>4. CASE EffectiveState(st, i) \in {"playing", "stopped"}
  <2>2. p = IF st = "ring" THEN Plan("overdub", "playing") ELSE Plan("nothing", i)
    BY <1>4 DEF PlanDown
  <2>3. /\ ~p.arm /\ ~p.queue
        /\ IF st = "ring" THEN p.cmd = "overdub" /\ p.intent = "playing"
           ELSE p.cmd = "nothing" /\ p.intent = i
    BY <2>2 DEF Plan, NoPlan
  <2>4. QED
    BY <2>3 DEF Means, EndsRing, DoesNothing, Empties
<1>5. QED
  BY <1>1, <1>2, <1>3, <1>4, EffectiveType

\* A gesture leaves the loop it acts on known.
LEMMA CarryLoopKnown ==
  ASSUME DefinerKnown, NEW l \in Loops, NEW p \in Plans, MayAct(l), Carry(l, p), Means(l, p),
         UNCHANGED <<told, restarts, heard, tail, settle>>
  PROVE  LoopKnown(l)' /\ LoopDefines(l)'
<1> DEFINE e == eng[l]
           f == eng'[l]
           h == heard[l]
           s == stopDue[l]
           o == owed[l]
           est == grid.est
           fresh == restarts.total = 0
<1>1. /\ e \in Sound /\ h \in Heard /\ intent[l] \in Intents /\ s \in BOOLEAN /\ o \in BOOLEAN
      /\ est \in BOOLEAN /\ fresh \in BOOLEAN /\ told.quant \in BOOLEAN /\ (told.quant => est)
      /\ Known(e, h, intent[l], s, o, est, fresh)
      /\ grid.pending = l => ~est /\ Defines(e, h, s, o, fresh)
      /\ o => h.st = e.st /\ h.len = e.len
  BY DefinerSays
<1>2. /\ f \in Hit(p.cmd, e) /\ owed'[l] = (f # e) /\ intent'[l] = p.intent
      /\ heard'[l] = h /\ restarts' = restarts
  BY DoSays DEF Carry
<1>3. /\ stopDue'[l] = (s \/ p.queue)
      /\ grid'.est = est
      /\ grid'.pending = l => grid.pending = l \/ (p.arm /\ ~est)
      /\ p.intent \in Intents
  BY DEF Carry, Arm, Plans, DefinerKnown, Counts, IInv, TypeOK, Grid
<1> SUFFICES /\ Known(f, h, p.intent, stopDue'[l], f # e, est, fresh)
             /\ grid'.pending = l => Defines(f, h, stopDue'[l], f # e, fresh)
  BY <1>2, <1>3 DEF LoopKnown, LoopDefines
<1> HIDE DEF e, f, h, s, o, est, fresh
<1>4. CASE Starts(l, p)
  <2>1. f \in HitRecord(e) /\ stopDue'[l] = s /\ p.intent = "recording" /\ p.arm = ~est
    BY <1>1, <1>2, <1>3, <1>4 DEF Starts, Hit, est
  <2>2. intent[l] = "idle" \/ h.st = "off"
    BY <1>4 DEF Starts, h
  <2>3. h.st = "ring" => ~Empties("recording", est)
    BY <1>1, <2>2 DEF Known, Empties
  <2>4. Known(f, h, "recording", s, f # e, est, fresh)
    BY <1>1, <2>1, <2>3, RecordKnown DEF Intents
  <2>5. ASSUME ~est PROVE Defines(f, h, s, f # e, fresh)
    <3>1. ~told.quant
      BY <1>1, <2>5
    <3>2. QED
      BY <1>1, <2>1, <2>2, <2>5, <3>1, ArmDefines
  <2>6. grid'.pending = l => ~est
    BY <1>1, <1>3
  <2>7. QED
    BY <2>1, <2>4, <2>5, <2>6
<1>5. CASE Closes(l, p)
  <2>1. /\ f \in HitRecord(e) /\ stopDue'[l] = s /\ ~p.arm
        /\ p.intent \in {"none", "recording", "playing"}
    BY <1>1, <1>2, <1>3, <1>5 DEF Closes, Hit
  <2>2. h.st = "ring" => intent[l] = "recording" /\ p.intent = "playing"
    BY <1>5 DEF Closes, h
  <2>3. h.st = "ring" => ~Empties(p.intent, est)
    BY <2>2 DEF Empties
  <2>4. Known(f, h, p.intent, s, f # e, est, fresh)
    BY <1>1, <1>3, <2>1, <2>3, RecordKnown
  <2>5. ASSUME grid.pending = l PROVE Defines(f, h, s, f # e, fresh)
    <3>1. ~est /\ ~told.quant /\ Defines(e, h, s, o, fresh)
      BY <1>1, <2>5
    <3>2. QED
      BY <1>1, <2>1, <2>2, <3>1, RecordDefines
  <2>6. QED
    BY <1>3, <2>1, <2>4, <2>5
<1>6. CASE EndsRing(l, p)
  <2>1. /\ f \in HitOverdub(e) /\ stopDue'[l] = s /\ ~p.arm
        /\ h.st \in {"rec", "ring"} /\ ~Empties(p.intent, est)
    BY <1>1, <1>2, <1>3, <1>6 DEF EndsRing, Hit, h, est
  <2>2. Known(f, h, p.intent, s, f # e, est, fresh)
    BY <1>1, <1>3, <2>1, OverdubKnown
  <2>3. ASSUME grid.pending = l PROVE Defines(f, h, s, f # e, fresh)
    <3>1. ~est /\ ~told.quant /\ Defines(e, h, s, o, fresh)
      BY <1>1, <2>3
    <3>2. QED
      BY <1>1, <2>1, <3>1, OverdubDefines
  <2>4. QED
    BY <1>3, <2>1, <2>2, <2>3
<1>7. CASE NotesClose(l, p)
  <2>1. /\ f \in {e} /\ stopDue'[l] \in BOOLEAN /\ p.intent = "recording"
        /\ grid'.pending # l
        /\ intent[l] = "recording" \/ h.st = "waitstart"
    BY <1>1, <1>2, <1>3, <1>7 DEF NotesClose, Hit, h
  <2>2. Empties("recording", est) => Empties(intent[l], est) \/ h.st = "waitstart"
    BY <2>1
  <2>3. Known(f, h, "recording", stopDue'[l], f # e, est, fresh)
    BY <1>1, <2>1, <2>2, NothingKnown DEF Intents
  <2>4. QED
    BY <2>1, <2>3
<1>8. CASE Mutes(l, p)
  <2>1. /\ f \in HitQuiet(e) \cup HitTrigger(e) /\ stopDue'[l] = s /\ ~p.arm
        /\ p.intent \in {"none", "stopped", "playing"} /\ h.st # "waitstart"
    BY <1>1, <1>2, <1>3, <1>8 DEF Mutes, Hit, h
  <2>2. ~Empties(p.intent, est)
    BY <2>1 DEF Empties
  <2>3. Known(f, h, p.intent, s, f # e, est, fresh)
    BY <1>1, <1>3, <2>1, <2>2, MuteKnown
  <2>4. ASSUME grid.pending = l PROVE Defines(f, h, s, f # e, fresh)
    <3>1. ~est /\ ~told.quant /\ Defines(e, h, s, o, fresh)
      BY <1>1, <2>4
    <3>2. QED
      BY <1>1, <2>1, <3>1, MuteDefines
  <2>5. QED
    BY <1>3, <2>1, <2>3, <2>4
<1>9. CASE DoesNothing(l, p)
  <2>1. f = e /\ stopDue'[l] = s /\ ~p.arm /\ p.intent \in {intent[l], "none"}
    BY <1>1, <1>2, <1>3, <1>9 DEF DoesNothing, Hit
  <2>2. Empties(p.intent, est) => Empties(intent[l], est)
    BY <2>1 DEF Empties
  <2>3. Known(f, h, p.intent, s, f # e, est, fresh)
    BY <1>1, <1>3, <2>1, <2>2, NothingKnown
  <2>4. ASSUME grid.pending = l PROVE Defines(f, h, s, f # e, fresh)
    BY <1>1, <2>1, <2>4 DEF Defines
  <2>5. QED
    BY <1>3, <2>1, <2>3, <2>4
<1>10. QED
  BY <1>4, <1>5, <1>6, <1>7, <1>8, <1>9 DEF Means

\* Every step keeps what is known, and the step that makes a grid takes the length.
DefinerStep ==
  /\ WaitsOnGrid'
  /\ \A k \in Loops : LoopKnown(k)' /\ LoopDefines(k)'
  /\ TakesTheLength

LEMMA CarryDefiner ==
  ASSUME DefinerKnown, NEW l \in Loops, NEW p \in Plans, MayAct(l), Carry(l, p), Means(l, p),
         UNCHANGED <<told, restarts, heard, tail, settle>>
  PROVE  DefinerStep
<1>1. grid \in Grid /\ stopDue \in [Loops -> BOOLEAN]
  BY DEF DefinerKnown, Counts, IInv, TypeOK
<1>2. grid' \in Grid /\ grid'.est = grid.est /\ grid'.pending \in {grid.pending, l}
  BY <1>1, GridTypes DEF Carry, Arm
<1>3. \A k \in Loops \ {l} : /\ eng'[k] = eng[k] /\ owed'[k] = owed[k]
                             /\ intent'[k] = intent[k] /\ stopDue'[k] = stopDue[k]
  BY <1>1, DoSays DEF Carry
<1>4. \A k \in Loops : LoopKnown(k)' /\ LoopDefines(k)'
  BY <1>2, <1>3, CarryLoopKnown, OthersKnown
<1>5. QED
  BY <1>2, <1>4 DEF DefinerStep, TakesTheLength, DefinerKnown, WaitsOnGrid

LEMMA PadDownDefiner ==
  ASSUME DefinerKnown, NEW l \in Loops, OnPadDown(l)
  PROVE  DefinerStep
<1>1. PICK i \in Expire(heard[l].st, intent[l], Current(l)) :
        Carry(l, PlanDown(l, heard[l].st, i))
  BY DEF OnPadDown
<1>2. i \in {intent[l], "none"}
  BY DEF Expire
<1>3. PlanDown(l, heard[l].st, i) \in Plans
  BY <1>2, DefinerSays, PlanDownType DEF IInv, Intents
<1>4. QED
  BY <1>1, <1>2, <1>3, PlanDownMeans, CarryDefiner DEF OnPadDown

LEMMA PadUpDefiner ==
  ASSUME DefinerKnown, NEW l \in Loops, OnPadUp(l)
  PROVE  DefinerStep
<1>1. PICK i \in Expire(heard[l].st, intent[l], Current(l)) :
        Carry(l, PlanUp(heard[l].st, i))
  BY DEF OnPadUp
<1>2. i \in {intent[l], "none"} /\ heard[l].st # "waitstart"
  BY DEF Expire, OnPadUp
<1>3. PlanUp(heard[l].st, i) \in Plans
  BY <1>2, DefinerSays, PlanUpType DEF Intents
<1>4. QED
  BY <1>1, <1>2, <1>3, PlanUpMeans, CarryDefiner DEF OnPadUp

LEMMA PollHoldDefiner ==
  ASSUME DefinerKnown, NEW l \in Loops, PollHold(l)
  PROVE  DefinerStep
<1> DEFINE e == eng[l]
           f == eng'[l]
           h == heard[l]
           t == stopDue'[l]
           est == grid.est
           fresh == restarts.total = 0
           cmd == IF HoldTargetsCancel(l) /\ h.st = "waitstart" THEN "record" ELSE "undo_all"
<1>1. /\ e \in Sound /\ h \in Heard /\ intent[l] \in Intents /\ stopDue[l] \in BOOLEAN
      /\ owed[l] \in BOOLEAN /\ est \in BOOLEAN /\ fresh \in BOOLEAN
      /\ told.quant \in BOOLEAN /\ (told.quant => est)
      /\ Known(e, h, intent[l], stopDue[l], owed[l], est, fresh)
      /\ owed[l] => h.st = e.st /\ h.len = e.len
  BY DefinerSays DEF PollHold
<1>2. Do(l, cmd, "idle") /\ UNCHANGED <<told, restarts, heard, tail, settle>>
  BY DEF PollHold
<1>3. /\ f \in Hit(cmd, e) /\ owed'[l] = (f # e) /\ intent'[l] = "idle"
      /\ \A k \in Loops \ {l} : eng'[k] = eng[k] /\ owed'[k] = owed[k] /\ intent'[k] = intent[k]
  BY <1>2, DoSays
<1>4. /\ t \in BOOLEAN /\ ~t /\ \A k \in Loops \ {l} : stopDue'[k] = stopDue[k]
      /\ grid'.est = est
      /\ grid'.pending \in {grid.pending, None} /\ grid'.pending # l
  BY NoneAssumption DEF PollHold, Cancel, DefinerKnown, Counts, IInv, TypeOK, Grid
<1>5. grid' \in Grid
  BY GridTypes DEF PollHold, DefinerKnown, Counts, IInv, TypeOK
<1>6. Known(f, h, "idle", t, f # e, est, fresh)
  <2> HIDE DEF e, f, h, t, est, fresh
  <2>1. CASE cmd = "undo_all"
    <3>1. f = Blank
      BY <1>3, <2>1 DEF Hit
    <3>2. QED
      BY <1>1, <1>4, <3>1, UndoKnown
  <2>2. CASE cmd = "record" /\ h.st = "waitstart"
    <3>1. f \in HitRecord(e)
      BY <1>3, <2>2 DEF Hit
    <3>2. Known(e, h, intent[l], t, owed[l], est, fresh)
      BY <1>1, <1>4 DEF Known
    <3>3. QED
      BY <1>1, <1>4, <2>2, <3>1, <3>2, RecordKnown DEF Intents
  <2>3. QED
    BY <2>1, <2>2
<1>7. LoopKnown(l)' /\ LoopDefines(l)'
  BY <1>2, <1>3, <1>4, <1>6 DEF LoopKnown, LoopDefines
<1>8. \A k \in Loops : LoopKnown(k)' /\ LoopDefines(k)'
  BY <1>2, <1>3, <1>4, <1>5, <1>7, OthersKnown
<1>9. QED
  BY <1>2, <1>4, <1>8 DEF DefinerStep, TakesTheLength, DefinerKnown, WaitsOnGrid

\* The engine moves one loop by itself, at a boundary or at the end of a ring-out.
LEMMA BoundaryDefiner ==
  ASSUME DefinerKnown, NEW l \in Loops, Boundary(l)
  PROVE  DefinerStep
<1> DEFINE e == eng[l]
           f == eng'[l]
<1>1. UNCHANGED <<told, restarts, heard, intent, stopDue, owed, tail, grid, settle>>
  BY DEF Boundary
<1>2. /\ eng \in [Loops -> Engine] /\ grid \in Grid
      /\ \A k \in Loops \ {l} : eng'[k] = eng[k]
  BY DEF Boundary, DefinerKnown, Counts, IInv, TypeOK
<1>3. \/ e.st = "waitstart" /\ f = Into("rec", 0)
      \/ /\ e.st = "waitstop" /\ f.st \in {"ring", "play"} /\ f.len # 0 /\ ~f.ringing
         /\ f.st = "ring" => e.ringing
  <2>1. ASSUME NEW st \in {"ring", "play"}, NEW d \in Landings(st)
        PROVE  d.st = st /\ d.len # 0 /\ ~d.ringing
    BY LengthsAssumption DEF Landings, Into
  <2>2. QED
    BY <1>2, <2>1 DEF Boundary
<1>4. f.st = "rec" => f.len = 0 /\ ~f.ringing
  BY <1>3 DEF Into
<1>5. LoopKnown(l)' /\ LoopDefines(l)'
  <2>1. LoopKnown(l) /\ LoopDefines(l) /\ e \in Sound /\ (grid.pending = l => ~grid.est)
    BY DefinerSays DEF LoopKnown, LoopDefines
  <2>2. Known(f, heard[l], intent[l], stopDue[l], owed[l], grid.est, restarts.total = 0)
    BY <1>3, <2>1 DEF LoopKnown, Known, Empties, Sound, Into
  <2>3. ASSUME grid.pending = l
        PROVE  Defines(f, heard[l], stopDue[l], owed[l], restarts.total = 0)
    BY <1>3, <2>1, <2>3 DEF LoopKnown, LoopDefines, Known, Defines, Sound, Into
  <2>4. QED
    BY <1>1, <2>2, <2>3 DEF LoopKnown, LoopDefines
<1>6. \A k \in Loops : LoopKnown(k)' /\ LoopDefines(k)'
  BY <1>1, <1>2, <1>5, OthersKnown
<1>7. QED
  BY <1>1, <1>6 DEF DefinerStep, TakesTheLength, DefinerKnown, WaitsOnGrid

LEMMA PollTailDefiner ==
  ASSUME DefinerKnown, NEW l \in Loops, PollTail(l)
  PROVE  DefinerStep
<1> DEFINE e == eng[l]
           f == eng'[l]
<1>1. UNCHANGED <<told, restarts, heard, intent, stopDue, owed, grid, settle>>
  BY DEF PollTail
<1>2. /\ eng \in [Loops -> Engine] /\ grid \in Grid
      /\ \A k \in Loops \ {l} : eng'[k] = eng[k]
      /\ f = e \/ (heard[l].st = "ring" /\ f \in HitOverdub(e))
  BY DEF PollTail, DefinerKnown, Counts, IInv, TypeOK
<1>3. LoopKnown(l) /\ LoopDefines(l) /\ e \in Sound /\ (grid.pending = l => ~grid.est)
  BY DefinerSays DEF LoopKnown, LoopDefines
<1>4. ASSUME heard[l].st = "ring", f \in HitOverdub(e)
      PROVE  /\ Known(f, heard[l], intent[l], stopDue[l], owed[l], grid.est, restarts.total = 0)
             /\ grid.pending = l =>
                  Defines(f, heard[l], stopDue[l], owed[l], restarts.total = 0)
  <2>1. CASE e.st = "rec"
    BY <1>3, <1>4, <2>1 DEF HitOverdub, Landings, Into, LoopKnown, LoopDefines, Known, Defines, Empties, Sound
  <2>2. CASE e.st \in {"ring", "play"}
    BY <1>3, <1>4, <2>2 DEF HitOverdub, Into, LoopKnown, LoopDefines, Known, Defines, Empties, Sound
  <2>3. CASE e.st \notin {"rec", "ring", "play"}
    BY <1>3, <1>4, <2>3 DEF HitOverdub, LoopKnown, LoopDefines
  <2>4. QED
    BY <2>1, <2>2, <2>3
<1>5. LoopKnown(l)' /\ LoopDefines(l)'
  BY <1>1, <1>2, <1>3, <1>4 DEF LoopKnown, LoopDefines
<1>6. \A k \in Loops : LoopKnown(k)' /\ LoopDefines(k)'
  BY <1>1, <1>2, <1>5, OthersKnown
<1>7. QED
  BY <1>1, <1>6 DEF DefinerStep, TakesTheLength, DefinerKnown, WaitsOnGrid

\* The grid that is made has the length of its take.
LEMMA EstablishTakes ==
  ASSUME NEW g \in Grid, NEW l \in Loops, NEW len \in Lengths \cup {0},
         Establish(g, l, len).est, ~g.est
  PROVE  /\ g.pending = l /\ len # 0 /\ len >= MinDefining
         /\ Establish(g, l, len).cycle = len
<1>1. len \in Nat
  BY LengthsAssumption
<1>2. ~(len < MinDefining) /\ g.pending = l /\ len # 0
  BY DEF Establish, Grid
<1>3. Establish(g, l, len) = [g EXCEPT !.est = TRUE, !.cycle = len, !.pending = None]
  BY <1>2 DEF Establish
<1>4. QED
  BY <1>1, <1>2, <1>3, MinDefiningAssumption DEF Grid

LEMMA LandingSays ==
  ASSUME NEW st, NEW d \in Landings(st)
  PROVE  d.st = st /\ d.len # 0 /\ ~d.ringing
BY LengthsAssumption DEF Landings, Into

\* A report of a state: the take that is due to be closed is closed, and the length
\* heard first is the one the grid takes.
LEMMA SyncFromSlDefiner ==
  ASSUME DefinerKnown, NEW l \in Loops, SyncFromSl(l)
  PROVE  DefinerStep
<1> DEFINE e == eng[l]
           f == eng'[l]
           h == heard[l]
           k1 == heard'[l]
           s == stopDue[l]
           o == owed[l]
           fresh == restarts.total = 0
           g == IF e.st = "play" THEN Establish(grid, l, h.len) ELSE grid
           closes == s /\ e.st = "rec"
<1>1. /\ e \in Sound /\ h \in Heard /\ s \in BOOLEAN /\ o \in BOOLEAN
      /\ Known(e, h, intent[l], s, o, grid.est, fresh)
      /\ grid.pending = l => ~grid.est /\ Defines(e, h, s, o, fresh)
      /\ h.len \in Lengths \cup {0}
      /\ grid \in Grid /\ told.quant \in BOOLEAN /\ (told.quant => grid.est)
  BY DefinerSays DEF IInv, TypeOK
<1>2. PICK i \in Expire(e.st, intent[l], TRUE) :
        /\ intent' = [intent EXCEPT ![l] = i]
        /\ grid' = NoteLoopContent(g, l, HoldsAudio(e.st, i))
        /\ told' = Tell(told, grid, grid')
  BY DEF SyncFromSl, GridAfterState
<1>3. HoldsAudio(e.st, i) \in BOOLEAN /\ (~HoldsAudio(e.st, i) => e.st = "off")
  BY DEF HoldsAudio
<1>4. /\ g \in Grid /\ g.occupied = grid.occupied /\ (grid.est => g = grid)
      /\ g.pending \in {grid.pending, None}
      /\ g.est /\ ~grid.est => /\ e.st = "play" /\ grid.pending = l /\ h.len # 0
                               /\ g.cycle = h.len /\ h.len >= MinDefining
  BY <1>1, GridTypes, EstablishChanges, EstablishTakes, OccupiedChanges DEF Grid
<1>5. /\ grid' \in Grid /\ grid'.pending \in {grid.pending, None}
      /\ grid'.est => g.est /\ grid'.cycle = g.cycle
      /\ g.est /\ ~grid'.est => e.st = "off" /\ grid.occupied \subseteq {l}
  BY <1>2, <1>3, <1>4, GridTypes, NoteChanges, OccupiedChanges
<1>6. /\ \A k \in Loops \ {l} : /\ eng'[k] = eng[k] /\ heard'[k] = heard[k]
                                /\ intent'[k] = intent[k] /\ stopDue'[k] = stopDue[k]
                                /\ owed'[k] = owed[k]
      /\ intent'[l] = i /\ i \in {intent[l], "none"} /\ restarts' = restarts
      /\ k1.st = e.st /\ k1.len = h.len /\ stopDue'[l] = (s /\ ~closes)
      /\ owed'[l] = (o /\ h.len # e.len)
      /\ f \in IF closes THEN HitRecord(e) ELSE {e}
  <2>1. /\ eng \in [Loops -> Engine] /\ owed \in [Loops -> BOOLEAN] /\ intent \in [Loops -> Intents]
        /\ heard \in [Loops -> Heard] /\ stopDue \in [Loops -> BOOLEAN]
    BY DEF DefinerKnown, Counts, IInv, TypeOK, Heard
  <2>2. i \in {intent[l], "none"}
    BY DEF Expire
  <2>3. QED
    BY <1>2, <2>1, <2>2 DEF SyncFromSl, Heard
<1>7. grid.est /\ ~grid'.est =>
        \A k \in Loops \ {l} : heard[k].st = "off" \/ (eng[k].st = "off" /\ owed[k])
  BY <1>4, <1>5 DEF DefinerKnown, Counts, UncountedIsEmpty
<1>8. ASSUME closes
      PROVE  \/ told.quant /\ f = Into("waitstop", 0)
             \/ ~told.quant /\ f.st = "play" /\ f.len # 0 /\ ~f.ringing
  <2>1. f \in IF told.quant THEN {Into("waitstop", 0)} ELSE Landings("play")
    BY <1>6, <1>8 DEF HitRecord
  <2>2. QED
    BY <1>1, <2>1, LandingSays
<1>9. grid'.est /\ ~grid.est => e.len = grid'.cycle /\ grid'.cycle >= MinDefining
  BY <1>1, <1>4, <1>5 DEF Defines
<1>10. Known(f, k1, i, s /\ ~closes, o /\ h.len # e.len, grid'.est, fresh)
  <2>1. grid.est /\ ~grid'.est => e.st = "off"
    BY <1>4, <1>5
  <2>2. CASE closes
    BY <1>1, <1>6, <1>8, <2>1, <2>2 DEF Known, Empties, Sound, Into
  <2>3. CASE ~closes
    BY <1>1, <1>6, <2>1, <2>3 DEF Known, Empties, Sound
  <2>4. QED
    BY <2>2, <2>3
<1>11. ASSUME grid'.pending = l
       PROVE  Defines(f, k1, s /\ ~closes, o /\ h.len # e.len, fresh)
  <2>1. grid.pending = l
    BY <1>5, <1>11, NoneAssumption
  <2>2. CASE closes
    BY <1>1, <1>6, <1>8, <2>1, <2>2 DEF Known, Defines, Sound, Into
  <2>3. CASE ~closes
    BY <1>1, <1>6, <2>1, <2>3 DEF Known, Defines, Sound
  <2>4. QED
    BY <2>2, <2>3
<1>12. LoopKnown(l)' /\ LoopDefines(l)'
  BY <1>6, <1>10, <1>11 DEF LoopKnown, LoopDefines
<1>13. \A k \in Loops : LoopKnown(k)' /\ LoopDefines(k)'
  BY <1>5, <1>6, <1>7, <1>12, OthersKnown
<1>14. WaitsOnGrid'
  BY <1>1, <1>2, <1>5 DEF WaitsOnGrid, Tell, ApplyEstablishedGrid, DropGrid, Told, DefinerKnown,
                          Counts, IInv, TypeOK
<1>15. TakesTheLength
  BY <1>4, <1>5, <1>9 DEF TakesTheLength
<1>16. QED
  BY <1>13, <1>14, <1>15 DEF DefinerStep

\* A report of a length.
LEMMA SyncLoopLenDefiner ==
  ASSUME DefinerKnown, NEW l \in Loops, SyncLoopLen(l)
  PROVE  DefinerStep
<1> DEFINE e == eng[l]
           h == heard[l]
           k1 == heard'[l]
           s == stopDue[l]
           o == owed[l]
           fresh == restarts.total = 0
<1>1. /\ e \in Sound /\ h \in Heard /\ s \in BOOLEAN /\ o \in BOOLEAN
      /\ Known(e, h, intent[l], s, o, grid.est, fresh)
      /\ grid.pending = l => ~grid.est /\ Defines(e, h, s, o, fresh)
      /\ e.len \in Lengths \cup {0}
      /\ grid \in Grid /\ told.quant \in BOOLEAN /\ (told.quant => grid.est)
  BY DefinerSays DEF IInv, TypeOK
<1>2. grid' = (IF h.st = "play" THEN Establish(grid, l, e.len) ELSE grid) /\ told' = Tell(told, grid, grid')
  BY DEF SyncLoopLen
<1>3. /\ grid' \in Grid /\ (grid.est => grid' = grid)
      /\ grid'.pending \in {grid.pending, None}
      /\ grid'.est /\ ~grid.est => /\ grid.pending = l /\ grid'.cycle = e.len
                                   /\ e.len >= MinDefining
  <2>1. CASE h.st = "play"
    <3>1. grid' = Establish(grid, l, e.len)
      BY <1>2, <2>1
    <3>2. QED
      BY <1>1, <3>1, GridTypes, EstablishChanges, EstablishTakes
  <2>2. CASE h.st # "play"
    BY <1>1, <1>2, <2>2
  <2>3. QED
    BY <2>1, <2>2
<1>4. /\ eng' = eng /\ intent' = intent /\ stopDue' = stopDue /\ restarts' = restarts
      /\ \A k \in Loops \ {l} : heard'[k] = heard[k] /\ owed'[k] = owed[k]
      /\ k1.st = h.st /\ k1.len = e.len /\ owed'[l] = (o /\ h.st # e.st)
  <2>1. owed \in [Loops -> BOOLEAN] /\ heard \in [Loops -> Heard]
    BY DEF DefinerKnown, Counts, IInv, TypeOK, Heard
  <2>2. QED
    BY <2>1 DEF SyncLoopLen, Heard
<1>5. Known(e, k1, intent[l], s, o /\ h.st # e.st, grid'.est, fresh)
  BY <1>1, <1>3, <1>4 DEF Known, Empties, Sound
<1>6. ASSUME grid'.pending = l
      PROVE  Defines(e, k1, s, o /\ h.st # e.st, fresh)
  <2>1. grid.pending = l
    BY <1>3, <1>6, NoneAssumption
  <2>2. QED
    BY <1>1, <1>4, <2>1 DEF Defines, Sound
<1>7. LoopKnown(l)' /\ LoopDefines(l)'
  BY <1>4, <1>5, <1>6 DEF LoopKnown, LoopDefines
<1>8. \A k \in Loops : LoopKnown(k)' /\ LoopDefines(k)'
  BY <1>3, <1>4, <1>7, OthersKnown
<1>9. WaitsOnGrid'
  BY <1>1, <1>2, <1>3 DEF WaitsOnGrid, Tell, ApplyEstablishedGrid, DropGrid, Told, DefinerKnown,
                          Counts, IInv, TypeOK
<1>10. TakesTheLength
  BY <1>3 DEF TakesTheLength
<1>11. QED
  BY <1>8, <1>9, <1>10 DEF DefinerStep

\* Silencing a loop, with what is known of it kept: where the player acts on it,
\* or where it is heard to be active.
LEMMA SilencedKnown ==
  ASSUME NEW e \in Sound, NEW h \in Heard, NEW i \in Intents, NEW s \in BOOLEAN,
         NEW o \in BOOLEAN, NEW est \in BOOLEAN, NEW fresh \in BOOLEAN,
         Known(e, h, i, s, o, est, fresh),
         h.st = "off" /\ o => h.st = e.st,
         NEW f \in Silenced(e), NEW j \in {i, "stopped"}
  PROVE  Known(f, h, j, s, o, est, fresh)
<1>1. CASE e.st \in {"rec", "waitstop"} /\ f # e
  <2>1. f.st = "quiet" /\ f.len # 0 /\ ~f.ringing
    BY <1>1, LengthsAssumption DEF Silenced, Landings, Into
  <2>2. QED
    BY <1>1, <2>1 DEF Known, Sound, Empties
<1>2. CASE e.st \in ActivePlay
  <2>1. f.st = "quiet" /\ f.len = e.len /\ ~f.ringing
    BY <1>2 DEF Silenced, HitQuiet, ActivePlay, Into
  <2>2. QED
    BY <1>2, <2>1 DEF Known, Sound, Empties, ActivePlay
<1>3. CASE f = e
  BY <1>3 DEF Known, Empties
<1>4. QED
  BY <1>1, <1>2, <1>3 DEF Silenced, HitQuiet

LEMMA SilencedDefines ==
  ASSUME NEW e \in Sound, NEW h \in Heard, NEW s \in BOOLEAN,
         NEW o \in BOOLEAN, NEW fresh \in BOOLEAN,
         Defines(e, h, s, o, fresh),
         h.st = "off" /\ o => h.st = e.st,
         NEW f \in Silenced(e)
  PROVE  Defines(f, h, s, o, fresh)
<1>1. CASE e.st \in {"rec", "waitstop"} /\ f # e
  <2>1. f.st = "quiet" /\ f.len # 0 /\ ~f.ringing
    BY <1>1, LengthsAssumption DEF Silenced, Landings, Into
  <2>2. QED
    BY <1>1, <2>1 DEF Defines, Sound
<1>2. CASE e.st \in ActivePlay
  <2>1. f.st = "quiet" /\ f.len = e.len /\ ~f.ringing
    BY <1>2 DEF Silenced, HitQuiet, ActivePlay, Into
  <2>2. QED
    BY <1>2, <2>1 DEF Defines, Sound, ActivePlay
<1>3. CASE f = e
  BY <1>3
<1>4. QED
  BY <1>1, <1>2, <1>3 DEF Silenced, HitQuiet

LEMMA StopAllDefiner ==
  ASSUME DefinerKnown, StopAllLoops
  PROVE  DefinerStep
<1>1. UNCHANGED <<restarts, heard, stopDue, owed, tail, grid>>
  BY DEF StopAllLoops
<1>2. ASSUME NEW l \in Loops
      PROVE  LoopKnown(l)' /\ LoopDefines(l)'
  <2> DEFINE fresh == restarts.total = 0
  <2>1. MayAct(l) /\ eng'[l] \in Silenced(eng[l]) /\ intent'[l] \in {intent[l], "stopped"}
    BY DEF StopAllLoops
  <2>2. /\ eng[l] \in Sound /\ heard[l] \in Heard /\ intent[l] \in Intents
        /\ stopDue[l] \in BOOLEAN /\ owed[l] \in BOOLEAN /\ grid.est \in BOOLEAN
        /\ fresh \in BOOLEAN
        /\ Known(eng[l], heard[l], intent[l], stopDue[l], owed[l], grid.est, fresh)
        /\ grid.pending = l => Defines(eng[l], heard[l], stopDue[l], owed[l], fresh)
        /\ owed[l] => heard[l].st = eng[l].st
    BY <2>1, DefinerSays
  <2> HIDE DEF fresh
  <2>3. Known(eng'[l], heard[l], intent'[l], stopDue[l], owed[l], grid.est, fresh)
    BY <2>1, <2>2, SilencedKnown
  <2>4. grid.pending = l => Defines(eng'[l], heard[l], stopDue[l], owed[l], fresh)
    BY <2>1, <2>2, SilencedDefines
  <2>5. QED
    BY <1>1, <2>3, <2>4 DEF LoopKnown, LoopDefines, fresh
<1>3. WaitsOnGrid'
  BY <1>1 DEF StopAllLoops, WaitsOnGrid, ApplyEstablishedGrid, Freeform, DefinerKnown, Counts, IInv, TypeOK, Told
<1>4. QED
  BY <1>1, <1>2, <1>3 DEF DefinerStep, TakesTheLength

LEMMA SettleDefiner ==
  ASSUME DefinerKnown, SettleStopAll
  PROVE  DefinerStep
<1>1. UNCHANGED <<restarts, heard, intent, stopDue, owed, tail, grid>>
  BY DEF SettleStopAll
<1>2. ASSUME NEW l \in Loops
      PROVE  LoopKnown(l)' /\ LoopDefines(l)'
  <2> DEFINE fresh == restarts.total = 0
  <2>1. \/ eng'[l] = eng[l]
        \/ heard[l].st # "off" /\ eng'[l] \in Silenced(eng[l])
    BY DEF SettleStopAll
  <2>2. /\ eng[l] \in Sound /\ heard[l] \in Heard /\ intent[l] \in Intents
        /\ stopDue[l] \in BOOLEAN /\ owed[l] \in BOOLEAN /\ grid.est \in BOOLEAN
        /\ fresh \in BOOLEAN
        /\ Known(eng[l], heard[l], intent[l], stopDue[l], owed[l], grid.est, fresh)
        /\ grid.pending = l => Defines(eng[l], heard[l], stopDue[l], owed[l], fresh)
    BY DefinerSays
  <2> HIDE DEF fresh
  <2>3. Known(eng'[l], heard[l], intent[l], stopDue[l], owed[l], grid.est, fresh)
    BY <2>1, <2>2, SilencedKnown
  <2>4. grid.pending = l => Defines(eng'[l], heard[l], stopDue[l], owed[l], fresh)
    BY <2>1, <2>2, SilencedDefines
  <2>5. QED
    BY <1>1, <2>3, <2>4 DEF LoopKnown, LoopDefines, fresh
<1>3. WaitsOnGrid'
  BY <1>1 DEF SettleStopAll, WaitsOnGrid, DefinerKnown, Counts, IInv, TypeOK, Told
<1>4. QED
  BY <1>1, <1>2, <1>3 DEF DefinerStep, TakesTheLength

\* Every loop is emptied, by Clear All or with the engine.
LEMMA BlankSays == Blank.st = "off" /\ Blank.len = 0 /\ Blank.ringing = FALSE
BY DEF Blank, Into

LEMMA EmptiedOwes ==
  ASSUME DefinerKnown, NEW l \in Loops
  PROVE  heard[l] # [st |-> "off", len |-> 0] \/ (heard[l].st = "off" /\ heard[l].len = 0)
OBVIOUS

LEMMA ResetAllDefiner ==
  ASSUME DefinerKnown, ResetAllLoops
  PROVE  DefinerStep
<1>1. grid' = NoGrid /\ heard' = heard
  BY DEF ResetAllLoops
<1>2. ASSUME NEW l \in Loops
      PROVE  LoopKnown(l)' /\ LoopDefines(l)'
  <2>1. /\ eng'[l] = Blank /\ intent'[l] = "idle" /\ ~stopDue'[l]
        /\ owed'[l] \/ (heard[l].st = "off" /\ heard[l].len = 0)
    BY EmptiedOwes DEF ResetAllLoops
  <2>2. LoopKnown(l)'
    BY <1>1, <2>1, BlankSays DEF LoopKnown, Known
  <2>3. LoopDefines(l)'
    BY <1>1, NoneAssumption DEF LoopDefines, NoGrid
  <2>4. QED
    BY <2>2, <2>3
<1>3. WaitsOnGrid' /\ ~grid'.est
  BY <1>1 DEF ResetAllLoops, WaitsOnGrid, DropGrid, NoGrid, DefinerKnown, Counts, IInv, TypeOK, Told
<1>4. QED
  BY <1>2, <1>3 DEF DefinerStep, TakesTheLength

LEMMA RestartDefiner ==
  ASSUME DefinerKnown, EngineRestarts
  PROVE  DefinerStep
<1>1. /\ UNCHANGED <<heard, intent, stopDue, tail, grid, settle>>
      /\ restarts'.total # 0
  BY DEF EngineRestarts, DefinerKnown, Counts, IInv, TypeOK
<1>2. ASSUME NEW l \in Loops
      PROVE  LoopKnown(l)' /\ LoopDefines(l)'
  <2>1. /\ eng'[l] = Blank
        /\ owed'[l] \/ (heard[l].st = "off" /\ heard[l].len = 0)
    BY EmptiedOwes DEF EngineRestarts
  <2>2. LoopKnown(l) /\ LoopDefines(l)
    BY DEF DefinerKnown
  <2>3. LoopKnown(l)'
    BY <1>1, <2>1, <2>2, BlankSays DEF LoopKnown, Known
  <2>4. LoopDefines(l)'
    BY <1>1, <2>1, <2>2, BlankSays DEF LoopDefines, Defines
  <2>5. QED
    BY <2>3, <2>4
<1>3. WaitsOnGrid'
  BY DEF EngineRestarts, WaitsOnGrid, Freeform
<1>4. QED
  BY <1>1, <1>2, <1>3 DEF DefinerStep, TakesTheLength

LEMMA StartedDefiner ==
  ASSUME DefinerKnown, OnLooperEngineStarted
  PROVE  DefinerStep
<1>1. /\ UNCHANGED <<eng, heard, intent, stopDue, owed, tail, grid, settle>>
      /\ restarts'.total = restarts.total
  BY DEF OnLooperEngineStarted, DefinerKnown, Counts, IInv, TypeOK
<1>2. \A l \in Loops : LoopKnown(l)' /\ LoopDefines(l)'
  BY <1>1 DEF DefinerKnown, LoopKnown, LoopDefines
<1>3. WaitsOnGrid'
  BY <1>1 DEF OnLooperEngineStarted, WaitsOnGrid, ApplyEstablishedGrid, Freeform
<1>4. QED
  BY <1>1, <1>2, <1>3 DEF DefinerStep, TakesTheLength

LEMMA InitDefiner == Init => DefinerKnown
<1> SUFFICES ASSUME Init PROVE DefinerKnown
  OBVIOUS
<1>1. /\ \A l \in Loops : /\ eng[l] = Blank /\ heard[l].st = "off" /\ heard[l].len = 0
                          /\ intent[l] = "none"
      /\ grid = NoGrid /\ told = Freeform
  BY DEF Init
<1>2. ASSUME NEW l \in Loops PROVE LoopKnown(l) /\ LoopDefines(l)
  BY <1>1, BlankSays, NoneAssumption DEF LoopKnown, LoopDefines, Known, Empties, NoGrid
<1>3. QED
  BY <1>1, <1>2, InitCounts DEF DefinerKnown, WaitsOnGrid, Freeform

LEMMA NextDefiner ==
  DefinerKnown /\ [Next]_vars => DefinerKnown' /\ TakesTheLength
<1> SUFFICES ASSUME DefinerKnown, [Next]_vars PROVE DefinerKnown' /\ TakesTheLength
  OBVIOUS
<1>1. Counts'
  BY NextCounts DEF DefinerKnown
<1>2. DefinerStep
  <2>1. ASSUME NEW l \in Loops,
               \/ OnPadDown(l) \/ OnPadUp(l) \/ PollHold(l) \/ Boundary(l)
               \/ SyncFromSl(l) \/ SyncLoopLen(l) \/ PollTail(l)
        PROVE  DefinerStep
    BY <2>1, PadDownDefiner, PadUpDefiner, PollHoldDefiner, BoundaryDefiner,
       SyncFromSlDefiner, SyncLoopLenDefiner, PollTailDefiner
  <2>2. CASE StopAllLoops \/ SettleStopAll \/ ResetAllLoops
    BY <2>2, StopAllDefiner, SettleDefiner, ResetAllDefiner
  <2>3. CASE EngineRestarts \/ OnLooperEngineStarted
    BY <2>3, RestartDefiner, StartedDefiner
  <2>4. CASE UNCHANGED vars
    <3>1. /\ WaitsOnGrid' /\ TakesTheLength
          /\ \A l \in Loops : LoopKnown(l)' /\ LoopDefines(l)'
      BY <2>4 DEF vars, DefinerKnown, WaitsOnGrid, LoopKnown, LoopDefines, TakesTheLength
    <3>2. QED
      BY <3>1 DEF DefinerStep
  <2>5. QED
    BY <2>1, <2>2, <2>3, <2>4 DEF Next
<1>3. QED
  BY <1>1, <1>2 DEF DefinerStep, DefinerKnown

-----------------------------------------------------------------------------
(* The theorems. *)

\* The inductive invariant holds in every state of every behaviour.
THEOREM Invariance == Spec => []IInv
<1>1. QED
  BY InitIInv, NextKeeps, PTL DEF Spec

\* The variables keep their types, with any number of loops and lengths.
THEOREM Typing == Spec => []TypeOK
<1>1. IInv => TypeOK
  BY DEF IInv
<1>2. QED
  BY <1>1, Invariance, PTL

\* A take that has landed, its state and its length reported in either order, is
\* no longer waited for, so the next take may define the grid; with any loops,
\* restarts, and either reading of `record` on an armed loop.
THEOREM LandedTakesDefine == Spec => []LandedTakeDefines
<1>1. IInv => LandedTakeDefines
  <2> SUFFICES ASSUME IInv, NEW l \in Loops, Current(l), eng[l].st = "play"
               PROVE  grid.pending # l
    BY DEF LandedTakeDefines
  <2>1. heard[l].st = "play" /\ heard[l].len # 0
    BY DEF IInv, AudioHasLength, Sound, Current
  <2>2. QED
    BY <2>1 DEF IInv, RearmedIsOwed
<1>2. QED
  BY <1>1, Invariance, PTL

\* Whatever the player does and however the reports interleave, the engine counts
\* the bench's cycle from the bench's downbeat, and its loops wait for the bar
\* exactly when there is a grid.
THEOREM EngineKeepsTheGrid == Spec => []EngineKnowsGrid
<1>1. QED
  BY InitKnows, KnowsKeeps, Invariance, PTL DEF Spec

\* A grid is dropped only when no loop holds audio the bench has heard of, or by
\* clearing every loop.
THEOREM GridDropsWhenEmpty == Spec => DropsWhenEmpty
<1>1. Counts /\ [Next]_vars =>
        [grid.est /\ ~grid'.est =>
           \A l \in Loops : heard'[l].st = "off" \/ eng'[l].st = "off"]_vars
  BY NextCounts
<1>2. QED
  BY <1>1, InitCounts, NextCounts, PTL DEF Spec, DropsWhenEmpty

\* Until the engine first comes back, the take the grid waits for exists: the
\* pending loop records, is about to, or holds audio, so the grid is not kept from
\* every later take; whatever is pressed, cancelled, cleared or stopped meanwhile.
THEOREM DefinersLive == Spec => []DefinerLives
<1>1. DefinerKnown => DefinerLives
  <2> SUFFICES ASSUME DefinerKnown, grid.pending # None, restarts.total = 0
               PROVE  eng[grid.pending].st # "off"
    BY DEF DefinerLives
  <2>1. grid.pending \in Loops /\ LoopDefines(grid.pending)
    BY DEF DefinerKnown, Counts, IInv, TypeOK, Grid
  <2>2. QED
    BY <2>1 DEF LoopDefines, Defines
<1>2. QED
  BY <1>1, InitDefiner, NextDefiner, PTL DEF Spec

\* The grid that is made is as long as the take that defines it, and no shorter than
\* a take may be, though the state and the length come in reports of their own and
\* the length heard may be that of an earlier take; the engine's restarts included.
THEOREM GridsAreTakes == Spec => GridIsTheTake
<1>1. DefinerKnown /\ [Next]_vars =>
        [grid'.est /\ ~grid.est =>
           eng[grid.pending].len = grid'.cycle /\ grid'.cycle >= MinDefining]_vars
  BY NextDefiner DEF TakesTheLength
<1>2. QED
  BY <1>1, InitDefiner, NextDefiner, PTL DEF Spec, GridIsTheTake

=============================================================================
