------------------------ MODULE SlotRuntime_proofs --------------------------
(***************************************************************************)
(* Proofs about SlotRuntime, for any tracks, slots and bounds: whatever the *)
(* player's haste, its bookkeeping invariants and that nothing starts by    *)
(* itself after Stop All; with a patient player, that the buffer, the files *)
(* and the surface agree on whose take they hold.                           *)
(***************************************************************************)
EXTENDS SlotRuntime, TLAPS

-----------------------------------------------------------------------------
(* The inductive invariant, one column at a time.                          *)

\* A save is in flight only for an unsaved take, what landed is a recording, and
\* a clean slot has its file.
RowOK(row) ==
  \A s \in Slots : /\ row[s].job # "none" => row[s].slot = "dirty"
                   /\ row[s].job = "landed" => row[s].saving.id # 0
                   /\ row[s].slot = "clean" => row[s].clip.id # 0

ParkedOK(c, row) == c.parked # NoPress => row[c.parked.flush].job # "none"

QueueOK(c, row) ==
  /\ c.gridWait => c.deferred # None
  /\ c.deferred # None => c.pending.kind # "none" /\ row[c.deferred].clip.id # 0
  /\ c.pending.kind # "none" => c.pending.to # None /\ row[c.pending.to].slot # "empty"

Typed(c, row, e) == c \in Column /\ row \in [Slots -> Cell] /\ e \in Engine

Good(c, row, e) == Typed(c, row, e) /\ RowOK(row) /\ ParkedOK(c, row) /\ QueueOK(c, row)

\* A plan still to be carried out is for a clip that is still there.
PlanOK(p, row) == /\ p # NoPlan => p \in Plan
                  /\ p.action \in {"launch", "switch"} => row[p.slot].slot # "empty"
                  /\ p.clear => p.action = "cancel"

\* A track nobody has asked anything of since Stop All has nothing queued.
Quiet(t) == ~asked[t] => /\ col[t].pending.kind = "none"
                         /\ col[t].deferred = None
                         /\ col[t].parked = NoPress
                         /\ scene[t] = NoPlan

IInv == /\ TypeOK
        /\ \A t \in Tracks : Good(col[t], cells[t], eng[t])
        /\ \A t \in Tracks : PlanOK(scene[t], cells[t])
        /\ \A t \in Tracks : Quiet(t)

-----------------------------------------------------------------------------
(* The planner and the engine's answers. *)

\* A press is planned for the slot pressed, and a launch only for a clip.
LEMMA PlanCellPressType ==
  ASSUME NEW row \in [Slots -> SlotState], NEW active \in Slots \cup {None},
         NEW pend \in Pending, NEW s \in Slots, NEW hold \in BOOLEAN,
         NEW p, p = PlanCellPress(row, active, pend, s, hold)
  PROVE  /\ p \in Plan
         /\ p.slot = s
         /\ p.action \in {"launch", "switch"} => row[s] # "empty"
         /\ p.clear => p.action = "cancel"
<1>1. NeedsFlush(row, active) \in BOOLEAN
  BY DEF NeedsFlush
<1>2. pend.from \in Slots \cup {None}
  BY DEF Pending
<1>3. CASE pend.kind # "none" /\ PendingOwner(pend) = s
  BY <1>2, <1>3 DEF PlanCellPress, Plan, Actions
<1>4. CASE ~(pend.kind # "none" /\ PendingOwner(pend) = s) /\ ActiveLane(row, active, s)
  BY <1>4 DEF PlanCellPress, Plan, Actions
<1>5. CASE ~(pend.kind # "none" /\ PendingOwner(pend) = s) /\ ~ActiveLane(row, active, s)
  <2>1. PlanCellPress(row, active, pend, s, hold) =
          LET here == [action |-> "noop", slot |-> s, from |-> None,
                       save |-> FALSE, clear |-> FALSE]
          IN IF hold
             THEN [here EXCEPT !.action = IF Occupied(row, s) THEN "clear" ELSE "noop"]
             ELSE IF ~Occupied(row, s)
             THEN [here EXCEPT !.action = "record", !.from = active,
                               !.save = NeedsFlush(row, active)]
             ELSE IF active = None
             THEN [here EXCEPT !.action = "launch"]
             ELSE [here EXCEPT !.action = "switch", !.from = active,
                               !.save = NeedsFlush(row, active)]
    BY <1>5 DEF PlanCellPress
  <2>2. CASE hold
    BY <2>1, <2>2 DEF Plan, Actions
  <2>3. CASE ~hold /\ ~Occupied(row, s)
    BY <2>1, <2>3, <1>1 DEF Plan, Actions
  <2>4. CASE ~hold /\ Occupied(row, s)
    BY <2>1, <2>4, <1>1 DEF Plan, Actions, Occupied
  <2>5. QED
    BY <2>2, <2>3, <2>4
<1>6. QED
  BY <1>3, <1>4, <1>5

\* What the engine does when it is hit is an engine state.
LEMMA RestedType == ASSUME NEW e \in Engine PROVE Rested(e) \in Audio
  BY DEF Rested, Engine, Audio

\* Each answer to `record` is an engine.
LEMMA HitRecordType == ASSUME NEW e \in Engine PROVE HitRecord(e) \subseteq Engine
<1>1. Rested(e) \in Audio /\ Silence \in Audio
  BY RestedType, MaxTakesAssumption DEF Silence, Audio
<1>2. CASE e.st = "waitstart"
  BY <1>2 DEF HitRecord, Engine, EngineState
<1>3. CASE e.st = "rec"
  BY <1>3 DEF HitRecord, Engine, EngineState
<1>4. CASE e.st = "waitstop"
  BY <1>4 DEF HitRecord, Engine, EngineState
<1>5. CASE e.st \notin {"waitstart", "rec", "waitstop"}
  <2>1. HitRecord(e) = {[st |-> "waitstart", buf |-> Rested(e)], [st |-> "rec", buf |-> Silence]}
    BY <1>5 DEF HitRecord
  <2>2. QED
    BY <2>1, <1>1 DEF Engine, EngineState
<1>6. QED
  BY <1>2, <1>3, <1>4, <1>5

\* Each answer to `overdub`, to a mute or pause and to a trigger is an engine.
LEMMA HitTypes ==
  ASSUME NEW e \in Engine
  PROVE  HitOverdub(e) \in Engine /\ HitQuiet(e) \in Engine /\ HitTrigger(e) \in Engine
<1>1. Rested(e) \in Audio
  BY RestedType
<1>2. HitOverdub(e) \in Engine
  BY <1>1 DEF HitOverdub, Engine, EngineState
<1>3. HitQuiet(e) \in Engine
  BY <1>1 DEF HitQuiet, Engine, EngineState
<1>4. HitTrigger(e) \in Engine
  BY <1>1 DEF HitTrigger, Engine, EngineState
<1>5. QED
  BY <1>2, <1>3, <1>4

\* An emptied loop and silence have the types of an engine and of audio.
LEMMA IdleEngineType == IdleEngine \in Engine /\ Silence \in Audio
  BY MaxTakesAssumption DEF IdleEngine, Silence, Engine, EngineState, Audio

\* Whatever TrackGesture sends for a tap leaves an engine.
LEMMA TapOutcomesType ==
  ASSUME NEW e \in Engine, NEW k \in EngineState, NEW cleared \in BOOLEAN
  PROVE  TapOutcomes(e, k, cleared) \subseteq Engine
<1>1. HitRecord(e) \subseteq Engine /\ MayRecord(e) \subseteq Engine
  BY HitRecordType DEF MayRecord
<1>2. {HitOverdub(e), HitQuiet(e), HitTrigger(e)} \subseteq Engine
  BY HitTypes
<1>3. QED
  BY <1>1, <1>2 DEF TapOutcomes, EngineState

-----------------------------------------------------------------------------
(* The ledger's answers.  No poll empties a slot, takes a clip away, or touches
   another slot; one that is pending leaves a save in flight.               *)

Answer(v, row, s) ==
  /\ v.status \in {"clean", "pending", "failed"}
  /\ v.row \in [Slots -> Cell]
  /\ RowOK(v.row)
  /\ \A u \in Slots : /\ row[u].slot # "empty" => v.row[u].slot # "empty"
                      /\ row[u].clip.id # 0 => v.row[u].clip.id # 0
                      /\ u # s => v.row[u] = row[u]
  /\ v.status = "pending" => v.row[s].job # "none"

\* SlotFlush.poll answers as above.
LEMMA PollsAnswer ==
  ASSUME NEW row \in [Slots -> Cell], RowOK(row), NEW s \in Slots,
         NEW v \in Polls(row, s)
  PROVE  Answer(v, row, s)
<1>1. row[s] \in Cell /\ Silence \in Audio
  BY IdleEngineType
<1>2. row[s].job \in {"none", "running", "landed"}
  BY <1>1 DEF Cell, JobState
<1>3. CASE row[s].job = "none"
  <2>1. v = [status |-> "clean", row |-> row]
    BY <1>3 DEF Polls
  <2>2. QED
    BY <2>1 DEF Answer
<1>4. CASE row[s].job = "landed"
  <2> DEFINE kept == [slot |-> IF row[s].slot = "empty" THEN "empty" ELSE "clean",
                      job |-> "none", saving |-> Silence, clip |-> row[s].saving]
  <2>1. v = [status |-> "clean", row |-> [row EXCEPT ![s] = kept]]
    BY <1>4 DEF Polls
  <2>2. kept \in Cell
    BY <1>1 DEF Cell, SlotState, JobState
  <2>3. row[s].saving.id # 0 /\ row[s].slot = "dirty"
    BY <1>4 DEF RowOK
  <2>4. v.row[s] = kept /\ v.status = "clean" /\ v.row \in [Slots -> Cell]
        /\ \A u \in Slots : u # s => v.row[u] = row[u]
    BY <2>1, <2>2
  <2>5. RowOK(v.row)
    BY <2>3, <2>4 DEF RowOK
  <2>6. QED
    BY <2>3, <2>4, <2>5 DEF Answer
<1>5. CASE row[s].job = "running"
  <2> DEFINE lost == [row[s] EXCEPT !.job = "none", !.saving = Silence]
  <2>1. CASE v = [status |-> "pending", row |-> row]
    BY <1>5, <2>1 DEF Answer
  <2>2. CASE v = [status |-> "failed", row |-> [row EXCEPT ![s] = lost]]
    <3>1. lost \in Cell
      BY <1>1 DEF Cell, JobState
    <3>2. v.row[s] = lost /\ v.status = "failed" /\ v.row \in [Slots -> Cell]
          /\ \A u \in Slots : u # s => v.row[u] = row[u]
      BY <2>2, <3>1
    <3>3. lost.job = "none" /\ lost.slot = row[s].slot /\ lost.clip = row[s].clip
      BY <1>1 DEF Cell
    <3> HIDE DEF lost
    <3>4. RowOK(v.row)
      BY <3>2, <3>3 DEF RowOK
    <3>5. QED
      BY <3>2, <3>3, <3>4 DEF Answer
  <2>3. QED
    BY <1>5, <2>1, <2>2 DEF Polls
<1>6. QED
  BY <1>2, <1>3, <1>4, <1>5

\* So does _ensure_flushed, which parks a press only for a slot bound to the buffer.
LEMMA EnsureFlushedAnswer ==
  ASSUME NEW row \in [Slots -> Cell], RowOK(row), NEW active \in Slots \cup {None},
         NEW audio \in Audio, NEW v \in EnsureFlushed(row, active, audio)
  PROVE  /\ v.status = "pending" => active # None
         /\ Answer(v, row, active)
<1>1. CASE ~NeedsFlush(Shape(row), active)
  <2>1. v = [status |-> "clean", row |-> row]
    BY <1>1 DEF EnsureFlushed
  <2>2. QED
    BY <2>1 DEF Answer
<1>2. CASE NeedsFlush(Shape(row), active)
  <2>1. active \in Slots /\ active # None /\ row[active].slot = "dirty"
    BY <1>2, NoneAssumption DEF NeedsFlush, Shape
  <2> DEFINE asking == [row[active] EXCEPT !.job = "running", !.saving = audio]
             begun == IF row[active].job # "none" THEN row
                      ELSE [row EXCEPT ![active] = asking]
  <2>2. v \in Polls(begun, active)
    BY <1>2 DEF EnsureFlushed
  <2>3. asking \in Cell /\ asking.job = "running" /\ asking.slot = "dirty"
        /\ asking.clip = row[active].clip
    BY <2>1 DEF Cell, JobState
  <2>4. /\ begun \in [Slots -> Cell]
        /\ begun[active] \in {row[active], asking}
        /\ \A u \in Slots : u # active => begun[u] = row[u]
    BY <2>1, <2>3
  <2>5. RowOK(begun)
    BY <2>1, <2>3, <2>4 DEF RowOK
  <2> HIDE DEF begun
  <2>6. Answer(v, begun, active)
    BY <2>1, <2>2, <2>4, <2>5, PollsAnswer
  <2>7. Answer(v, row, active)
    BY <2>1, <2>3, <2>4, <2>6 DEF Answer
  <2>8. QED
    BY <2>1, <2>7
<1>3. QED
  BY <1>1, <1>2

-----------------------------------------------------------------------------
(* Carrying a plan out leaves a good column good. *)

\* What is written to one track is good.
WritesGood(t) ==
  \E c \in Column, row \in [Slots -> Cell], e \in Engine :
    Good(c, row, e) /\ Write(t, c, row, e)

\* What a column and a cell are before anything happens has the right types.
LEMMA BlankTypes == /\ NoPress \in Parked /\ NoPending \in Pending
                    /\ BlankColumn \in Column
                    /\ \A clip \in Audio : BlankCell(clip) \in Cell
  BY IdleEngineType DEF NoPress, Parked, NoPending, Pending, PendingKinds, BlankColumn,
     Column, BlankCell, Cell, SlotState, JobState

\* Forgetting the parked press changes nothing else.
LEMMA UnparkedGood ==
  ASSUME NEW c, NEW row, NEW e, Typed(c, row, e), QueueOK(c, row)
  PROVE  /\ Unparked(c) \in Column /\ Unparked(c).parked = NoPress
         /\ QueueOK(Unparked(c), row) /\ ParkedOK(Unparked(c), row)
         /\ Unparked(c).active = c.active /\ Unparked(c).pending = c.pending
         /\ Unparked(c).deferred = c.deferred /\ Unparked(c).gridWait = c.gridWait
         /\ Unparked(c).cleared = c.cleared
<1>1. c \in Column
  BY DEF Typed
<1>2. /\ Unparked(c) \in Column /\ Unparked(c).parked = NoPress
      /\ Unparked(c).active = c.active /\ Unparked(c).pending = c.pending
      /\ Unparked(c).deferred = c.deferred /\ Unparked(c).gridWait = c.gridWait
      /\ Unparked(c).cleared = c.cleared
  BY <1>1, BlankTypes DEF Unparked, Column
<1>3. QED
  BY <1>2 DEF QueueOK, ParkedOK

\* apply_pending queues a launch of the slot pressed, drops what was queued or
\* leaves it.
LEMMA ApplyPendingType ==
  ASSUME NEW pend \in Pending, NEW p \in Plan
  PROVE  /\ ApplyPending(pend, p) \in Pending
         /\ p.action \in {"launch", "switch"}
            => ApplyPending(pend, p) = NoPending \/ ApplyPending(pend, p).to = p.slot
         /\ p.action \notin {"launch", "switch"} => ApplyPending(pend, p) \in {pend, NoPending}
<1>1. CASE p.clear
  BY <1>1, BlankTypes DEF ApplyPending
<1>2. CASE ~p.clear /\ p.action = "launch"
  BY <1>2 DEF ApplyPending, Pending, PendingKinds, Plan
<1>3. CASE ~p.clear /\ p.action = "switch"
  BY <1>3 DEF ApplyPending, Pending, PendingKinds, Plan
<1>4. CASE ~p.clear /\ p.action \notin {"launch", "switch"}
  BY <1>4 DEF ApplyPending
<1>5. QED
  BY <1>1, <1>2, <1>3, <1>4

\* The bookkeeping of a plan that was carried out keeps the queue consistent.
LEMMA DoneGood ==
  ASSUME NEW c, NEW row, NEW e, Typed(c, row, e), QueueOK(c, row),
         NEW p \in Plan, PlanOK(p, row), p.clear => c.deferred = None
  PROVE  /\ Done(c, p) \in Column /\ Done(c, p).parked = NoPress
         /\ Done(c, p).active = c.active /\ Done(c, p).cleared = c.cleared
         /\ Done(c, p).deferred = c.deferred /\ Done(c, p).gridWait = c.gridWait
         /\ Done(c, p).pending = ApplyPending(c.pending, p)
         /\ QueueOK(Done(c, p), row)
<1>1. Unparked(c) \in Column /\ Unparked(c).parked = NoPress
      /\ Unparked(c).active = c.active /\ Unparked(c).pending = c.pending
      /\ Unparked(c).deferred = c.deferred /\ Unparked(c).gridWait = c.gridWait
      /\ Unparked(c).cleared = c.cleared
  BY UnparkedGood
<1>2. c.pending \in Pending /\ c.deferred \in Slots \cup {None}
  BY DEF Typed, Column
<1>3. ApplyPending(c.pending, p) \in Pending
  BY <1>2, ApplyPendingType
<1>4. /\ Done(c, p) \in Column /\ Done(c, p).parked = NoPress
      /\ Done(c, p).active = c.active /\ Done(c, p).cleared = c.cleared
      /\ Done(c, p).deferred = c.deferred /\ Done(c, p).gridWait = c.gridWait
      /\ Done(c, p).pending = ApplyPending(c.pending, p)
  BY <1>1, <1>3 DEF Done, Column
<1>5. QueueOK(Done(c, p), row)
  <2>1. CASE p.clear
    <3>1. ApplyPending(c.pending, p) = NoPending
      BY <2>1 DEF ApplyPending
    <3>2. c.gridWait => c.deferred # None
      BY DEF QueueOK
    <3>3. QED
      BY <2>1, <3>1, <3>2, <1>4 DEF QueueOK, NoPending
  <2>2. CASE ~p.clear /\ p.action = "launch"
    <3>1. ApplyPending(c.pending, p) = [kind |-> "launch", to |-> p.slot, from |-> None]
      BY <2>2 DEF ApplyPending
    <3>2. p.slot \in Slots /\ row[p.slot].slot # "empty"
      BY <2>2 DEF PlanOK, Plan
    <3>3. QED
      BY <3>1, <3>2, <1>4, NoneAssumption DEF QueueOK
  <2>3. CASE ~p.clear /\ p.action = "switch"
    <3>1. ApplyPending(c.pending, p) = [kind |-> "switch", to |-> p.slot, from |-> p.from]
      BY <2>3 DEF ApplyPending
    <3>2. p.slot \in Slots /\ row[p.slot].slot # "empty"
      BY <2>3 DEF PlanOK, Plan
    <3>3. QED
      BY <3>1, <3>2, <1>4, NoneAssumption DEF QueueOK
  <2>4. CASE ~p.clear /\ p.action \notin {"launch", "switch"}
    <3>1. ApplyPending(c.pending, p) = c.pending
      BY <2>4 DEF ApplyPending
    <3>2. QED
      BY <3>1, <1>4 DEF QueueOK
  <2>5. QED
    BY <2>1, <2>2, <2>3, <2>4
<1>6. QED
  BY <1>4, <1>5

\* Dropping a held launch leaves nothing held and no bar line awaited.
LEMMA UnqueuedGood ==
  ASSUME NEW c, NEW row, NEW e, Typed(c, row, e), QueueOK(c, row)
  PROVE  /\ Unqueued(c) \in Column
         /\ Unqueued(c).deferred = None /\ ~Unqueued(c).gridWait
         /\ Unqueued(c).pending = c.pending /\ Unqueued(c).parked = c.parked
         /\ Unqueued(c).active = c.active
         /\ QueueOK(Unqueued(c), row)
<1>1. c \in Column
  BY DEF Typed
<1>2. /\ Unqueued(c) \in Column
      /\ Unqueued(c).deferred = None /\ Unqueued(c).gridWait = FALSE
      /\ Unqueued(c).pending = c.pending /\ Unqueued(c).parked = c.parked
      /\ Unqueued(c).active = c.active
  BY <1>1 DEF Unqueued, Column
<1>3. QED
  BY <1>2 DEF QueueOK

\* abandon leaves nothing queued, held or parked.
LEMMA AbandonedGood ==
  ASSUME NEW c, NEW row, NEW e, Typed(c, row, e), QueueOK(c, row)
  PROVE  /\ Abandoned(c) \in Column
         /\ Abandoned(c).deferred = None /\ Abandoned(c).gridWait = FALSE
         /\ Abandoned(c).pending = NoPending /\ Abandoned(c).parked = NoPress
         /\ Abandoned(c).active = c.active
<1>1. Unqueued(c) \in Column /\ Unqueued(c).deferred = None /\ ~Unqueued(c).gridWait
      /\ Unqueued(c).active = c.active
  BY UnqueuedGood
<1>2. QED
  BY <1>1, BlankTypes DEF Abandoned, Unparked, Column

\* Nothing queued, nothing parked: nothing to get wrong.
LEMMA NothingQueuedGood ==
  ASSUME NEW c, NEW row, c.parked = NoPress, c.deferred = None, c.gridWait = FALSE,
         c.pending = NoPending
  PROVE  QueueOK(c, row) /\ ParkedOK(c, row)
BY DEF QueueOK, ParkedOK, NoPending

-----------------------------------------------------------------------------
(* Each operation of a plan. *)

\* What the operations of a plan are given.
Ready(t, p, c, row) == /\ t \in Tracks
                       /\ p \in Plan /\ PlanOK(p, row)
                       /\ Typed(c, row, eng[t]) /\ RowOK(row) /\ QueueOK(c, row)

\* A refused plan leaves the column good.
LEMMA UnparkedWrites ==
  ASSUME NEW t, NEW p, NEW c, NEW row, NEW e \in Engine, Ready(t, p, c, row),
         Write(t, Unparked(c), row, e)
  PROVE  WritesGood(t)
<1>1. Typed(c, row, eng[t]) /\ QueueOK(c, row) /\ RowOK(row)
  BY DEF Ready
<1>2. Unparked(c) \in Column /\ QueueOK(Unparked(c), row) /\ ParkedOK(Unparked(c), row)
  BY <1>1, UnparkedGood
<1>3. Good(Unparked(c), row, e) /\ row \in [Slots -> Cell]
  BY <1>1, <1>2 DEF Good, Typed
<1>4. QED
  BY <1>2, <1>3 DEF WritesGood

\* A plan that only does its bookkeeping leaves the column good.
LEMMA DoneWrites ==
  ASSUME NEW t, NEW p, NEW c, NEW row, NEW e \in Engine, Ready(t, p, c, row),
         p.clear => c.deferred = None,
         Write(t, Done(c, p), row, e)
  PROVE  WritesGood(t)
<1>1. Typed(c, row, eng[t]) /\ QueueOK(c, row) /\ RowOK(row) /\ p \in Plan /\ PlanOK(p, row)
  BY DEF Ready
<1>2. Done(c, p) \in Column /\ QueueOK(Done(c, p), row) /\ Done(c, p).parked = NoPress
  BY <1>1, DoneGood
<1>3. Good(Done(c, p), row, e) /\ row \in [Slots -> Cell]
  BY <1>1, <1>2 DEF Good, Typed, ParkedOK
<1>4. QED
  BY <1>2, <1>3 DEF WritesGood

\* Launching a clip leaves an engine.
LEMMA LaunchedType ==
  ASSUME NEW e \in Engine, NEW c \in Column, NEW row \in [Slots -> Cell], NEW s \in Slots
  PROVE  Launched(e, c, row, s) \in Engine
<1>1. row[s].clip \in Audio
  BY DEF Cell
<1>2. HitLoad(row[s].clip) \in Engine
  BY <1>1 DEF HitLoad, Engine, EngineState
<1>3. QED
  BY <1>2, HitTypes DEF Launched

\* A tap handed to TrackGesture binds at most a slot: the column stays good.
LEMMA ForwardGood ==
  ASSUME NEW t, NEW p, NEW c, NEW row, Ready(t, p, c, row), known[t] \in EngineState,
         p.action = "forward", Forward(t, p, c, row)
  PROVE  WritesGood(t)
<1>1. Typed(c, row, eng[t]) /\ QueueOK(c, row) /\ RowOK(row) /\ p \in Plan /\ PlanOK(p, row)
  BY DEF Ready
<1>2. ~p.clear
  BY <1>1 DEF PlanOK
<1> DEFINE d == Done(c, p)
           bound == IF c.active = None THEN p.slot ELSE c.active
<1>3. /\ d \in Column /\ QueueOK(d, row) /\ d.parked = NoPress
  BY <1>1, <1>2, DoneGood
<1>4. bound \in Slots \cup {None} /\ c.cleared \in BOOLEAN /\ eng[t] \in Engine
      /\ row \in [Slots -> Cell]
  BY <1>1 DEF Typed, Column, Plan
<1> HIDE DEF d, bound
<1>5. PICK e \in TapOutcomes(eng[t], known[t], c.cleared) :
        Write(t, [d EXCEPT !.active = bound, !.cleared = @ /\ e = eng[t]], row, e)
  BY DEF Forward, d, bound
<1>6. e \in Engine
  BY <1>4, <1>5, TapOutcomesType
<1> DEFINE f == [d EXCEPT !.active = bound, !.cleared = @ /\ e = eng[t]]
<1>7. /\ f \in Column /\ f.parked = NoPress /\ f.deferred = d.deferred
      /\ f.gridWait = d.gridWait /\ f.pending = d.pending
  BY <1>3, <1>4 DEF Column
<1> HIDE DEF f
<1>8. QueueOK(f, row) /\ ParkedOK(f, row)
  BY <1>3, <1>7 DEF QueueOK, ParkedOK
<1>9. Good(f, row, e)
  BY <1>1, <1>4, <1>6, <1>7, <1>8 DEF Good, Typed
<1>10. QED
  BY <1>4, <1>5, <1>6, <1>7, <1>9 DEF WritesGood, f

\* A take armed on a new slot leaves the column good.
LEMMA RecordGood ==
  ASSUME NEW t, NEW p, NEW c, NEW row, Ready(t, p, c, row),
         p.action = "record", Record(t, p, c, row)
  PROVE  WritesGood(t)
<1>1. Typed(c, row, eng[t]) /\ QueueOK(c, row) /\ RowOK(row) /\ p \in Plan /\ PlanOK(p, row)
  BY DEF Ready
<1>2. ~p.clear
  BY <1>1 DEF PlanOK
<1> DEFINE d == Done(c, p)
           start == IF TakesOver(p, c, row) /\ known[t] \notin ActivePlay
                    THEN IdleEngine ELSE eng[t]
<1>3. /\ d \in Column /\ QueueOK(d, row) /\ d.parked = NoPress
  BY <1>1, <1>2, DoneGood
<1>4. p.slot \in Slots /\ eng[t] \in Engine /\ row \in [Slots -> Cell]
  BY <1>1 DEF Typed, Plan
<1>5. start \in Engine
  BY <1>4, IdleEngineType
<1> HIDE DEF d, start
<1>6. PICK e \in HitRecord(start) \cup (IF "bounce" \in Hurry THEN {start} ELSE {}) :
        Write(t, [d EXCEPT !.active = p.slot, !.cleared = Unheard(t) /\ e = start], row, e)
  BY DEF Record, d, start
<1>7. e \in Engine
  BY <1>5, <1>6, HitRecordType
<1> DEFINE f == [d EXCEPT !.active = p.slot, !.cleared = Unheard(t) /\ e = start]
<1>8. /\ f \in Column /\ f.parked = NoPress /\ f.deferred = d.deferred
      /\ f.gridWait = d.gridWait /\ f.pending = d.pending
  BY <1>3, <1>4 DEF Column, Unheard
<1> HIDE DEF f
<1>9. QueueOK(f, row) /\ ParkedOK(f, row)
  BY <1>3, <1>8 DEF QueueOK, ParkedOK
<1>10. Good(f, row, e)
  BY <1>1, <1>4, <1>7, <1>8, <1>9 DEF Good, Typed
<1>11. QED
  BY <1>4, <1>6, <1>7, <1>8, <1>10 DEF WritesGood, f

\* A launch that is held is for a clip that exists.
LEMMA DeferLaunchGood ==
  ASSUME NEW t, NEW p, NEW c, NEW row, Ready(t, p, c, row),
         p.action \in {"launch", "switch"}, DeferLaunch(t, p, c, row)
  PROVE  WritesGood(t)
<1>1. Typed(c, row, eng[t]) /\ QueueOK(c, row) /\ RowOK(row) /\ p \in Plan /\ PlanOK(p, row)
  BY DEF Ready
<1>2. ~p.clear
  BY <1>1 DEF PlanOK
<1>3. eng[t] \in Engine /\ row \in [Slots -> Cell] /\ c \in Column /\ p.slot \in Slots
  BY <1>1 DEF Typed, Plan
<1>4. CASE ~HasClip(row[p.slot])
  <2>1. Write(t, Unparked(c), row, eng[t])
    BY <1>4 DEF DeferLaunch
  <2>2. QED
    BY <2>1, <1>3, UnparkedWrites
<1>5. CASE HasClip(row[p.slot])
  <2> DEFINE d == Done(c, p)
  <2>1. /\ d \in Column /\ QueueOK(d, row) /\ d.parked = NoPress
        /\ d.pending = ApplyPending(c.pending, p)
    BY <1>1, <1>2, DoneGood
  <2>2. d.pending.kind # "none" /\ d.pending.to # None /\ row[d.pending.to].slot # "empty"
    <3>1. CASE p.action = "launch"
      <4>1. d.pending = [kind |-> "launch", to |-> p.slot, from |-> None]
        BY <2>1, <3>1, <1>2 DEF ApplyPending
      <4>2. QED
        BY <4>1, <3>1, <1>1, <1>3, NoneAssumption DEF PlanOK
    <3>2. CASE p.action = "switch"
      <4>1. d.pending = [kind |-> "switch", to |-> p.slot, from |-> p.from]
        BY <2>1, <3>2, <1>2 DEF ApplyPending
      <4>2. QED
        BY <4>1, <3>2, <1>1, <1>3, NoneAssumption DEF PlanOK
    <3>3. QED
      BY <3>1, <3>2
  <2> HIDE DEF d
  <2>3. PICK barKnown \in BOOLEAN :
          Write(t, [d EXCEPT !.deferred = p.slot, !.gridWait = c.gridWait \/ barKnown],
                row, eng[t])
    BY <1>5 DEF DeferLaunch, d
  <2> DEFINE f == [d EXCEPT !.deferred = p.slot, !.gridWait = c.gridWait \/ barKnown]
  <2>4. /\ f \in Column /\ f.parked = NoPress /\ f.deferred = p.slot
        /\ f.pending = d.pending
    BY <2>1, <1>3 DEF Column
  <2> HIDE DEF f
  <2>5. QueueOK(f, row) /\ ParkedOK(f, row)
    BY <2>2, <2>4, <1>3, <1>5, NoneAssumption DEF QueueOK, ParkedOK, HasClip
  <2>6. Good(f, row, eng[t])
    BY <1>1, <1>3, <2>4, <2>5 DEF Good, Typed
  <2>7. QED
    BY <1>3, <2>3, <2>4, <2>6 DEF WritesGood, f
<1>6. QED
  BY <1>4, <1>5

\* A launch or a switch, now or held, leaves the column good.
LEMMA LaunchGood ==
  ASSUME NEW t, NEW p, NEW c, NEW row, Ready(t, p, c, row),
         p.action \in {"launch", "switch"}, Launch(t, p, c, row)
  PROVE  WritesGood(t)
<1>1. eng[t] \in Engine /\ row \in [Slots -> Cell] /\ c \in Column /\ p.slot \in Slots
      /\ ~p.clear
  BY DEF Ready, Typed, Plan, PlanOK
<1>2. CASE DeferLaunch(t, p, c, row)
  BY <1>2, DeferLaunchGood
<1>3. CASE LaunchNow(t, p, c, row)
  <2>1. CASE CanLaunch(c, row, p.slot)
    BY <1>1, <1>3, <2>1, LaunchedType, DoneWrites DEF LaunchNow
  <2>2. CASE ~CanLaunch(c, row, p.slot)
    BY <1>1, <1>3, <2>2, UnparkedWrites DEF LaunchNow
  <2>3. QED
    BY <2>1, <2>2
<1>4. QED
  BY <1>2, <1>3 DEF Launch

\* Cancelling what is queued leaves the column good.
LEMMA CancelGood ==
  ASSUME NEW t, NEW p, NEW c, NEW row, Ready(t, p, c, row), Cancel(t, p, c, row)
  PROVE  WritesGood(t)
<1>1. Typed(c, row, eng[t]) /\ QueueOK(c, row) /\ RowOK(row) /\ p \in Plan /\ PlanOK(p, row)
      /\ eng[t] \in Engine
  BY DEF Ready, Typed
<1>2. /\ Unqueued(c) \in Column /\ Unqueued(c).deferred = None
      /\ QueueOK(Unqueued(c), row)
  BY <1>1, UnqueuedGood
<1>3. Ready(t, p, Unqueued(c), row)
  BY <1>1, <1>2 DEF Ready, Typed
<1> DEFINE e == IF c.pending.kind = "switch" THEN eng[t] ELSE HitQuiet(eng[t])
<1>4. e \in Engine
  BY <1>1, HitTypes
<1>5. Write(t, Done(Unqueued(c), p), row, e)
  BY DEF Cancel
<1> HIDE DEF e
<1>6. QED
  BY <1>2, <1>3, <1>4, <1>5, DoneWrites

\* Deleting a clip leaves the other cells alone.
LEMMA DeletedRow ==
  ASSUME NEW row \in [Slots -> Cell], RowOK(row), NEW s \in Slots
  PROVE  Deleted(row, s) \in [Slots -> Cell] /\ RowOK(Deleted(row, s))
<1>1. BlankCell(Silence) \in Cell
  BY BlankTypes, IdleEngineType
<1>2. BlankCell(Silence).job = "none" /\ BlankCell(Silence).slot = "empty"
  BY DEF BlankCell
<1>3. QED
  BY <1>1, <1>2 DEF Deleted, RowOK

\* A cleared cell takes everything queued for it along.
LEMMA ClearGood ==
  ASSUME NEW t, NEW p, NEW c, NEW row, Ready(t, p, c, row), Clear(t, p, c, row)
  PROVE  WritesGood(t)
<1>1. Typed(c, row, eng[t]) /\ QueueOK(c, row) /\ RowOK(row) /\ p.slot \in Slots
      /\ eng[t] \in Engine /\ c.active \in Slots \cup {None} /\ row \in [Slots -> Cell]
  BY DEF Ready, Typed, Plan, Column
<1> DEFINE active == IF c.active = p.slot THEN None ELSE c.active
           e == IF c.active = p.slot THEN IdleEngine ELSE eng[t]
           d == Deleted(row, p.slot)
           f == [Abandoned(c) EXCEPT !.active = active]
<1>2. active \in Slots \cup {None} /\ e \in Engine
  BY <1>1, IdleEngineType
<1>3. d \in [Slots -> Cell] /\ RowOK(d)
  BY <1>1, DeletedRow
<1>4. Write(t, f, d, e)
  BY DEF Clear
<1>5. /\ Abandoned(c) \in Column /\ Abandoned(c).deferred = None
      /\ Abandoned(c).gridWait = FALSE
      /\ Abandoned(c).pending = NoPending /\ Abandoned(c).parked = NoPress
  BY <1>1, AbandonedGood
<1> HIDE DEF active, e, d
<1>6. /\ f \in Column /\ f.deferred = None /\ f.gridWait = FALSE
      /\ f.pending = NoPending /\ f.parked = NoPress
  BY <1>2, <1>5 DEF Column
<1> HIDE DEF f
<1>7. Good(f, d, e)
  BY <1>2, <1>3, <1>6, NothingQueuedGood DEF Good, Typed
<1>8. QED
  BY <1>2, <1>3, <1>4, <1>6, <1>7 DEF WritesGood

\* Whatever the plan says to do leaves the column good.
LEMMA PerformGood ==
  ASSUME NEW t, NEW p, NEW c, NEW row, Ready(t, p, c, row), known[t] \in EngineState,
         Perform(t, p, c, row)
  PROVE  WritesGood(t)
<1>1. CASE p.action = "noop" /\ Write(t, Done(c, p), row, eng[t])
  BY <1>1, DoneWrites DEF Ready, Typed, PlanOK
<1>2. CASE p.action = "forward" /\ Forward(t, p, c, row)
  BY <1>2, ForwardGood
<1>3. CASE p.action = "record" /\ Record(t, p, c, row)
  BY <1>3, RecordGood
<1>4. CASE p.action = "cancel" /\ Cancel(t, p, c, row)
  BY <1>4, CancelGood
<1>5. CASE p.action = "clear" /\ Clear(t, p, c, row)
  BY <1>5, ClearGood
<1>6. CASE p.action \in {"launch", "switch"} /\ Launch(t, p, c, row)
  BY <1>6, LaunchGood
<1>7. QED
  BY <1>1, <1>2, <1>3, <1>4, <1>5, <1>6 DEF Perform

\* A plan that waits for a save, is refused or goes on leaves the column good.
LEMMA CarryOutGood ==
  ASSUME NEW t, NEW p, NEW c, NEW row, Ready(t, p, c, row), known[t] \in EngineState,
         CarryOut(t, p, c, row)
  PROVE  WritesGood(t)
<1>1. /\ Typed(c, row, eng[t]) /\ QueueOK(c, row) /\ RowOK(row) /\ p \in Plan
      /\ PlanOK(p, row) /\ t \in Tracks
  BY DEF Ready
<1>2. /\ c \in Column /\ row \in [Slots -> Cell] /\ eng[t] \in Engine
      /\ eng[t].buf \in Audio /\ c.active \in Slots \cup {None} /\ p.slot \in Slots
      /\ c.deferred \in Slots \cup {None} /\ c.pending.to \in Slots \cup {None}
  BY <1>1 DEF Typed, Engine, Column, Plan, Pending
<1> DEFINE answers == IF MustFlush(t, p, c, row)
                      THEN EnsureFlushed(row, c.active, eng[t].buf)
                      ELSE {[status |-> "clean", row |-> row]}
<1>3. PICK v \in answers :
        \/ /\ v.status = "pending"
           /\ Write(t, [c EXCEPT !.parked = [slot |-> p.slot, flush |-> c.active]],
                    v.row, eng[t])
        \/ /\ v.status = "failed"
           /\ Write(t, Unparked(c), v.row, eng[t])
        \/ /\ v.status = "clean"
           /\ Perform(t, p, c, v.row)
  BY DEF CarryOut
<1>4. Answer(v, row, c.active) /\ (v.status = "pending" => c.active # None)
  <2>1. CASE MustFlush(t, p, c, row)
    BY <1>1, <1>2, <1>3, <2>1, EnsureFlushedAnswer
  <2>2. CASE ~MustFlush(t, p, c, row)
    <3>1. v = [status |-> "clean", row |-> row]
      BY <1>3, <2>2
    <3>2. QED
      BY <1>1, <1>2, <3>1 DEF Answer
  <2>3. QED
    BY <2>1, <2>2
<1>5. QueueOK(c, v.row)
  BY <1>1, <1>2, <1>4 DEF QueueOK, Answer
<1>6. PlanOK(p, v.row)
  BY <1>1, <1>2, <1>4 DEF PlanOK, Answer
<1>7. Ready(t, p, c, v.row)
  BY <1>1, <1>2, <1>4, <1>5, <1>6 DEF Ready, Answer, Typed
<1>8. CASE v.status = "pending"
  <2> DEFINE d == [c EXCEPT !.parked = [slot |-> p.slot, flush |-> c.active]]
  <2>1. c.active \in Slots
    BY <1>2, <1>4, <1>8
  <2>2. /\ d \in Column /\ d.parked = [slot |-> p.slot, flush |-> c.active]
        /\ d.gridWait = c.gridWait /\ d.deferred = c.deferred /\ d.pending = c.pending
    BY <1>2, <2>1 DEF Column, Parked
  <2>3. Write(t, d, v.row, eng[t])
    BY <1>3, <1>8
  <2> HIDE DEF d
  <2>4. QueueOK(d, v.row)
    BY <1>5, <2>2 DEF QueueOK
  <2>5. ParkedOK(d, v.row)
    BY <1>4, <1>8, <2>2 DEF ParkedOK, Answer
  <2>6. Good(d, v.row, eng[t])
    BY <1>2, <1>4, <2>2, <2>4, <2>5 DEF Good, Typed, Answer
  <2>7. QED
    BY <1>2, <1>4, <2>2, <2>3, <2>6 DEF WritesGood, Answer
<1>9. CASE v.status = "failed"
  BY <1>2, <1>3, <1>7, <1>9, UnparkedWrites
<1>10. CASE v.status = "clean"
  BY <1>3, <1>7, <1>10, PerformGood
<1>11. QED
  BY <1>4, <1>8, <1>9, <1>10 DEF Answer

-----------------------------------------------------------------------------
(* Each step of the system preserves the inductive invariant. *)

\* What a good write to one track does to the state of all.
LEMMA WriteKeeps ==
  ASSUME IInv, NEW t \in Tracks, WritesGood(t)
  PROVE  /\ cells' \in [Tracks -> [Slots -> Cell]]
         /\ col' \in [Tracks -> Column]
         /\ eng' \in [Tracks -> Engine]
         /\ \A u \in Tracks : Good(col[u], cells[u], eng[u])'
         /\ \A u \in Tracks : u # t => col'[u] = col[u] /\ cells'[u] = cells[u]
<1>1. PICK c \in Column, row \in [Slots -> Cell], e \in Engine :
        Good(c, row, e) /\ Write(t, c, row, e)
  BY DEF WritesGood
<1>2. /\ cells \in [Tracks -> [Slots -> Cell]] /\ col \in [Tracks -> Column]
      /\ eng \in [Tracks -> Engine]
      /\ \A u \in Tracks : Good(col[u], cells[u], eng[u])
  BY DEF IInv, TypeOK
<1>3. /\ cells' = [cells EXCEPT ![t] = row] /\ col' = [col EXCEPT ![t] = c]
      /\ eng' = [eng EXCEPT ![t] = e]
  BY <1>1 DEF Write
<1>4. /\ cells' \in [Tracks -> [Slots -> Cell]] /\ col' \in [Tracks -> Column]
      /\ eng' \in [Tracks -> Engine]
      /\ cells'[t] = row /\ col'[t] = c /\ eng'[t] = e
      /\ \A u \in Tracks : u # t => /\ col'[u] = col[u] /\ cells'[u] = cells[u]
                                    /\ eng'[u] = eng[u]
  BY <1>2, <1>3
<1>5. \A u \in Tracks : Good(col'[u], cells'[u], eng'[u])
  BY <1>1, <1>2, <1>4
<1>6. QED
  BY <1>4, <1>5 DEF Good, Typed, RowOK, ParkedOK, QueueOK

\* The planner sees each slot as it is.
LEMMA ShapeType ==
  ASSUME NEW row \in [Slots -> Cell]
  PROVE  /\ Shape(row) \in [Slots -> SlotState]
         /\ \A s \in Slots : Shape(row)[s] = row[s].slot
BY DEF Shape, Cell

\* A plan made from the column as it is can be carried out on it.
LEMMA PlannedReady ==
  ASSUME NEW t \in Tracks, NEW c, NEW row, NEW s \in Slots, NEW hold \in BOOLEAN,
         Typed(c, row, eng[t]), RowOK(row), QueueOK(c, row),
         NEW p, p = PlanCellPress(Shape(row), c.active, c.pending, s, hold)
  PROVE  Ready(t, p, c, row)
<1>1. c.active \in Slots \cup {None} /\ c.pending \in Pending /\ row \in [Slots -> Cell]
  BY DEF Typed, Column
<1>2. Shape(row) \in [Slots -> SlotState] /\ Shape(row)[s] = row[s].slot
  BY <1>1, ShapeType
<1>3. p \in Plan /\ p.slot = s
      /\ (p.action \in {"launch", "switch"} => Shape(row)[s] # "empty")
      /\ (p.clear => p.action = "cancel")
  BY <1>1, <1>2, PlanCellPressType
<1>4. PlanOK(p, row)
  BY <1>2, <1>3 DEF PlanOK
<1>5. QED
  BY <1>3, <1>4 DEF Ready

\* No plan is no trouble.
LEMMA NoPlanOK == ASSUME NEW row PROVE PlanOK(NoPlan, row)
  BY DEF PlanOK, NoPlan

\* The player presses a pad.
LEMMA PressKeeps ==
  ASSUME IInv, NEW t \in Tracks, NEW s \in Slots, NEW hold \in BOOLEAN, Press(t, s, hold)
  PROVE  IInv'
<1>1. /\ TypeOK /\ Good(col[t], cells[t], eng[t]) /\ \A u \in Tracks : Quiet(u)
  BY DEF IInv
<1>2. known[t] \in EngineState /\ asked \in [Tracks -> BOOLEAN]
  BY <1>1 DEF TypeOK
<1>3. WritesGood(t)
  <2>1. Ready(t, PlanCellPress(Shape(cells[t]), col[t].active, col[t].pending, s, hold),
              col[t], cells[t])
    BY <1>1, PlannedReady DEF Good
  <2>2. QED
    BY <1>2, <2>1, CarryOutGood DEF Press
<1>4. /\ cells' \in [Tracks -> [Slots -> Cell]] /\ col' \in [Tracks -> Column]
      /\ eng' \in [Tracks -> Engine] /\ \A u \in Tracks : Good(col[u], cells[u], eng[u])'
      /\ \A u \in Tracks : u # t => col'[u] = col[u] /\ cells'[u] = cells[u]
  BY <1>3, WriteKeeps
<1>5. /\ asked' = [asked EXCEPT ![t] = TRUE] /\ UNCHANGED <<scene, heard, takes, own>>
      /\ MainIdle
  BY DEF Press
<1>6. TypeOK'
  BY <1>1, <1>4, <1>5 DEF TypeOK, heard
<1>7. \A u \in Tracks : PlanOK(scene[u], cells[u])'
  BY <1>5, NoPlanOK DEF MainIdle
<1>8. \A u \in Tracks : Quiet(u)'
  BY <1>1, <1>2, <1>4, <1>5 DEF Quiet
<1>9. QED
  BY <1>4, <1>6, <1>7, <1>8 DEF IInv

\* A step that writes one track while the main loop is between scene plans.
LEMMA IdleWriteKeeps ==
  ASSUME IInv, NEW t \in Tracks, WritesGood(t), MainIdle,
         UNCHANGED <<scene, heard, takes, own>>, asked' \in [Tracks -> BOOLEAN],
         \A u \in Tracks : u # t => asked'[u] = asked[u],
         Quiet(t)'
  PROVE  IInv'
<1>1. TypeOK /\ \A u \in Tracks : Quiet(u)
  BY DEF IInv
<1>2. /\ cells' \in [Tracks -> [Slots -> Cell]] /\ col' \in [Tracks -> Column]
      /\ eng' \in [Tracks -> Engine] /\ \A u \in Tracks : Good(col[u], cells[u], eng[u])'
      /\ \A u \in Tracks : u # t => col'[u] = col[u] /\ cells'[u] = cells[u]
  BY WriteKeeps
<1>3. TypeOK'
  BY <1>1, <1>2 DEF TypeOK, heard
<1>4. \A u \in Tracks : PlanOK(scene[u], cells[u])'
  BY NoPlanOK DEF MainIdle
<1>5. \A u \in Tracks : Quiet(u)'
  BY <1>1, <1>2 DEF Quiet
<1>6. QED
  BY <1>2, <1>3, <1>4, <1>5 DEF IInv

\* The long press of the active lane.
LEMMA HoldClearKeeps ==
  ASSUME IInv, NEW t \in Tracks, HoldClear(t)
  PROVE  IInv'
<1>1. TypeOK /\ Good(col[t], cells[t], eng[t])
  BY DEF IInv
<1> DEFINE c == col[t]
           s == c.active
           row == Deleted(cells[t], s)
           d == [Abandoned(c) EXCEPT !.active = None, !.cleared = Unheard(t)]
<1>2. /\ c \in Column /\ s \in Slots /\ cells[t] \in [Slots -> Cell] /\ RowOK(cells[t])
      /\ eng[t] \in Engine /\ Typed(c, cells[t], eng[t]) /\ QueueOK(c, cells[t])
  BY <1>1 DEF HoldClear, Good, Typed, Column
<1>3. PICK e \in IF known[t] = "waitstart" THEN HitRecord(eng[t]) ELSE {IdleEngine} :
        Write(t, d, row, e)
  BY DEF HoldClear
<1>4. e \in Engine
  BY <1>2, <1>3, HitRecordType, IdleEngineType
<1>5. row \in [Slots -> Cell] /\ RowOK(row)
  BY <1>2, DeletedRow
<1>6. /\ Abandoned(c) \in Column /\ Abandoned(c).deferred = None
      /\ Abandoned(c).gridWait = FALSE
      /\ Abandoned(c).pending = NoPending /\ Abandoned(c).parked = NoPress
  BY <1>2, AbandonedGood
<1>7. /\ d \in Column /\ d.deferred = None /\ d.gridWait = FALSE
      /\ d.pending = NoPending /\ d.parked = NoPress
  BY <1>6 DEF Column, Unheard
<1> HIDE DEF d, row
<1>8. Good(d, row, e)
  BY <1>4, <1>5, <1>7, NothingQueuedGood DEF Good, Typed
<1>9. WritesGood(t)
  BY <1>3, <1>4, <1>5, <1>7, <1>8 DEF WritesGood
<1>10. /\ MainIdle /\ UNCHANGED <<scene, heard, takes, own>> /\ asked' = asked
  BY DEF HoldClear, history
<1>11. asked \in [Tracks -> BOOLEAN] /\ col \in [Tracks -> Column]
  BY <1>1 DEF TypeOK
<1>12. col'[t] = d
  BY <1>3, <1>11 DEF Write
<1>13. Quiet(t)'
  BY <1>7, <1>10, <1>12 DEF Quiet, MainIdle, NoPending
<1>14. QED
  BY <1>9, <1>10, <1>11, <1>13, IdleWriteKeeps

\* A scene press plans its row.
LEMMA ScenePressKeeps ==
  ASSUME IInv, NEW s \in Slots, ScenePress(s)
  PROVE  IInv'
<1>1. TypeOK /\ \A t \in Tracks : Good(col[t], cells[t], eng[t]) /\ Quiet(t)
  BY DEF IInv
<1> DEFINE tracks == SceneTracks([t \in Tracks |-> Shape(cells[t])],
                                 [t \in Tracks |-> col[t].active],
                                 [t \in Tracks |-> known[t] \in ActivePlay], s)
           plan(t) == PlanCellPress(Shape(cells[t]), col[t].active, col[t].pending, s, FALSE)
<1>2. /\ scene' = [t \in Tracks |-> IF t \in tracks THEN plan(t) ELSE NoPlan]
      /\ asked' = [t \in Tracks |-> asked[t] \/ t \in tracks]
      /\ UNCHANGED <<cells, col, eng, heard, takes, own>>
  BY DEF ScenePress
<1> HIDE DEF tracks
<1>3. ASSUME NEW t \in Tracks
      PROVE  plan(t) \in Plan /\ PlanOK(plan(t), cells[t])
  <2>1. Ready(t, plan(t), col[t], cells[t])
    BY <1>1, PlannedReady DEF Good
  <2>2. QED
    BY <2>1 DEF Ready
<1> HIDE DEF plan
<1>4. TypeOK'
  <2>1. scene' \in [Tracks -> Plan \cup {NoPlan}]
    BY <1>2, <1>3
  <2>2. asked' \in [Tracks -> BOOLEAN]
    BY <1>2
  <2>3. QED
    BY <1>1, <1>2, <2>1, <2>2 DEF TypeOK, heard
<1>5. \A t \in Tracks : Good(col[t], cells[t], eng[t])'
  BY <1>1, <1>2 DEF Good, Typed, RowOK, ParkedOK, QueueOK
<1>6. \A t \in Tracks : PlanOK(scene[t], cells[t])'
  BY <1>2, <1>3, NoPlanOK
<1>7. \A t \in Tracks : Quiet(t)'
  <2> SUFFICES ASSUME NEW t \in Tracks, ~asked'[t]
               PROVE  /\ col[t].pending.kind = "none" /\ col[t].deferred = None
                      /\ col[t].parked = NoPress /\ scene'[t] = NoPlan
    BY <1>2 DEF Quiet
  <2>1. ~asked[t] /\ t \notin tracks
    BY <1>2
  <2>2. scene'[t] = NoPlan
    BY <1>2, <2>1
  <2>3. QED
    BY <1>1, <2>1, <2>2 DEF Quiet
<1>8. QED
  BY <1>4, <1>5, <1>6, <1>7 DEF IInv

\* A scene press carries one of its plans out, on what the column has become.
LEMMA SceneStepKeeps ==
  ASSUME IInv, NEW t \in Tracks, SceneStep(t)
  PROVE  IInv'
<1>1. /\ TypeOK /\ Good(col[t], cells[t], eng[t]) /\ PlanOK(scene[t], cells[t])
      /\ \A u \in Tracks : Quiet(u) /\ PlanOK(scene[u], cells[u])
  BY DEF IInv
<1>2. /\ scene[t] # NoPlan /\ CarryOut(t, scene[t], col[t], cells[t])
      /\ scene' = [scene EXCEPT ![t] = NoPlan] /\ UNCHANGED <<heard, history>>
  BY DEF SceneStep
<1>3. known[t] \in EngineState /\ scene \in [Tracks -> Plan \cup {NoPlan}]
  BY <1>1 DEF TypeOK
<1>4. Ready(t, scene[t], col[t], cells[t])
  BY <1>1, <1>2 DEF Ready, Good, PlanOK
<1>5. WritesGood(t)
  BY <1>2, <1>3, <1>4, CarryOutGood
<1>6. /\ cells' \in [Tracks -> [Slots -> Cell]] /\ col' \in [Tracks -> Column]
      /\ eng' \in [Tracks -> Engine] /\ \A u \in Tracks : Good(col[u], cells[u], eng[u])'
      /\ \A u \in Tracks : u # t => col'[u] = col[u] /\ cells'[u] = cells[u]
  BY <1>5, WriteKeeps
<1>7. scene' \in [Tracks -> Plan \cup {NoPlan}] /\ scene'[t] = NoPlan
      /\ \A u \in Tracks : u # t => scene'[u] = scene[u]
  BY <1>2, <1>3
<1>8. TypeOK'
  BY <1>1, <1>2, <1>6, <1>7 DEF TypeOK, heard, history
<1>9. \A u \in Tracks : PlanOK(scene'[u], cells'[u])
  BY <1>1, <1>6, <1>7, NoPlanOK
<1>10. \A u \in Tracks : Quiet(u)'
  <2>1. asked[t]
    BY <1>1, <1>2 DEF Quiet
  <2>2. QED
    BY <1>1, <1>2, <1>6, <1>7, <2>1 DEF Quiet, history
<1>11. QED
  BY <1>6, <1>8, <1>9, <1>10 DEF IInv, PlanOK

\* Stop All.
LEMMA StopAllKeeps == ASSUME IInv, StopAll PROVE IInv'
<1>1. TypeOK /\ \A t \in Tracks : Good(col[t], cells[t], eng[t])
  BY DEF IInv
<1>2. /\ MainIdle
      /\ eng' = [t \in Tracks |-> HitQuiet(eng[t])]
      /\ col' = [t \in Tracks |-> Abandoned(col[t])]
      /\ asked' = [t \in Tracks |-> FALSE]
      /\ UNCHANGED <<cells, scene, heard, takes, own>>
  BY DEF StopAll
<1>3. ASSUME NEW t \in Tracks
      PROVE  /\ eng'[t] \in Engine /\ col'[t] = Abandoned(col[t])
             /\ col'[t] \in Column /\ col'[t].deferred = None /\ col'[t].gridWait = FALSE
             /\ col'[t].pending = NoPending /\ col'[t].parked = NoPress
             /\ cells'[t] \in [Slots -> Cell] /\ RowOK(cells'[t])
  <2>1. Typed(col[t], cells[t], eng[t]) /\ QueueOK(col[t], cells[t]) /\ RowOK(cells[t])
        /\ eng[t] \in Engine /\ cells[t] \in [Slots -> Cell]
    BY <1>1 DEF Good, Typed
  <2>2. Abandoned(col[t]) \in Column
        /\ Abandoned(col[t]).deferred = None /\ Abandoned(col[t]).gridWait = FALSE
        /\ Abandoned(col[t]).pending = NoPending /\ Abandoned(col[t]).parked = NoPress
    BY <2>1, AbandonedGood
  <2>3. HitQuiet(eng[t]) \in Engine
    BY <2>1, HitTypes
  <2>4. QED
    BY <1>2, <2>1, <2>2, <2>3
<1>4. \A t \in Tracks : Good(col'[t], cells'[t], eng'[t])
  BY <1>3, NothingQueuedGood DEF Good, Typed
<1>5. TypeOK'
  <2>1. col' \in [Tracks -> Column] /\ eng' \in [Tracks -> Engine]
        /\ asked' \in [Tracks -> BOOLEAN]
    BY <1>2, <1>3
  <2>2. QED
    BY <1>1, <1>2, <2>1 DEF TypeOK, heard
<1>6. \A t \in Tracks : PlanOK(scene'[t], cells'[t])
  BY <1>2, NoPlanOK DEF MainIdle
<1>7. \A t \in Tracks : Quiet(t)'
  <2>1. NoPending.kind = "none"
    BY DEF NoPending
  <2>2. \A t \in Tracks : scene'[t] = NoPlan
    BY <1>2 DEF MainIdle
  <2>3. \A t \in Tracks : col'[t].pending.kind = "none" /\ col'[t].deferred = None
                           /\ col'[t].parked = NoPress
    BY <1>3, <2>1
  <2>4. QED
    BY <2>2, <2>3 DEF Quiet
<1>8. QED
  BY <1>4, <1>5, <1>6, <1>7 DEF IInv, PlanOK, Good, Typed, RowOK, ParkedOK, QueueOK

\* Clear All.
LEMMA ClearAllKeeps == ASSUME IInv, ClearAll PROVE IInv'
<1>1. TypeOK /\ \A t \in Tracks : Good(col[t], cells[t], eng[t])
  BY DEF IInv
<1>2. /\ MainIdle
      /\ eng' = [t \in Tracks |-> IdleEngine]
      /\ col' = [t \in Tracks |-> [BlankColumn EXCEPT !.cleared = Unheard(t)]]
      /\ cells' = [t \in Tracks |-> [s \in Slots |-> BlankCell(cells[t][s].clip)]]
      /\ lenSeen' = [t \in Tracks |-> 0]
      /\ UNCHANGED <<scene, known, elsewhere, history>>
  BY DEF ClearAll
<1>3. ASSUME NEW t \in Tracks
      PROVE  /\ col'[t] \in Column /\ col'[t].deferred = None /\ col'[t].gridWait = FALSE
             /\ col'[t].pending = NoPending /\ col'[t].parked = NoPress
  <2>1. col'[t] = [BlankColumn EXCEPT !.cleared = Unheard(t)]
    BY <1>2
  <2>2. BlankColumn \in Column /\ Unheard(t) \in BOOLEAN
    BY BlankTypes DEF Unheard
  <2>3. BlankColumn.deferred = None /\ BlankColumn.gridWait = FALSE
        /\ BlankColumn.pending = NoPending /\ BlankColumn.parked = NoPress
    BY DEF BlankColumn
  <2>4. QED
    BY <2>1, <2>2, <2>3 DEF Column
<1>4. ASSUME NEW t \in Tracks
      PROVE  cells'[t] \in [Slots -> Cell] /\ RowOK(cells'[t])
  <2>1. \A s \in Slots : cells[t][s].clip \in Audio
    BY <1>1 DEF Good, Typed, Cell
  <2>2. cells'[t] = [s \in Slots |-> BlankCell(cells[t][s].clip)]
    BY <1>2
  <2>3. \A s \in Slots : BlankCell(cells[t][s].clip) \in Cell
    BY <2>1, BlankTypes
  <2>4. \A s \in Slots : cells'[t][s].job = "none" /\ cells'[t][s].slot = "empty"
    BY <2>2 DEF BlankCell
  <2>5. QED
    BY <2>2, <2>3, <2>4 DEF RowOK
<1>5. \A t \in Tracks : Good(col'[t], cells'[t], eng'[t])
  BY <1>2, <1>3, <1>4, IdleEngineType, NothingQueuedGood DEF Good, Typed
<1>6. TypeOK'
  <2>1. cells' = [t \in Tracks |-> cells'[t]]
    BY <1>2
  <2>2. cells' \in [Tracks -> [Slots -> Cell]]
    BY <1>4, <2>1
  <2>3. col' = [t \in Tracks |-> col'[t]]
    BY <1>2
  <2>4. col' \in [Tracks -> Column]
    BY <1>3, <2>3
  <2>5. eng' \in [Tracks -> Engine] /\ lenSeen' \in [Tracks -> 0..MaxTakes]
    BY <1>2, IdleEngineType, MaxTakesAssumption
  <2>6. TypeOK
    BY DEF IInv
  <2>7. QED
    BY <1>2, <2>2, <2>4, <2>5, <2>6 DEF TypeOK, history
<1>7. \A t \in Tracks : PlanOK(scene'[t], cells'[t])
  BY <1>2, NoPlanOK DEF MainIdle
<1>8. \A t \in Tracks : Quiet(t)'
  <2>1. NoPending.kind = "none"
    BY DEF NoPending
  <2>2. \A t \in Tracks : scene'[t] = NoPlan
    BY <1>2 DEF MainIdle
  <2>3. \A t \in Tracks : col'[t].pending.kind = "none" /\ col'[t].deferred = None
                           /\ col'[t].parked = NoPress
    BY <1>3, <2>1
  <2>4. QED
    BY <2>2, <2>3 DEF Quiet
<1>9. QED
  BY <1>5, <1>6, <1>7, <1>8 DEF IInv, PlanOK, Good, Typed, RowOK, ParkedOK, QueueOK

\* resume_awaiting replays or refuses a parked press.
LEMMA ResumeKeeps == ASSUME IInv, NEW t \in Tracks, Resume(t) PROVE IInv'
<1>1. /\ TypeOK /\ Good(col[t], cells[t], eng[t]) /\ Quiet(t)
  BY DEF IInv
<1>2. /\ col[t] \in Column /\ cells[t] \in [Slots -> Cell] /\ eng[t] \in Engine
      /\ RowOK(cells[t]) /\ QueueOK(col[t], cells[t])
      /\ Typed(col[t], cells[t], eng[t])
      /\ col[t].deferred \in Slots \cup {None} /\ col[t].pending.to \in Slots \cup {None}
      /\ known[t] \in EngineState /\ asked \in [Tracks -> BOOLEAN]
  BY <1>1 DEF Good, Typed, TypeOK, Column, Pending
<1> DEFINE parked == col[t].parked
           c == Unparked(col[t])
<1>3. /\ MainIdle /\ parked # NoPress /\ UNCHANGED <<scene, heard, history>>
  BY DEF Resume
<1>4. parked.slot \in Slots /\ parked.flush \in Slots
  BY <1>2, <1>3 DEF Column, Parked
<1>5. PICK v \in Polls(cells[t], parked.flush) :
        \/ v.status = "failed" /\ Write(t, c, v.row, eng[t])
        \/ /\ v.status = "clean"
           /\ CarryOut(t, PlanCellPress(Shape(v.row), c.active, c.pending, parked.slot, FALSE),
                       c, v.row)
  BY DEF Resume
<1>6. Answer(v, cells[t], parked.flush)
  BY <1>2, <1>4, <1>5, PollsAnswer
<1>7. QueueOK(col[t], v.row) /\ Typed(col[t], v.row, eng[t]) /\ RowOK(v.row)
  BY <1>2, <1>6 DEF QueueOK, Answer, Typed
<1>8. /\ c \in Column /\ QueueOK(c, v.row) /\ ParkedOK(c, v.row)
  BY <1>7, UnparkedGood
<1>9. Typed(c, v.row, eng[t])
  BY <1>7, <1>8 DEF Typed
<1> HIDE DEF c
<1>10. WritesGood(t)
  <2>1. CASE v.status = "failed" /\ Write(t, c, v.row, eng[t])
    BY <1>7, <1>8, <1>9, <2>1 DEF WritesGood, Good, Typed
  <2>2. CASE CarryOut(t, PlanCellPress(Shape(v.row), c.active, c.pending, parked.slot, FALSE),
                      c, v.row)
    <3> DEFINE p == PlanCellPress(Shape(v.row), c.active, c.pending, parked.slot, FALSE)
    <3>1. Ready(t, p, c, v.row)
      BY <1>4, <1>7, <1>8, <1>9, PlannedReady
    <3>2. CarryOut(t, p, c, v.row)
      BY <2>2
    <3> HIDE DEF p
    <3>3. QED
      BY <1>2, <3>1, <3>2, CarryOutGood
  <2>3. QED
    BY <1>5, <2>1, <2>2
<1>11. asked[t]
  BY <1>1, <1>3 DEF Quiet
<1>12. UNCHANGED <<scene, heard, takes, own>> /\ asked' = asked
  BY <1>3 DEF history
<1>13. QED
  BY <1>2, <1>3, <1>10, <1>11, <1>12, IdleWriteKeeps DEF Quiet

-----------------------------------------------------------------------------
(* Landing and settling what is queued never queues anything. *)

Calm(c, d) == /\ c.pending.kind = "none" => d.pending.kind = "none"
              /\ c.deferred = None => d.deferred = None
              /\ c.parked = NoPress => d.parked = NoPress

CalmWrite(t, c, row) ==
  \E d \in Column, e \in Engine : Good(d, row, e) /\ Calm(c, d) /\ Write(t, d, row, e)

\* land_pending.
LEMMA LandPendingCalm ==
  ASSUME NEW t \in Tracks, NEW c, NEW row, Good(c, row, eng[t]), LandPending(t, c, row)
  PROVE  CalmWrite(t, c, row)
<1>1. /\ c \in Column /\ row \in [Slots -> Cell] /\ eng[t] \in Engine
      /\ Typed(c, row, eng[t]) /\ RowOK(row) /\ QueueOK(c, row) /\ ParkedOK(c, row)
      /\ c.deferred \in Slots \cup {None} /\ c.active \in Slots \cup {None}
      /\ c.pending.to \in Slots \cup {None}
  BY DEF Good, Typed, Column, Pending
<1>2. /\ Unqueued(c) \in Column /\ Unqueued(c).deferred = None /\ ~Unqueued(c).gridWait
      /\ Unqueued(c).parked = c.parked
  BY <1>1, UnqueuedGood
<1>3. ActiveAtBoundary(c.active, c.pending) \in Slots \cup {None}
  BY <1>1 DEF ActiveAtBoundary
<1> DEFINE landed == Resolved(c)
           dropped == [Unqueued(c) EXCEPT !.pending = NoPending]
           e == IF c.deferred = None THEN eng[t] ELSE Launched(eng[t], c, row, c.deferred)
<1>4. /\ landed \in Column /\ landed.deferred = None /\ ~landed.gridWait
      /\ landed.parked = c.parked /\ landed.pending = NoPending
  BY <1>2, <1>3, BlankTypes DEF Resolved, Column
<1>5. /\ dropped \in Column /\ dropped.deferred = None /\ ~dropped.gridWait
      /\ dropped.parked = c.parked /\ dropped.pending = NoPending
  BY <1>2, BlankTypes DEF Column
<1>6. e \in Engine
  BY <1>1, LaunchedType
<1>7. \/ Write(t, landed, row, e)
      \/ Write(t, dropped, row, eng[t])
  BY DEF LandPending
<1> HIDE DEF landed, dropped, e
<1>8. ASSUME NEW d \in {landed, dropped}, NEW f \in Engine
      PROVE  Good(d, row, f) /\ Calm(c, d)
  <2>1. d \in Column /\ d.deferred = None /\ ~d.gridWait /\ d.parked = c.parked
        /\ d.pending.kind = "none"
    BY <1>4, <1>5 DEF NoPending
  <2>2. QueueOK(d, row) /\ ParkedOK(d, row) /\ Calm(c, d)
    BY <1>1, <2>1 DEF QueueOK, ParkedOK, Calm
  <2>3. QED
    BY <1>1, <2>1, <2>2 DEF Good, Typed
<1>9. QED
  BY <1>1, <1>4, <1>5, <1>6, <1>7, <1>8 DEF CalmWrite

\* _maybe_resolve.
LEMMA MaybeResolveCalm ==
  ASSUME NEW t \in Tracks, NEW c, NEW row, NEW k, NEW e \in Engine,
         Good(c, row, eng[t]), MaybeResolve(t, c, row, k, e)
  PROVE  CalmWrite(t, c, row)
<1>1. /\ c \in Column /\ row \in [Slots -> Cell] /\ Typed(c, row, eng[t])
      /\ RowOK(row) /\ QueueOK(c, row) /\ ParkedOK(c, row)
  BY DEF Good, Typed
<1>2. CASE Write(t, c, row, e)
  <2>1. Good(c, row, e) /\ Calm(c, c)
    BY <1>1 DEF Good, Typed, Calm
  <2>2. QED
    BY <1>1, <1>2, <2>1 DEF CalmWrite
<1>3. CASE Write(t, Abandoned(c), row, e)
  <2>1. /\ Abandoned(c) \in Column
        /\ Abandoned(c).deferred = None /\ Abandoned(c).gridWait = FALSE
        /\ Abandoned(c).pending = NoPending /\ Abandoned(c).parked = NoPress
    BY <1>1, AbandonedGood
  <2>2. Good(Abandoned(c), row, e)
    BY <1>1, <2>1, NothingQueuedGood DEF Good, Typed
  <2>3. Calm(c, Abandoned(c))
    BY <2>1 DEF Calm, NoPending
  <2>4. QED
    BY <1>3, <2>1, <2>2, <2>3 DEF CalmWrite
<1>4. CASE LandPending(t, c, row)
  BY <1>4, LandPendingCalm
<1>5. QED
  BY <1>2, <1>3, <1>4 DEF MaybeResolve

\* A calm write to one column, whose cells have at most gained a clip.
LEMMA CalmKeeps ==
  ASSUME IInv, NEW t \in Tracks, NEW c, NEW row \in [Slots -> Cell], CalmWrite(t, c, row),
         Calm(col[t], c),
         \A s \in Slots : cells[t][s].slot # "empty" => row[s].slot # "empty",
         UNCHANGED <<scene, takes, own, asked>>,
         known' \in [Tracks -> EngineState], lenSeen' \in [Tracks -> 0..MaxTakes],
         elsewhere' \in BOOLEAN
  PROVE  IInv'
<1>1. /\ TypeOK /\ \A u \in Tracks : Quiet(u) /\ PlanOK(scene[u], cells[u])
  BY DEF IInv
<1>2. PICK d \in Column, e \in Engine : Good(d, row, e) /\ Calm(c, d) /\ Write(t, d, row, e)
  BY DEF CalmWrite
<1>3. WritesGood(t)
  BY <1>2 DEF WritesGood
<1>4. /\ cells' \in [Tracks -> [Slots -> Cell]] /\ col' \in [Tracks -> Column]
      /\ eng' \in [Tracks -> Engine] /\ \A u \in Tracks : Good(col[u], cells[u], eng[u])'
      /\ \A u \in Tracks : u # t => col'[u] = col[u] /\ cells'[u] = cells[u]
  BY <1>3, WriteKeeps
<1>5. cells'[t] = row /\ col'[t] = d
  BY <1>1, <1>2 DEF Write, TypeOK
<1>6. TypeOK'
  BY <1>1, <1>4 DEF TypeOK
<1>7. \A u \in Tracks : PlanOK(scene'[u], cells'[u])
  <2>1. scene[t] \in Plan \cup {NoPlan}
    BY <1>1 DEF TypeOK
  <2>2. PlanOK(scene[t], row)
    <3>1. CASE scene[t] = NoPlan
      BY <3>1, NoPlanOK
    <3>2. CASE scene[t] # NoPlan
      <4>1. scene[t] \in Plan /\ scene[t].slot \in Slots
        BY <2>1, <3>2 DEF Plan
      <4>2. QED
        BY <1>1, <4>1 DEF PlanOK
    <3>3. QED
      BY <3>1, <3>2
  <2>3. QED
    BY <1>1, <1>4, <1>5, <2>2
<1>8. \A u \in Tracks : Quiet(u)'
  BY <1>1, <1>2, <1>4, <1>5 DEF Quiet, Calm
<1>9. QED
  BY <1>4, <1>6, <1>7, <1>8 DEF IInv, PlanOK

\* The idle polls and the loop wrap.
LEMMA PollsKeep ==
  ASSUME IInv, NEW t \in Tracks, PollGridWait(t) \/ PollPending(t) \/ Wrap(t)
  PROVE  IInv'
<1>1. TypeOK /\ Good(col[t], cells[t], eng[t]) /\ eng[t] \in Engine
      /\ cells[t] \in [Slots -> Cell]
  BY DEF IInv, TypeOK
<1>2. CalmWrite(t, col[t], cells[t])
  <2>1. CASE PollGridWait(t) \/ Wrap(t)
    BY <1>1, <2>1, LandPendingCalm DEF PollGridWait, Wrap
  <2>2. CASE PollPending(t)
    BY <1>1, <2>2, MaybeResolveCalm DEF PollPending
  <2>3. QED
    BY <2>1, <2>2
<1>3. UNCHANGED <<scene, heard, history>>
  BY DEF PollGridWait, PollPending, Wrap
<1>4. Calm(col[t], col[t])
  BY DEF Calm
<1>5. known' = known /\ lenSeen' = lenSeen /\ elsewhere' = elsewhere
      /\ UNCHANGED <<scene, takes, own, asked>>
  BY <1>3 DEF heard, history
<1>6. known \in [Tracks -> EngineState] /\ lenSeen \in [Tracks -> 0..MaxTakes]
      /\ elsewhere \in BOOLEAN
  BY <1>1 DEF TypeOK
<1>7. QED
  BY <1>1, <1>2, <1>4, <1>5, <1>6, CalmKeeps

\* Registering a take only ever turns an empty slot dirty: it drops no save that
\* a parked press is waiting for.
LEMMA RegisteredGood ==
  ASSUME NEW t \in Tracks, NEW k, NEW len, NEW c,
         Typed(col[t], cells[t], eng[t]), RowOK(cells[t]),
         c \in Column, ParkedOK(c, cells[t]), QueueOK(c, cells[t])
  PROVE  LET row == Registered(t, k, len)
         IN /\ row \in [Slots -> Cell] /\ RowOK(row) /\ ParkedOK(c, row) /\ QueueOK(c, row)
            /\ \A s \in Slots : cells[t][s].slot # "empty" => row[s].slot # "empty"
<1> DEFINE row == Registered(t, k, len)
           s == col[t].active
           marked == [cells[t][s] EXCEPT !.slot = "dirty", !.job = "none", !.saving = Silence]
<1>1. cells[t] \in [Slots -> Cell] /\ s \in Slots \cup {None}
  BY DEF Typed, Column
<1>2. CASE row = cells[t]
  BY <1>1, <1>2
<1>3. CASE row # cells[t]
  <2>1. s \in Slots /\ cells[t][s].slot = "empty" /\ row = [cells[t] EXCEPT ![s] = marked]
    BY <1>1, <1>3, ShapeType DEF Registered, Occupied
  <2>2. marked \in Cell /\ marked.slot = "dirty" /\ marked.job = "none"
        /\ marked.clip = cells[t][s].clip
    <3>1. cells[t][s] \in Cell /\ Silence \in Audio
      BY <1>1, <2>1, IdleEngineType
    <3>2. ASSUME NEW cell \in Cell
          PROVE  LET m == [cell EXCEPT !.slot = "dirty", !.job = "none", !.saving = Silence]
                 IN m \in Cell /\ m.slot = "dirty" /\ m.job = "none" /\ m.clip = cell.clip
      BY <3>1 DEF Cell, SlotState, JobState
    <3>3. QED
      BY <3>1, <3>2
  <2> HIDE DEF marked
  <2>3. /\ row \in [Slots -> Cell] /\ row[s] = marked
        /\ \A u \in Slots : u # s => row[u] = cells[t][u]
    BY <1>1, <2>1, <2>2
  <2> HIDE DEF row
  <2>4. RowOK(row) /\ \A u \in Slots : cells[t][u].slot # "empty" => row[u].slot # "empty"
    BY <2>1, <2>2, <2>3 DEF RowOK
  <2>5. ParkedOK(c, row)
    <3>1. c.parked # NoPress => c.parked.flush \in Slots
      BY DEF Column, Parked
    <3>2. c.parked # NoPress => cells[t][c.parked.flush].slot = "dirty"
      BY <3>1 DEF ParkedOK, RowOK
    <3>3. QED
      BY <2>1, <2>3, <3>1, <3>2 DEF ParkedOK
  <2>6. QueueOK(c, row)
    <3>1. c.deferred \in Slots \cup {None} /\ c.pending.to \in Slots \cup {None}
      BY DEF Column, Pending
    <3>2. QED
      BY <2>1, <2>2, <2>3, <2>4, <3>1 DEF QueueOK
  <2>7. QED
    BY <2>3, <2>4, <2>5, <2>6 DEF row
<1>4. QED
  BY <1>2, <1>3

\* A state report.
LEMMA ReportStateKeeps == ASSUME IInv, NEW t \in Tracks, ReportState(t) PROVE IInv'
<1>1. TypeOK /\ Good(col[t], cells[t], eng[t])
  BY DEF IInv
<1> DEFINE k == eng[t].st
           c == [col[t] EXCEPT !.cleared = @ /\ k # "off"]
           row == Registered(t, k, lenSeen[t])
<1>2. /\ known' = [known EXCEPT ![t] = k]
      /\ UNCHANGED <<scene, lenSeen, elsewhere, history>>
  BY DEF ReportState
<1>3. PICK e \in {eng[t]} \cup (IF k = "rec" THEN HitRecord(eng[t]) ELSE {}) :
        MaybeResolve(t, c, row, k, e)
  BY DEF ReportState
<1>4. /\ col[t] \in Column /\ eng[t] \in Engine /\ k \in EngineState
      /\ Typed(col[t], cells[t], eng[t]) /\ RowOK(cells[t])
      /\ ParkedOK(col[t], cells[t]) /\ QueueOK(col[t], cells[t])
  BY <1>1 DEF Good, Typed, Engine
<1>5. e \in Engine
  BY <1>3, <1>4, HitRecordType
<1>6. /\ c \in Column /\ c.parked = col[t].parked /\ c.deferred = col[t].deferred
      /\ c.gridWait = col[t].gridWait /\ c.pending = col[t].pending
  BY <1>4 DEF Column
<1>7. /\ ParkedOK(c, cells[t]) /\ QueueOK(c, cells[t]) /\ Calm(col[t], c)
  BY <1>4, <1>6 DEF ParkedOK, QueueOK, Calm
<1> HIDE DEF c, k
<1>8. /\ row \in [Slots -> Cell] /\ RowOK(row) /\ ParkedOK(c, row) /\ QueueOK(c, row)
      /\ \A s \in Slots : cells[t][s].slot # "empty" => row[s].slot # "empty"
  BY <1>4, <1>6, <1>7, RegisteredGood
<1> HIDE DEF row
<1>9. Good(c, row, eng[t])
  BY <1>4, <1>6, <1>8 DEF Good, Typed
<1>10. CalmWrite(t, c, row)
  BY <1>3, <1>5, <1>9, MaybeResolveCalm
<1>11. /\ known' \in [Tracks -> EngineState] /\ lenSeen' \in [Tracks -> 0..MaxTakes]
       /\ elsewhere' \in BOOLEAN
  BY <1>1, <1>2, <1>4 DEF TypeOK
<1>12. UNCHANGED <<scene, takes, own, asked>>
  BY <1>2 DEF history
<1>13. QED
  BY <1>7, <1>8, <1>10, <1>11, <1>12, CalmKeeps

\* A length report.
LEMMA ReportLengthKeeps == ASSUME IInv, NEW t \in Tracks, ReportLength(t) PROVE IInv'
<1>1. TypeOK /\ Good(col[t], cells[t], eng[t])
  BY DEF IInv
<1> DEFINE row == Registered(t, known[t], eng[t].buf.id)
<1>2. /\ lenSeen' = [lenSeen EXCEPT ![t] = eng[t].buf.id]
      /\ cells' = [cells EXCEPT ![t] = row]
      /\ UNCHANGED <<col, scene, eng, known, elsewhere, history>>
  BY DEF ReportLength
<1>3. /\ col[t] \in Column /\ eng[t] \in Engine /\ eng[t].buf.id \in 0..MaxTakes
      /\ Typed(col[t], cells[t], eng[t]) /\ RowOK(cells[t])
      /\ ParkedOK(col[t], cells[t]) /\ QueueOK(col[t], cells[t])
  BY <1>1 DEF Good, Typed, Engine, Audio
<1>4. /\ row \in [Slots -> Cell] /\ RowOK(row) /\ ParkedOK(col[t], row)
      /\ QueueOK(col[t], row)
      /\ \A s \in Slots : cells[t][s].slot # "empty" => row[s].slot # "empty"
  BY <1>3, RegisteredGood
<1> HIDE DEF row
<1>5. Good(col[t], row, eng[t]) /\ Calm(col[t], col[t])
  BY <1>3, <1>4 DEF Good, Typed, Calm
<1>6. Write(t, col[t], row, eng[t])
  BY <1>1, <1>2 DEF Write, TypeOK
<1>7. CalmWrite(t, col[t], row)
  BY <1>3, <1>5, <1>6 DEF CalmWrite
<1>8. /\ known' \in [Tracks -> EngineState] /\ lenSeen' \in [Tracks -> 0..MaxTakes]
      /\ elsewhere' \in BOOLEAN /\ UNCHANGED <<scene, takes, own, asked>>
  BY <1>1, <1>2, <1>3 DEF TypeOK, history
<1>9. QED
  BY <1>4, <1>5, <1>7, <1>8, CalmKeeps

\* The engine finishes writing a save.
LEMMA SaveLandsKeeps ==
  ASSUME IInv, NEW t \in Tracks, NEW s \in Slots, SaveLands(t, s)
  PROVE  IInv'
<1>1. TypeOK /\ Good(col[t], cells[t], eng[t])
  BY DEF IInv
<1> DEFINE landed == [cells[t][s] EXCEPT !.job = "landed"]
           row == [cells[t] EXCEPT ![s] = landed]
<1>2. /\ cells[t][s].job = "running" /\ cells[t][s].saving.id # 0
      /\ cells' = [cells EXCEPT ![t] = row]
      /\ UNCHANGED <<col, scene, eng, heard, history>>
  <2>1. cells' = [cells EXCEPT ![t] =
                    [cells[t] EXCEPT ![s] = [cells[t][s] EXCEPT !.job = "landed"]]]
    BY DEF SaveLands
  <2>2. QED
    BY <2>1 DEF SaveLands
<1>3. /\ col[t] \in Column /\ eng[t] \in Engine /\ cells[t] \in [Slots -> Cell]
      /\ RowOK(cells[t]) /\ ParkedOK(col[t], cells[t]) /\ QueueOK(col[t], cells[t])
  BY <1>1 DEF Good, Typed
<1>4. /\ landed \in Cell /\ landed.job = "landed" /\ landed.slot = cells[t][s].slot
      /\ landed.saving = cells[t][s].saving /\ landed.clip = cells[t][s].clip
  BY <1>3 DEF Cell, JobState
<1> HIDE DEF landed
<1>5. /\ row \in [Slots -> Cell] /\ row[s] = landed
      /\ \A u \in Slots : u # s => row[u] = cells[t][u]
  BY <1>3, <1>4
<1> HIDE DEF row
<1>6. RowOK(row) /\ \A u \in Slots : row[u].slot = cells[t][u].slot
                                     /\ row[u].clip = cells[t][u].clip
                                     /\ (cells[t][u].job # "none" => row[u].job # "none")
  BY <1>2, <1>3, <1>4, <1>5 DEF RowOK
<1>7. /\ col[t].parked # NoPress => col[t].parked.flush \in Slots
      /\ col[t].deferred \in Slots \cup {None} /\ col[t].pending.to \in Slots \cup {None}
  BY <1>3 DEF Column, Parked, Pending
<1>8. ParkedOK(col[t], row) /\ QueueOK(col[t], row)
  BY <1>3, <1>6, <1>7 DEF ParkedOK, QueueOK
<1>9. Good(col[t], row, eng[t]) /\ Calm(col[t], col[t])
  BY <1>3, <1>5, <1>6, <1>8 DEF Good, Typed, Calm
<1>10. Write(t, col[t], row, eng[t])
  BY <1>1, <1>2 DEF Write, TypeOK
<1>11. CalmWrite(t, col[t], row)
  BY <1>3, <1>9, <1>10 DEF CalmWrite
<1>12. /\ known' \in [Tracks -> EngineState] /\ lenSeen' \in [Tracks -> 0..MaxTakes]
       /\ elsewhere' \in BOOLEAN /\ UNCHANGED <<scene, takes, own, asked>>
  BY <1>1, <1>2 DEF TypeOK, heard, history
<1>13. QED
  BY <1>5, <1>6, <1>9, <1>11, <1>12, CalmKeeps

\* A step that moves only the engine.
LEMMA EngineMovesKeeps ==
  ASSUME IInv, NEW t \in Tracks, NEW e \in Engine, EngineMoves(t, e),
         takes' \in 0..MaxTakes, own' \in [Tracks -> [Slots -> 0..MaxTakes]]
  PROVE  IInv'
<1>1. /\ TypeOK /\ \A u \in Tracks : Good(col[u], cells[u], eng[u])
      /\ \A u \in Tracks : Quiet(u) /\ PlanOK(scene[u], cells[u])
  BY DEF IInv
<1>2. /\ eng' = [eng EXCEPT ![t] = e] /\ UNCHANGED <<cells, col, scene, heard, asked>>
  BY DEF EngineMoves
<1>3. eng' \in [Tracks -> Engine]
  BY <1>1, <1>2 DEF TypeOK
<1>4. TypeOK'
  BY <1>1, <1>2, <1>3 DEF TypeOK, heard
<1>5. \A u \in Tracks : Good(col'[u], cells'[u], eng'[u])
  BY <1>1, <1>2, <1>3 DEF Good, Typed
<1>6. QED
  BY <1>1, <1>2, <1>4, <1>5 DEF IInv, Quiet, PlanOK, Good, Typed, RowOK, ParkedOK, QueueOK

\* A take starts, closes or comes to the end of its ring-out.
LEMMA EngineStepsKeep ==
  ASSUME IInv, NEW t \in Tracks, TakeStarts(t) \/ TakeCloses(t) \/ RingEnds(t)
  PROVE  IInv'
<1>1. TypeOK /\ eng[t] \in Engine /\ takes \in 0..MaxTakes
      /\ own \in [Tracks -> [Slots -> 0..MaxTakes]] /\ col[t] \in Column
  BY DEF IInv, TypeOK
<1>2. CASE TakeStarts(t)
  <2>1. [st |-> "rec", buf |-> Silence] \in Engine
    BY IdleEngineType DEF Engine, EngineState
  <2>2. QED
    BY <1>1, <1>2, <2>1, EngineMovesKeeps DEF TakeStarts
<1>3. CASE TakeCloses(t)
  <2>1. PICK st \in ActivePlay :
          EngineMoves(t, [st |-> st, buf |-> [id |-> takes + 1, whole |-> st = "play"]])
    BY <1>3 DEF TakeCloses
  <2>2. takes + 1 \in 0..MaxTakes
    BY <1>1, <1>3, MaxTakesAssumption DEF TakeCloses
  <2> DEFINE e == [st |-> st, buf |-> [id |-> takes + 1, whole |-> st = "play"]]
  <2>3. e \in Engine
    BY <2>1, <2>2 DEF Engine, EngineState, ActivePlay, Audio
  <2>4. takes' \in 0..MaxTakes
    BY <1>3, <2>2 DEF TakeCloses
  <2>5. own' \in [Tracks -> [Slots -> 0..MaxTakes]]
    <3>1. CASE col[t].active = None
      BY <1>1, <1>3, <3>1 DEF TakeCloses
    <3>2. CASE col[t].active # None
      <4>1. own' = [own EXCEPT ![t] = [own[t] EXCEPT ![col[t].active] = takes + 1]]
        BY <1>3, <3>2 DEF TakeCloses
      <4>2. QED
        BY <1>1, <2>2, <4>1
    <3>3. QED
      BY <3>1, <3>2
  <2> HIDE DEF e
  <2>6. EngineMoves(t, e)
    BY <2>1 DEF e
  <2>7. QED
    BY <2>3, <2>4, <2>5, <2>6, EngineMovesKeeps
<1>4. CASE RingEnds(t)
  BY <1>1, <1>4, HitTypes, EngineMovesKeeps DEF RingEnds
<1>5. QED
  BY <1>2, <1>3, <1>4

\* A step that moves nothing but a neighbour, or nothing at all.
LEMMA OthersKeep ==
  ASSUME IInv, NeighbourMoves \/ UNCHANGED vars
  PROVE  IInv'
<1>1. /\ UNCHANGED <<cells, col, scene, eng, known, lenSeen, takes, own, asked>>
      /\ elsewhere' \in {elsewhere, ~elsewhere}
  BY DEF NeighbourMoves, vars, history
<1>2. TypeOK'
  BY <1>1 DEF IInv, TypeOK
<1>3. \A t \in Tracks : /\ Good(col[t], cells[t], eng[t])'
                        /\ PlanOK(scene[t], cells[t])'
                        /\ Quiet(t)'
  BY <1>1 DEF IInv, Good, Typed, RowOK, ParkedOK, QueueOK, PlanOK, Quiet
<1>4. QED
  BY <1>2, <1>3 DEF IInv

-----------------------------------------------------------------------------
(* The theorems. *)

\* Before the first press nothing is recorded, queued, parked or planned.
LEMMA InitIInv == Init => IInv
<1> SUFFICES ASSUME Init PROVE IInv
  OBVIOUS
<1>1. /\ BlankColumn \in Column /\ Silence \in Audio /\ IdleEngine \in Engine
      /\ BlankCell(Silence) \in Cell
  BY BlankTypes, IdleEngineType
<1>2. TypeOK
  <2>1. "off" \in EngineState /\ 0 \in 0..MaxTakes
    BY MaxTakesAssumption DEF EngineState
  <2>2. QED
    BY <1>1, <2>1 DEF Init, TypeOK
<1>3. ASSUME NEW t \in Tracks
      PROVE  Good(col[t], cells[t], eng[t]) /\ PlanOK(scene[t], cells[t]) /\ Quiet(t)
  <2>1. /\ col[t] = BlankColumn /\ eng[t] = IdleEngine /\ scene[t] = NoPlan
        /\ cells[t] = [s \in Slots |-> BlankCell(Silence)] /\ cells[t] \in [Slots -> Cell]
    BY <1>1 DEF Init
  <2>2. /\ BlankColumn.pending.kind = "none" /\ BlankColumn.deferred = None
        /\ BlankColumn.parked = NoPress /\ ~BlankColumn.gridWait
    BY DEF BlankColumn, NoPending
  <2>3. RowOK(cells[t])
    <3>1. BlankCell(Silence).slot = "empty" /\ BlankCell(Silence).job = "none"
      BY DEF BlankCell
    <3>2. \A s \in Slots : cells[t][s] = BlankCell(Silence)
      BY <2>1
    <3>3. QED
      BY <3>1, <3>2 DEF RowOK
  <2>4. Good(col[t], cells[t], eng[t])
    BY <1>1, <2>1, <2>2, <2>3 DEF Good, Typed, ParkedOK, QueueOK
  <2>5. QED
    BY <2>1, <2>2, <2>4, NoPlanOK DEF Quiet
<1>4. QED
  BY <1>2, <1>3 DEF IInv

\* Every step of the player, the main loop, the OSC threads and the engine keeps
\* the inductive invariant.
LEMMA NextKeeps == IInv /\ [Next]_vars => IInv'
<1> SUFFICES ASSUME IInv, [Next]_vars PROVE IInv'
  OBVIOUS
<1>1. ASSUME NEW t \in Tracks, Player(t) PROVE IInv'
  BY <1>1, PressKeeps, HoldClearKeeps DEF Player
<1>2. ASSUME NEW t \in Tracks, Main(t) PROVE IInv'
  BY <1>2, SceneStepKeeps, ResumeKeeps, PollsKeep DEF Main
<1>3. ASSUME NEW t \in Tracks, Reports(t) PROVE IInv'
  BY <1>3, ReportStateKeeps, ReportLengthKeeps, PollsKeep DEF Reports
<1>4. ASSUME NEW t \in Tracks, EngineSteps(t) PROVE IInv'
  BY <1>4, EngineStepsKeep, SaveLandsKeeps DEF EngineSteps
<1>5. ASSUME NEW s \in Slots, ScenePress(s) PROVE IInv'
  BY <1>5, ScenePressKeeps
<1>6. CASE StopAll
  BY <1>6, StopAllKeeps
<1>7. CASE ClearAll
  BY <1>7, ClearAllKeeps
<1>8. CASE NeighbourMoves \/ UNCHANGED vars
  BY <1>8, OthersKeep
<1>9. QED
  BY <1>1, <1>2, <1>3, <1>4, <1>5, <1>6, <1>7, <1>8 DEF Next

\* The inductive invariant holds throughout.
THEOREM Invariance == Spec => []IInv
BY InitIInv, NextKeeps, PTL DEF Spec

\* The state of the matrix keeps its type, whatever the player does and in
\* whatever order the engine's reports come in.
THEOREM Typing == Spec => []TypeOK
<1>1. IInv => TypeOK
  BY DEF IInv
<1>2. QED
  BY <1>1, Invariance, PTL

\* A save in flight is always for an unsaved take, and what landed is a recording:
\* no clear, take-over or late report leaves one behind (mark_recorded, _clear and
\* reset drop the jobs).
THEOREM JobsFollowTheirTakes == Spec => []JobsAreForUnsavedTakes
<1>1. IInv => JobsAreForUnsavedTakes
  BY DEF IInv, Good, RowOK, JobsAreForUnsavedTakes
<1>2. QED
  BY <1>1, Invariance, PTL

\* A pad the model calls saved has its file, however its save, its failure and the
\* presses after it interleave.
THEOREM SavedMeansThere == Spec => []SavedClipsExist
<1>1. IInv => SavedClipsExist
  BY DEF IInv, Good, RowOK, SavedClipsExist, HasClip
<1>2. QED
  BY <1>1, Invariance, PTL

\* A press parked by _ensure_flushed always has its save in the ledger, so
\* resume_awaiting never releases it on the answer for a save nobody asked for.
THEOREM ParkedHasItsSave == Spec => []ParkedOnItsSave
<1>1. IInv => ParkedOnItsSave
  BY DEF IInv, Good, ParkedOK, ParkedOnItsSave
<1>2. QED
  BY <1>1, Invariance, PTL

\* _grid_wait, _deferred and Track.pending agree between any two handlers, on
\* whichever thread they run, and what is queued can still be loaded.
THEOREM QueueAgrees == Spec => []QueueConsistent
<1>1. IInv => QueueConsistent
  <2> SUFFICES ASSUME IInv, NEW t \in Tracks
               PROVE  LET c == col[t]
                      IN /\ c.gridWait => c.deferred # None
                         /\ c.deferred # None => c.pending.kind # "none"
                                                 /\ HasClip(cells[t][c.deferred])
                         /\ c.pending.kind # "none" => c.pending.to # None
                                                 /\ Occupied(Shape(cells[t]), c.pending.to)
    BY DEF QueueConsistent
  <2>1. QueueOK(col[t], cells[t]) /\ cells[t] \in [Slots -> Cell]
        /\ col[t].pending.to \in Slots \cup {None}
    BY DEF IInv, Good, Typed, Column, Pending
  <2>2. QED
    BY <2>1, ShapeType DEF QueueOK, HasClip, Occupied
<1>2. QED
  BY <1>1, Invariance, PTL

-----------------------------------------------------------------------------
(* Nothing starts by itself after Stop All. *)

\* A step starts no stopped loop that nobody has asked for.
StaysStopped(t) == ~asked'[t] /\ eng[t].st = "stopped" => eng'[t].st # "play"

\* Hitting `record` on a stopped loop arms or records; it does not play.
LEMMA RecordDoesNotPlay ==
  ASSUME NEW e \in Engine, e.st = "stopped", NEW f \in HitRecord(e)
  PROVE  f.st # "play"
BY DEF HitRecord

\* A step that touches one engine, of a track that was asked for.
LEMMA AskedStays ==
  ASSUME TypeOK, NEW t \in Tracks, asked'[t], NEW c, NEW row, NEW e,
         Write(t, c, row, e)
  PROVE  \A u \in Tracks : StaysStopped(u)
BY DEF TypeOK, Write, StaysStopped

\* Carrying a plan out writes one column.
LEMMA CarryOutWrites ==
  ASSUME NEW t, NEW p, NEW c, NEW row, CarryOut(t, p, c, row)
  PROVE  \E d, cs, e : Write(t, d, cs, e)
<1>1. ASSUME NEW r, Perform(t, p, c, r)
      PROVE  \E d, cs, e : Write(t, d, cs, e)
  <2>1. CASE Forward(t, p, c, r)
    BY <2>1 DEF Forward
  <2>2. CASE Record(t, p, c, r)
    BY <2>2 DEF Record
  <2>3. CASE Cancel(t, p, c, r) \/ Clear(t, p, c, r) \/ Write(t, Done(c, p), r, eng[t])
    BY <2>3 DEF Cancel, Clear
  <2>4. CASE LaunchNow(t, p, c, r)
    BY <2>4 DEF LaunchNow
  <2>5. CASE DeferLaunch(t, p, c, r)
    BY <2>5 DEF DeferLaunch
  <2>6. QED
    BY <1>1, <2>1, <2>2, <2>3, <2>4, <2>5 DEF Perform, Launch
<1>2. QED
  BY <1>1 DEF CarryOut

\* So does settling what is queued.
LEMMA MaybeResolveWrites ==
  ASSUME NEW t, NEW c, NEW row, NEW k, NEW f,
         LandPending(t, c, row) \/ MaybeResolve(t, c, row, k, f)
  PROVE  \E d, cs, e : Write(t, d, cs, e)
<1>1. CASE LandPending(t, c, row)
  BY <1>1 DEF LandPending
<1>2. QED
  BY <1>1 DEF MaybeResolve

\* A press, a scene step, a parked press, a poll or a wrap moves the engine of a
\* track that was asked for.
LEMMA AskedStepsStay ==
  ASSUME IInv, NEW t \in Tracks,
         \/ \E s \in Slots, hold \in BOOLEAN : Press(t, s, hold)
         \/ Main(t)
         \/ Wrap(t)
  PROVE  \A u \in Tracks : StaysStopped(u)
<1>1. TypeOK /\ Quiet(t) /\ asked \in [Tracks -> BOOLEAN] /\ QueueOK(col[t], cells[t])
  BY DEF IInv, TypeOK, Good
<1>2. asked'[t]
  <2>1. CASE \E s \in Slots, hold \in BOOLEAN : Press(t, s, hold)
    BY <1>1, <2>1 DEF Press
  <2>2. CASE SceneStep(t) \/ Resume(t)
    BY <1>1, <2>2 DEF SceneStep, Resume, Quiet, history
  <2>3. CASE PollGridWait(t) \/ PollPending(t) \/ Wrap(t)
    BY <1>1, <2>3 DEF PollGridWait, PollPending, Wrap, Quiet, QueueOK, history
  <2>4. QED
    BY <2>1, <2>2, <2>3 DEF Main
<1>3. \E c, row, e : Write(t, c, row, e)
  <2>1. CASE \E s \in Slots, hold \in BOOLEAN : Press(t, s, hold)
    BY <2>1, CarryOutWrites DEF Press
  <2>2. CASE SceneStep(t)
    BY <2>2, CarryOutWrites DEF SceneStep
  <2>3. CASE Resume(t)
    BY <2>3, CarryOutWrites DEF Resume
  <2>4. CASE PollGridWait(t) \/ PollPending(t) \/ Wrap(t)
    BY <2>4, MaybeResolveWrites DEF PollGridWait, PollPending, Wrap
  <2>5. QED
    BY <2>1, <2>2, <2>3, <2>4 DEF Main
<1>4. QED
  BY <1>1, <1>2, <1>3, AskedStays

\* A report of a track nobody asked for lands nothing, and only one that says
\* RECORDING sends the engine anything.
LEMMA ReportStays ==
  ASSUME IInv, NEW t \in Tracks, ReportState(t)
  PROVE  \A u \in Tracks : StaysStopped(u)
<1>1. TypeOK /\ Quiet(t) /\ asked' = asked /\ asked \in [Tracks -> BOOLEAN]
      /\ eng \in [Tracks -> Engine] /\ col[t] \in Column
  BY DEF IInv, TypeOK, ReportState, history
<1> DEFINE k == eng[t].st
           c == [col[t] EXCEPT !.cleared = @ /\ k # "off"]
           row == Registered(t, k, lenSeen[t])
<1>2. PICK e \in {eng[t]} \cup (IF k = "rec" THEN HitRecord(eng[t]) ELSE {}) :
        MaybeResolve(t, c, row, k, e)
  BY DEF ReportState
<1>3. CASE asked[t]
  <2>1. \E d, cs, f : Write(t, d, cs, f)
    BY <1>2, MaybeResolveWrites
  <2>2. QED
    BY <1>1, <1>3, <2>1, AskedStays
<1>4. CASE ~asked[t]
  <2>1. c.pending = col[t].pending /\ c.deferred = col[t].deferred
    BY <1>1 DEF Column
  <2>2. c.pending.kind = "none"
    BY <1>1, <1>4, <2>1 DEF Quiet
  <2> HIDE DEF c, row
  <2>3. Write(t, c, row, e)
    BY <1>2, <2>2 DEF MaybeResolve
  <2>4. k = "stopped" => e = eng[t]
    BY <1>2
  <2>5. QED
    BY <1>1, <2>3, <2>4 DEF Write, StaysStopped
<1>5. QED
  BY <1>1, <1>3, <1>4

\* What the engine does on its own, a long press, and the other presses.
LEMMA OthersStay ==
  ASSUME IInv,
         \/ \E t \in Tracks : HoldClear(t) \/ ReportLength(t) \/ EngineSteps(t)
         \/ \E s \in Slots : ScenePress(s)
         \/ StopAll \/ ClearAll \/ NeighbourMoves \/ UNCHANGED vars
  PROVE  \A u \in Tracks : StaysStopped(u)
<1>1. eng \in [Tracks -> Engine]
  BY DEF IInv, TypeOK
<1>2. ASSUME NEW t \in Tracks, HoldClear(t) PROVE \A u \in Tracks : StaysStopped(u)
  <2>1. PICK e \in IF known[t] = "waitstart" THEN HitRecord(eng[t]) ELSE {IdleEngine} :
          eng' = [eng EXCEPT ![t] = e]
    BY <1>2 DEF HoldClear, Write
  <2>2. eng[t].st = "stopped" => e.st # "play"
    BY <1>1, <2>1, RecordDoesNotPlay DEF IdleEngine
  <2>3. QED
    BY <1>1, <2>1, <2>2 DEF StaysStopped
<1>3. ASSUME NEW t \in Tracks, TakeStarts(t) \/ TakeCloses(t) \/ RingEnds(t)
      PROVE  \A u \in Tracks : StaysStopped(u)
  <2>1. PICK e : eng' = [eng EXCEPT ![t] = e] /\ eng[t].st # "stopped"
    BY <1>3 DEF TakeStarts, TakeCloses, RingEnds, EngineMoves
  <2>2. QED
    BY <1>1, <2>1 DEF StaysStopped
<1>4. CASE StopAll
  <2>1. \A u \in Tracks : eng[u].st = "stopped" => eng'[u] = eng[u]
    BY <1>4 DEF StopAll, HitQuiet, ActivePlay
  <2>2. QED
    BY <2>1 DEF StaysStopped
<1>5. CASE ClearAll
  BY <1>5 DEF ClearAll, IdleEngine, StaysStopped
<1>6. CASE eng' = eng
  BY <1>6 DEF StaysStopped
<1>7. QED
  BY <1>2, <1>3, <1>4, <1>5, <1>6 DEF EngineSteps, ReportLength, SaveLands, ScenePress,
     NeighbourMoves, vars

\* After Stop All no stopped loop starts to play until a pad or a scene is pressed:
\* not by a poll, a wrap, a bar line, a late report, a parked press or a scene press
\* still being carried out (act_stop_all_loops abandons all queued intent).
THEOREM StopAllIsFinal == Spec => StopAllHolds
<1>1. IInv /\ [Next]_vars => \A u \in Tracks : StaysStopped(u)
  <2> SUFFICES ASSUME IInv, [Next]_vars PROVE \A u \in Tracks : StaysStopped(u)
    OBVIOUS
  <2>1. ASSUME NEW t \in Tracks, Player(t) PROVE \A u \in Tracks : StaysStopped(u)
    BY <2>1, AskedStepsStay, OthersStay DEF Player
  <2>2. ASSUME NEW t \in Tracks, Main(t) PROVE \A u \in Tracks : StaysStopped(u)
    BY <2>2, AskedStepsStay
  <2>3. ASSUME NEW t \in Tracks, Reports(t) PROVE \A u \in Tracks : StaysStopped(u)
    BY <2>3, AskedStepsStay, ReportStays, OthersStay DEF Reports
  <2>4. ASSUME NEW t \in Tracks, EngineSteps(t) PROVE \A u \in Tracks : StaysStopped(u)
    BY <2>4, OthersStay
  <2>5. QED
    BY <2>1, <2>2, <2>3, <2>4, OthersStay DEF Next
<1>2. IInv /\ [Next]_vars =>
        [\A t \in Tracks : ~asked'[t] /\ eng[t].st = "stopped" => eng'[t].st # "play"]_vars
  BY <1>1 DEF StaysStopped
<1>3. QED
  BY <1>2, Invariance, PTL DEF Spec, StopAllHolds

-----------------------------------------------------------------------------
(* With a patient player: one column, as the bench and the engine have it.
   c, row, e: the column, its cells and its engine; k, n: the state and the take
   length last reported; o: the take last closed in each slot.              *)

Sounds(e) == e.st \in {"ring", "play", "stopped"}

\* A launch that went out at the press and is not confirmed yet.
SentNow(c) == c.pending.kind # "none" /\ c.deferred = None

AllEmpty(row) == \A s \in Slots : row[s].slot = "empty"

\* The buffer agrees with the engine's state: only a loop that is armed or
\* sounding holds a take, and but for the ring-out the whole of it.
BufferFits(e, n) ==
  /\ e.st = "off" => e = IdleEngine
  /\ e.st = "waitstart" => e.buf.id \in {0, n} /\ (e.buf.id # 0 => e.buf.whole)
  /\ e.st \in {"rec", "waitstop"} => e.buf = Silence
  /\ e.st = "ring" => e.buf.id # 0
  /\ e.st \in {"play", "stopped"} => e.buf.id # 0 /\ e.buf.whole

\* Only the active slot is unsaved; a file, there or on its way, is the whole of
\* its slot's take.
SavesFit(c, row, o) ==
  \A s \in Slots :
    /\ row[s].slot = "dirty" => c.active = s
    /\ row[s].slot = "clean" => row[s].clip = [id |-> o[s], whole |-> TRUE] /\ o[s] # 0
    /\ row[s].job # "none" => /\ row[s].slot = "dirty"
                              /\ row[s].saving = [id |-> o[s], whole |-> TRUE]

\* The buffer is the active slot's take, but while another one that was sent to
\* it is unconfirmed; the take of a slot still empty has just been closed, or its
\* length never came.
BoundFits(c, row, e, k, o) ==
  c.active # None =>
    /\ row[c.active].slot # "empty" =>
         Sounds(e) /\ (~SentNow(c) => e.buf.id = o[c.active])
    /\ row[c.active].slot = "empty" =>
         /\ e.st # "off" /\ c.pending.kind = "none" /\ c.parked = NoPress
         /\ Sounds(e) => /\ e.buf.id = o[c.active]
                         /\ \/ AllEmpty(row)
                            \/ k \in {"rec", "waitstop"} /\ e.st \in ActivePlay

\* With no active slot the loop is empty, but for a launch sent to it.
UnboundFits(c, e) ==
  c.active = None => c.parked = NoPress /\ (e = IdleEngine \/ SentNow(c))

\* What is queued is a saved clip, and nothing unsaved stands behind it.
QueueFits(c, row, e, k) ==
  /\ c.deferred # None => c.pending.kind # "none"
  /\ c.pending.kind # "none" =>
       /\ c.parked = NoPress /\ ~c.cleared
       /\ c.pending.to # None /\ row[c.pending.to].slot = "clean"
       /\ c.active # None => row[c.active].slot = "clean"
       /\ c.deferred = None => /\ e.st = "play" /\ k \notin ActivePlay
                               /\ e.buf = row[c.pending.to].clip
       /\ c.deferred # None => c.deferred = c.pending.to /\ c.deferred # c.active

\* A parked press waits for the active slot's take, which is whole and reported.
ParkedFits(c, row, e, n) ==
  c.parked # NoPress =>
    /\ c.active = c.parked.flush /\ c.parked.slot # c.active
    /\ row[c.active].slot = "dirty"
    /\ e.st \in {"play", "stopped"} /\ e.buf.id = n

\* The reports: a closing take was seen recording, a clip's length was heard, and
\* an idle loop is expected only while the engine's word is still outstanding.
ReportsFit(c, row, e, k, n) ==
  /\ e.st = "waitstop" => k \in {"rec", "waitstop"}
  /\ n = 0 => AllEmpty(row)
  /\ c.cleared => e = IdleEngine /\ k # "off" /\ c.active = None

\* All of it but the parked press, which is about to be replayed or replaced when
\* a plan is carried out.
Agrees(c, row, e, k, n, o) ==
  /\ BufferFits(e, n)
  /\ SavesFit(c, row, o)
  /\ BoundFits(c, row, e, k, o)
  /\ UnboundFits(c, e)
  /\ QueueFits(c, row, e, k)
  /\ ReportsFit(c, row, e, k, n)

Fits(c, row, e, k, n, o) == Agrees(c, row, e, k, n, o) /\ ParkedFits(c, row, e, n)

\* A plan that fits the column, whatever has to be saved first.
PlanFits(c, row, e, k, n, p) ==
  /\ ~c.cleared
  /\ p.action = "cancel" =>
       /\ p.clear
       /\ c.pending.kind = "none" \/ c.deferred # None
       /\ c.active # None => row[c.active].slot # "empty"
  /\ p.action # "cancel" => ~p.clear /\ c.pending.kind = "none"
  /\ p.action = "forward" =>
       /\ c.active = p.slot \/ (c.active = None /\ row[p.slot].slot = "empty")
       /\ k = e.st \/ ( /\ c.active = p.slot /\ row[p.slot].slot # "empty"
                        /\ k \in {"ring", "play", "stopped"})
  /\ p.action = "clear" => p.slot # c.active
  /\ p.action \in {"record", "launch", "switch"} =>
       /\ p.slot # c.active
       /\ e.st \in {"off", "play", "stopped"} /\ e.buf.id \in {0, n}
  /\ p.action = "record" => p.from = c.active /\ row[p.slot].slot = "empty"
  /\ p.action = "launch" => c.active = None
  /\ p.action = "switch" => c.active # None /\ row[c.active].slot # "empty"

Unsaved(c, row) == c.active # None /\ row[c.active].slot = "dirty"

\* A plan that was made for the column and can still be carried out.
Planned(c, row, e, k, n, p) ==
  /\ PlanFits(c, row, e, k, n, p)
  /\ p.action \in {"record", "launch", "switch"} => (p.save <=> Unsaved(c, row))

\* A scene press's plan can still be carried out when its turn comes.
SceneFits(c, row, e, k, n, p) ==
  p # NoPlan =>
    /\ p.action \in {"cancel", "forward", "launch", "switch"}
    /\ p.action = "forward" => c.active = p.slot /\ row[p.slot].slot # "empty"
                               /\ k \in {"ring", "play", "stopped"}
    /\ Planned(c, row, e, k, n, p)

PInv ==
  \A t \in Tracks :
    /\ Fits(col[t], cells[t], eng[t], known[t], lenSeen[t], own[t])
    /\ SceneFits(col[t], cells[t], eng[t], known[t], lenSeen[t], scene[t])

-----------------------------------------------------------------------------
(* The engine's answers fit. *)

\* An emptied loop fits, and does not sound.
LEMMA IdleFits ==
  ASSUME NEW n
  PROVE  BufferFits(IdleEngine, n) /\ ~Sounds(IdleEngine) /\ IdleEngine.st = "off"
BY DEF BufferFits, IdleEngine, Sounds, Silence

\* A sounding loop that is muted, triggered or overdubbed goes on holding its take.
LEMMA HitsFit ==
  ASSUME NEW e \in Engine, NEW n, BufferFits(e, n), Sounds(e),
         NEW f \in {HitOverdub(e), HitQuiet(e), HitTrigger(e)}
  PROVE  BufferFits(f, n) /\ Sounds(f) /\ f.buf.id = e.buf.id
<1>1. e.buf \in Audio /\ e.buf.id # 0
  BY DEF Engine, BufferFits, Sounds
<1>2. Rested(e).id = e.buf.id /\ (e.st = "ring" => Rested(e).whole)
      /\ (e.st # "ring" => Rested(e) = e.buf)
  BY <1>1 DEF Rested, Audio
<1>3. CASE e.st = "ring"
  <2>1. /\ HitOverdub(e) = [st |-> "play", buf |-> Rested(e)]
        /\ HitQuiet(e) = [st |-> "stopped", buf |-> Rested(e)] /\ HitTrigger(e) = e
    BY <1>3 DEF HitOverdub, HitQuiet, HitTrigger, ActivePlay
  <2>2. QED
    BY <1>1, <1>2, <1>3, <2>1 DEF BufferFits, Sounds
<1>4. CASE e.st = "play"
  <2>1. /\ HitOverdub(e) = [e EXCEPT !.st = "ring"] /\ HitTrigger(e) = e
        /\ HitQuiet(e) = [st |-> "stopped", buf |-> e.buf]
    BY <1>2, <1>4 DEF HitOverdub, HitQuiet, HitTrigger, ActivePlay
  <2>2. HitOverdub(e).st = "ring" /\ HitOverdub(e).buf = e.buf
    BY <2>1 DEF Engine
  <2>3. HitQuiet(e).st = "stopped" /\ HitQuiet(e).buf = e.buf
    BY <2>1
  <2>4. f.st \in {"ring", "stopped", "play"} /\ f.buf = e.buf
    BY <1>4, <2>1, <2>2, <2>3
  <2>5. QED
    BY <1>1, <1>4, <2>4 DEF BufferFits, Sounds
<1>5. CASE e.st = "stopped"
  <2>1. HitOverdub(e) = e /\ HitQuiet(e) = e /\ HitTrigger(e) = [e EXCEPT !.st = "play"]
    BY <1>5 DEF HitOverdub, HitQuiet, HitTrigger, ActivePlay
  <2>2. HitTrigger(e).st = "play" /\ HitTrigger(e).buf = e.buf
    BY <2>1 DEF Engine
  <2>3. QED
    BY <1>1, <1>5, <2>1, <2>2 DEF BufferFits, Sounds
<1>6. QED
  BY <1>3, <1>4, <1>5 DEF Sounds

\* A loop that does not sound is not touched by a mute.
LEMMA QuietLeaves ==
  ASSUME NEW e, ~Sounds(e)
  PROVE  HitQuiet(e) = e
BY DEF HitQuiet, Sounds, ActivePlay

-----------------------------------------------------------------------------
(* What fits goes on fitting when less is queued or the sounding loop moves. *)

\* The column as before, but for a press no longer parked and a held launch dropped.
LEMMA CalmerFits ==
  ASSUME NEW c, NEW row, NEW e, NEW k, NEW n, NEW o, Agrees(c, row, e, k, n, o),
         NEW d, d.active = c.active, d.parked = NoPress, d.cleared => c.cleared,
         \/ d.pending = c.pending /\ d.deferred = c.deferred
         \/ d.pending = NoPending /\ d.deferred = None /\ ~SentNow(c)
  PROVE  Fits(d, row, e, k, n, o)
<1>1. BufferFits(e, n) /\ SavesFit(d, row, o) /\ ParkedFits(d, row, e, n)
      /\ ReportsFit(d, row, e, k, n)
  BY DEF Fits, Agrees, SavesFit, ParkedFits, ReportsFit
<1>2. NoPending.kind = "none"
  BY DEF NoPending
<1>3. CASE d.pending = c.pending /\ d.deferred = c.deferred
  BY <1>1, <1>3 DEF Fits, Agrees, BoundFits, UnboundFits, QueueFits, SentNow
<1>4. CASE d.pending = NoPending /\ d.deferred = None /\ ~SentNow(c)
  <2>1. ~SentNow(d) /\ QueueFits(d, row, e, k) /\ d.pending.kind = "none"
    BY <1>2, <1>4 DEF SentNow, QueueFits
  <2>2. UnboundFits(d, e)
    BY <1>4 DEF Fits, Agrees, UnboundFits
  <2>3. BoundFits(d, row, e, k, o)
    BY <1>4, <2>1 DEF Fits, Agrees, BoundFits
  <2>4. QED
    BY <1>1, <2>1, <2>2, <2>3 DEF Fits, Agrees
<1>5. QED
  BY <1>3, <1>4

\* Another state of the sounding loop, with the same take in its buffer.
LEMMA MovedFits ==
  ASSUME NEW c, NEW row, NEW e, NEW k, NEW n, NEW o, Fits(c, row, e, k, n, o),
         ~SentNow(c), c.parked = NoPress,
         NEW f, BufferFits(f, n), Sounds(e), Sounds(f), f.buf.id = e.buf.id,
         f.st = "stopped" => \/ k \notin {"rec", "waitstop"}
                             \/ c.active # None /\ row[c.active].slot # "empty"
  PROVE  Fits(c, row, f, k, n, o)
<1>1. e # IdleEngine /\ f.st # "off" /\ f.st # "waitstop"
  BY IdleFits DEF Sounds
<1>2. BufferFits(f, n) /\ SavesFit(c, row, o) /\ ParkedFits(c, row, f, n)
  BY DEF Fits, Agrees, ParkedFits
<1>3. UnboundFits(c, f) /\ ReportsFit(c, row, f, k, n)
  BY <1>1 DEF Fits, Agrees, UnboundFits, ReportsFit
<1>4. QueueFits(c, row, f, k)
  BY DEF Fits, Agrees, QueueFits, SentNow
<1>5. BoundFits(c, row, f, k, o)
  BY <1>1 DEF Fits, Agrees, BoundFits, Sounds, ActivePlay
<1>6. QED
  BY <1>2, <1>3, <1>4, <1>5 DEF Fits, Agrees

-----------------------------------------------------------------------------
(* Each operation of a plan leaves a column that fits. *)

\* The column, as the engine of track t and its reports have it.
AgreesNow(t, c, row, e) == Agrees(c, row, e, known[t], lenSeen[t], own[t])
FitsNow(t, c, row, e) == Fits(c, row, e, known[t], lenSeen[t], own[t])

WritesFit(t) == \E c, row, e : FitsNow(t, c, row, e) /\ Write(t, c, row, e)

\* A plan and the column it is carried out on.
PlanReady(t, p, c, row) ==
  /\ Ready(t, p, c, row) /\ known[t] \in EngineState /\ Hurry = {}
  /\ AgreesNow(t, c, row, eng[t])
  /\ PlanFits(c, row, eng[t], known[t], lenSeen[t], p)

\* What a tap sends from a state reported right: a sounding loop goes on with its
\* take, an idle one starts a take and one under way opens or closes it.
LEMMA TapFits ==
  ASSUME NEW e \in Engine, NEW n, BufferFits(e, n), NEW k \in EngineState,
         NEW b \in BOOLEAN, ~b, Hurry = {},
         k = e.st \/ (Sounds(e) /\ k \in {"ring", "play", "stopped"}),
         NEW f \in TapOutcomes(e, k, b)
  PROVE  \/ Sounds(e) /\ f \in {HitOverdub(e), HitQuiet(e), HitTrigger(e)}
         \/ e.st = "off" /\ f.st \in {"waitstart", "rec"} /\ f.buf = Silence
         \/ e.st = "waitstart" /\ f = e
         \/ /\ e.st \in {"rec", "waitstop"} /\ k \in {"rec", "waitstop"}
            /\ f.st \in {"rec", "waitstop"} /\ f.buf = Silence
<1>1. CASE k = "off"
  <2>1. e = IdleEngine
    BY <1>1 DEF BufferFits, Sounds
  <2>2. Rested(e) = Silence /\ e.st = "off"
    BY <2>1 DEF Rested, IdleEngine
  <2>3. f \in {[st |-> "waitstart", buf |-> Silence], [st |-> "rec", buf |-> Silence]}
    BY <1>1, <2>2 DEF TapOutcomes, MayRecord, HitRecord
  <2>4. QED
    BY <2>2, <2>3
<1>2. CASE k = "waitstart"
  BY <1>2 DEF TapOutcomes, MayRecord
<1>3. CASE k \in {"rec", "waitstop"}
  <2>1. e.st = k /\ e.buf = Silence
    BY <1>3 DEF BufferFits
  <2>2. f \in {[e EXCEPT !.st = "waitstop"], [e EXCEPT !.st = "rec"]}
    BY <1>3, <2>1 DEF TapOutcomes, HitRecord, HitOverdub
  <2>3. QED
    BY <1>3, <2>1, <2>2 DEF Engine
<1>4. CASE k \in {"ring", "play", "stopped"}
  BY <1>4 DEF TapOutcomes, Sounds
<1>5. QED
  BY <1>1, <1>2, <1>3, <1>4 DEF EngineState

\* The bookkeeping of a plan that queues nothing and cancels nothing.
LEMMA DoneCalm ==
  ASSUME NEW t, NEW p, NEW c, NEW row, Ready(t, p, c, row),
         p.action \notin {"launch", "switch"}, ~p.clear
  PROVE  /\ Done(c, p) \in Column
         /\ Done(c, p).active = c.active /\ Done(c, p).pending = c.pending
         /\ Done(c, p).deferred = c.deferred /\ Done(c, p).parked = NoPress
         /\ Done(c, p).cleared = c.cleared
<1>1. ApplyPending(c.pending, p) = c.pending
  BY DEF ApplyPending
<1>2. QED
  BY <1>1, DoneGood DEF Ready

\* A tap on the active lane.
LEMMA ForwardFits ==
  ASSUME NEW t, NEW p, NEW c, NEW row, PlanReady(t, p, c, row), p.action = "forward",
         Forward(t, p, c, row)
  PROVE  WritesFit(t)
<1> DEFINE e == eng[t]
           k == known[t]
           n == lenSeen[t]
           bound == IF c.active = None THEN p.slot ELSE c.active
<1>1. /\ Ready(t, p, c, row) /\ k \in EngineState /\ Hurry = {} /\ e \in Engine
      /\ Agrees(c, row, e, k, n, own[t]) /\ c \in Column /\ p.slot \in Slots
      /\ c.active \in Slots \cup {None}
  BY DEF PlanReady, Ready, Typed, AgreesNow, Plan, Column
<1>2. /\ ~c.cleared /\ c.cleared \in BOOLEAN /\ ~p.clear /\ c.pending.kind = "none"
      /\ c.active = p.slot \/ (c.active = None /\ row[p.slot].slot = "empty")
      /\ k = e.st \/ ( /\ c.active = p.slot /\ row[p.slot].slot # "empty"
                       /\ k \in {"ring", "play", "stopped"})
  BY <1>1 DEF PlanReady, PlanFits, Column
<1>3. PICK f \in TapOutcomes(e, k, c.cleared) :
        Write(t, [Done(c, p) EXCEPT !.active = bound, !.cleared = @ /\ f = e], row, f)
  BY DEF Forward
<1> DEFINE d == [Done(c, p) EXCEPT !.active = bound, !.cleared = @ /\ f = e]
<1>4. /\ d.active = bound /\ d.pending = c.pending /\ d.deferred = c.deferred
      /\ d.parked = NoPress /\ ~d.cleared
  BY <1>1, <1>2, DoneCalm DEF Column
<1>5. Write(t, d, row, f)
  BY <1>3
<1> HIDE DEF d
<1>6. /\ BufferFits(e, n) /\ SavesFit(c, row, own[t]) /\ BoundFits(c, row, e, k, own[t])
      /\ UnboundFits(c, e) /\ QueueFits(c, row, e, k) /\ ReportsFit(c, row, e, k, n)
  BY <1>1 DEF Fits, Agrees
<1>7. ~SentNow(c) /\ ~SentNow(d) /\ c.deferred = None
  BY <1>2, <1>4, <1>6 DEF SentNow, QueueFits
<1>8. k = e.st \/ (Sounds(e) /\ k \in {"ring", "play", "stopped"})
  BY <1>1, <1>2, <1>6, NoneAssumption DEF BoundFits
<1>9. ASSUME c.active # None, FitsNow(t, d, row, f) PROVE WritesFit(t)
  BY <1>5, <1>9 DEF WritesFit
<1>10. CASE Sounds(e) /\ f \in {HitOverdub(e), HitQuiet(e), HitTrigger(e)}
  <2>1. c.active # None
    BY <1>6, <1>7, <1>10, IdleFits DEF UnboundFits
  <2>2. Fits(d, row, e, k, n, own[t])
    BY <1>1, <1>2, <1>4, <2>1, CalmerFits
  <2>3. BufferFits(f, n) /\ Sounds(f) /\ f.buf.id = e.buf.id
    BY <1>1, <1>6, <1>10, HitsFit
  <2>4. k \notin {"rec", "waitstop"} \/ (d.active # None /\ row[d.active].slot # "empty")
    BY <1>2, <1>4, <1>10, <2>1 DEF Sounds
  <2>5. Fits(d, row, f, k, n, own[t])
    BY <1>4, <1>7, <1>10, <2>2, <2>3, <2>4, MovedFits
  <2>6. QED
    BY <2>1, <2>5, <1>9 DEF FitsNow
<1>11. CASE e.st = "off" /\ f.st \in {"waitstart", "rec"} /\ f.buf = Silence
  <2>1. c.active = None /\ row[p.slot].slot = "empty" /\ d.active = p.slot /\ d.active # None
    BY <1>1, <1>2, <1>4, <1>6, <1>11, NoneAssumption DEF BoundFits, Sounds
  <2>2. BufferFits(f, n) /\ ~Sounds(f)
    BY <1>11 DEF BufferFits, Sounds, Silence
  <2>3. SavesFit(d, row, own[t])
    BY <1>6, <2>1, NoneAssumption DEF SavesFit
  <2>4. BoundFits(d, row, f, k, own[t])
    BY <1>2, <1>4, <1>11, <2>1, <2>2 DEF BoundFits
  <2>5. UnboundFits(d, f) /\ QueueFits(d, row, f, k) /\ ParkedFits(d, row, f, n)
    BY <1>2, <1>4, <1>7, <2>1 DEF UnboundFits, QueueFits, ParkedFits
  <2>6. ReportsFit(d, row, f, k, n)
    BY <1>4, <1>6, <1>11 DEF ReportsFit
  <2>7. QED
    BY <1>5, <2>2, <2>3, <2>4, <2>5, <2>6 DEF WritesFit, FitsNow, Fits, Agrees
<1>12. CASE e.st = "waitstart" /\ f = e
  <2>1. c.active # None
    BY <1>6, <1>7, <1>12, IdleFits DEF UnboundFits
  <2>2. Fits(d, row, e, k, n, own[t])
    BY <1>1, <1>2, <1>4, <2>1, CalmerFits
  <2>3. QED
    BY <1>9, <1>12, <2>1, <2>2 DEF FitsNow
<1>13. CASE /\ e.st \in {"rec", "waitstop"} /\ k \in {"rec", "waitstop"}
            /\ f.st \in {"rec", "waitstop"} /\ f.buf = Silence
  <2>1. c.active # None /\ d.active = c.active
    BY <1>4, <1>6, <1>7, <1>13, IdleFits DEF UnboundFits
  <2>2. BufferFits(f, n) /\ ~Sounds(f) /\ ~Sounds(e)
    BY <1>13 DEF BufferFits, Sounds
  <2>3. row[c.active].slot = "empty"
    BY <1>6, <2>1, <2>2 DEF BoundFits
  <2>4. SavesFit(d, row, own[t])
    BY <1>6, <2>1 DEF SavesFit
  <2>5. BoundFits(d, row, f, k, own[t])
    BY <1>2, <1>4, <1>13, <2>1, <2>2, <2>3 DEF BoundFits
  <2>6. UnboundFits(d, f) /\ QueueFits(d, row, f, k) /\ ParkedFits(d, row, f, n)
    BY <1>2, <1>4, <1>7, <2>1 DEF UnboundFits, QueueFits, ParkedFits
  <2>7. ReportsFit(d, row, f, k, n)
    BY <1>4, <1>6, <1>13 DEF ReportsFit
  <2>8. QED
    BY <1>5, <2>2, <2>4, <2>5, <2>6, <2>7 DEF WritesFit, FitsNow, Fits, Agrees
<1>14. QED
  BY <1>1, <1>2, <1>6, <1>8, <1>10, <1>11, <1>12, <1>13, TapFits

\* A take is started, over whatever the buffer held.
LEMMA RecordFits ==
  ASSUME NEW t, NEW p, NEW c, NEW row, PlanReady(t, p, c, row), p.action = "record",
         ~Unsaved(c, row), Record(t, p, c, row)
  PROVE  WritesFit(t)
<1> DEFINE e == eng[t]
           k == known[t]
           n == lenSeen[t]
           start == IF TakesOver(p, c, row) /\ k \notin ActivePlay THEN IdleEngine ELSE e
<1>1. /\ Ready(t, p, c, row) /\ Hurry = {} /\ e \in Engine
      /\ Agrees(c, row, e, k, n, own[t]) /\ c \in Column /\ p.slot \in Slots
  BY DEF PlanReady, Ready, Typed, AgreesNow, Plan
<1>2. /\ ~c.cleared /\ ~p.clear /\ c.pending.kind = "none" /\ row[p.slot].slot = "empty"
      /\ e.st \in {"off", "play", "stopped"} /\ e.buf.id \in {0, n}
  BY DEF PlanReady, PlanFits
<1>3. PICK f \in HitRecord(start) :
        Write(t, [Done(c, p) EXCEPT !.active = p.slot, !.cleared = Unheard(t) /\ f = start],
              row, f)
  BY <1>1 DEF Record
<1>4. /\ SavesFit(c, row, own[t]) /\ QueueFits(c, row, e, k) /\ ReportsFit(c, row, e, k, n)
      /\ BufferFits(e, n)
  BY <1>1 DEF Fits, Agrees
<1>5. /\ start \in Engine /\ BufferFits(start, n) /\ start.buf.id \in {0, n}
      /\ start.st \in {"off", "play", "stopped"} /\ Rested(start) = start.buf
  <2>1. IdleEngine \in Engine /\ BufferFits(IdleEngine, n) /\ IdleEngine.buf.id = 0
        /\ IdleEngine.st = "off"
    BY IdleEngineType, IdleFits DEF IdleEngine, Silence
  <2>2. QED
    BY <1>1, <1>2, <1>4, <2>1 DEF Rested
<1> HIDE DEF start
<1>6. f \in {[st |-> "waitstart", buf |-> start.buf], [st |-> "rec", buf |-> Silence]}
  BY <1>3, <1>5 DEF HitRecord
<1>7. f.st \in {"waitstart", "rec"} /\ f # start /\ BufferFits(f, n)
  <2>1. CASE f = [st |-> "waitstart", buf |-> start.buf]
    <3>1. start.buf.id # 0 => start.buf.whole
      BY <1>5 DEF BufferFits, IdleEngine, Silence
    <3>2. f.st = "waitstart" /\ f.buf = start.buf
      BY <2>1
    <3>3. QED
      BY <1>5, <3>1, <3>2 DEF BufferFits
  <2>2. CASE f = [st |-> "rec", buf |-> Silence]
    BY <1>5, <2>2 DEF BufferFits
  <2>3. QED
    BY <1>6, <2>1, <2>2
<1> DEFINE d == [Done(c, p) EXCEPT !.active = p.slot, !.cleared = Unheard(t) /\ f = start]
<1>8. /\ d.active = p.slot /\ d.pending = c.pending /\ d.deferred = c.deferred
      /\ d.parked = NoPress /\ ~d.cleared
  BY <1>1, <1>2, <1>7, DoneCalm DEF Column
<1>9. Write(t, d, row, f)
  BY <1>3
<1> HIDE DEF d
<1>10. d.active # None /\ row[d.active].slot = "empty"
  BY <1>1, <1>2, <1>8, NoneAssumption
<1>11. SavesFit(d, row, own[t])
  BY <1>4, NoneAssumption DEF SavesFit, Unsaved
<1>12. BoundFits(d, row, f, k, own[t])
  BY <1>2, <1>7, <1>8, <1>10 DEF BoundFits, Sounds
<1>13. UnboundFits(d, f) /\ QueueFits(d, row, f, k) /\ ParkedFits(d, row, f, n)
  BY <1>2, <1>4, <1>8, <1>10 DEF UnboundFits, QueueFits, ParkedFits
<1>14. ReportsFit(d, row, f, k, n)
  BY <1>4, <1>7, <1>8 DEF ReportsFit
<1>15. QED
  BY <1>7, <1>9, <1>11, <1>12, <1>13, <1>14 DEF WritesFit, FitsNow, Fits, Agrees

\* A saved clip is in its file, and a launch finds it there.
LEMMA ClipFits ==
  ASSUME NEW row \in [Slots -> Cell], NEW c, NEW o, SavesFit(c, row, o),
         NEW s \in Slots, row[s].slot # "empty", c.active # s, NEW n
  PROVE  /\ row[s].slot = "clean" /\ row[s].clip.id = o[s] /\ row[s].clip.id # 0
         /\ BufferFits(HitLoad(row[s].clip), n) /\ Sounds(HitLoad(row[s].clip))
<1>1. row[s].slot = "clean"
  BY DEF SavesFit, Cell, SlotState
<1>2. row[s].clip = [id |-> o[s], whole |-> TRUE] /\ o[s] # 0
  BY <1>1 DEF SavesFit
<1>3. row[s].clip.id = o[s] /\ row[s].clip.whole
  BY <1>2
<1>4. HitLoad(row[s].clip).st = "play" /\ HitLoad(row[s].clip).buf = row[s].clip
  BY DEF HitLoad
<1>5. QED
  BY <1>1, <1>2, <1>3, <1>4 DEF BufferFits, Sounds

\* A clip is launched at once, or queued for the boundary.
LEMMA LaunchFits ==
  ASSUME NEW t, NEW p, NEW c, NEW row, PlanReady(t, p, c, row),
         p.action \in {"launch", "switch"}, ~Unsaved(c, row), Launch(t, p, c, row)
  PROVE  WritesFit(t)
<1> DEFINE e == eng[t]
           k == known[t]
           n == lenSeen[t]
           clip == row[p.slot].clip
           d == Done(c, p)
<1>1. /\ Ready(t, p, c, row) /\ e \in Engine /\ t \in Tracks
      /\ Agrees(c, row, e, k, n, own[t]) /\ c \in Column /\ p.slot \in Slots
      /\ row \in [Slots -> Cell] /\ row[p.slot].slot # "empty" /\ p \in Plan
      /\ Typed(c, row, e) /\ QueueOK(c, row) /\ PlanOK(p, row)
      /\ c.active \in Slots \cup {None}
  BY DEF PlanReady, Ready, Typed, AgreesNow, Plan, PlanOK, Column
<1>2. /\ ~c.cleared /\ ~p.clear /\ c.pending.kind = "none" /\ p.slot # c.active
      /\ e.st \in {"off", "play", "stopped"}
  BY DEF PlanReady, PlanFits
<1>3. /\ BufferFits(e, n) /\ SavesFit(c, row, own[t]) /\ BoundFits(c, row, e, k, own[t])
      /\ UnboundFits(c, e) /\ QueueFits(c, row, e, k) /\ ReportsFit(c, row, e, k, n)
  BY <1>1 DEF Fits, Agrees
<1>4. /\ row[p.slot].slot = "clean" /\ clip.id # 0
      /\ BufferFits(HitLoad(clip), n) /\ Sounds(HitLoad(clip))
  <2> DEFINE o == own[t]
  <2>1. SavesFit(c, row, o) /\ c.active # p.slot
    BY <1>2, <1>3
  <2> HIDE DEF o
  <2>2. QED
    BY <1>1, <2>1, ClipFits
<1>5. c.deferred = None /\ ~SentNow(c)
  BY <1>2, <1>3 DEF QueueFits, SentNow
<1>6. ApplyPending(c.pending, p).kind # "none" /\ ApplyPending(c.pending, p).to = p.slot
  BY <1>1, <1>2 DEF ApplyPending
<1>7. /\ d.active = c.active /\ ~d.cleared /\ d.deferred = c.deferred
      /\ d.pending.kind # "none" /\ d.pending.to = p.slot /\ d.parked = NoPress
      /\ d \in Column
  BY <1>1, <1>2, <1>6, DoneGood
<1>8. c.active # None => row[c.active].slot = "clean"
  BY <1>1 DEF PlanReady, PlanFits, Unsaved, Cell, SlotState
<1> HIDE DEF d
<1>9. CASE ~Sounding /\ LaunchNow(t, p, c, row)
  <2>1. Write(t, d, row, HitLoad(clip))
    BY <1>1, <1>2, <1>4, <1>9 DEF LaunchNow, CanLaunch, InBuffer, HasClip, Launched, d
  <2> DEFINE f == HitLoad(clip)
  <2>2. f.st = "play" /\ f.buf = clip /\ k \notin ActivePlay
    BY <1>1, <1>9 DEF HitLoad, Sounding
  <2> HIDE DEF f
  <2>3. SavesFit(d, row, own[t]) /\ ParkedFits(d, row, f, n) /\ UnboundFits(d, f)
    BY <1>3, <1>5, <1>7 DEF SavesFit, ParkedFits, UnboundFits, SentNow
  <2>4. BoundFits(d, row, f, k, own[t]) /\ QueueFits(d, row, f, k)
    BY <1>1, <1>4, <1>5, <1>7, <1>8, <2>2, NoneAssumption
    DEF BoundFits, QueueFits, Sounds, SentNow
  <2>5. ReportsFit(d, row, f, k, n)
    BY <1>3, <1>7, <2>2 DEF ReportsFit
  <2>6. BufferFits(f, n)
    BY <1>4 DEF f
  <2>7. QED
    BY <2>1, <2>3, <2>4, <2>5, <2>6 DEF WritesFit, FitsNow, Fits, Agrees, f
<1>10. CASE DeferLaunch(t, p, c, row)
  <2>1. PICK barKnown \in BOOLEAN :
          Write(t, [d EXCEPT !.deferred = p.slot, !.gridWait = c.gridWait \/ barKnown],
                row, e)
    BY <1>4, <1>10 DEF DeferLaunch, HasClip, d
  <2> DEFINE h == [d EXCEPT !.deferred = p.slot, !.gridWait = c.gridWait \/ barKnown]
  <2>2. /\ h.active = c.active /\ ~h.cleared /\ h.deferred = p.slot /\ h.pending = d.pending
        /\ h.parked = NoPress
    BY <1>7 DEF Column
  <2>3. Write(t, h, row, e)
    BY <2>1
  <2> HIDE DEF h
  <2>4. h.deferred # None /\ ~SentNow(h)
    BY <1>1, <2>2, NoneAssumption DEF SentNow
  <2>5. SavesFit(h, row, own[t]) /\ ParkedFits(h, row, e, n) /\ ReportsFit(h, row, e, k, n)
    BY <1>3, <2>2 DEF SavesFit, ParkedFits, ReportsFit
  <2>6. BoundFits(h, row, e, k, own[t])
    BY <1>3, <1>5, <1>8, <2>2, <2>4 DEF BoundFits
  <2>7. UnboundFits(h, e)
    BY <1>3, <1>5, <2>2 DEF UnboundFits
  <2>8. QueueFits(h, row, e, k)
    BY <1>1, <1>2, <1>4, <1>7, <1>8, <2>2, <2>4 DEF QueueFits
  <2>9. QED
    BY <1>3, <2>3, <2>5, <2>6, <2>7, <2>8 DEF WritesFit, FitsNow, Fits, Agrees
<1>11. QED
  BY <1>9, <1>10 DEF Launch

\* A queued launch is taken back; the track is stopped, but for a queued switch.
LEMMA CancelFits ==
  ASSUME NEW t, NEW p, NEW c, NEW row, PlanReady(t, p, c, row), p.action = "cancel",
         Cancel(t, p, c, row)
  PROVE  WritesFit(t)
<1> DEFINE e == eng[t]
           k == known[t]
           n == lenSeen[t]
           d == Done(Unqueued(c), p)
           f == IF c.pending.kind = "switch" THEN e ELSE HitQuiet(e)
<1>1. /\ Ready(t, p, c, row) /\ e \in Engine
      /\ Agrees(c, row, e, k, n, own[t]) /\ c \in Column /\ p \in Plan /\ PlanOK(p, row)
      /\ Typed(c, row, e) /\ QueueOK(c, row)
  BY DEF PlanReady, Ready, Typed, AgreesNow
<1>2. /\ ~c.cleared /\ p.clear /\ (c.pending.kind = "none" \/ c.deferred # None)
      /\ c.active # None => row[c.active].slot # "empty"
  BY DEF PlanReady, PlanFits
<1>3. BufferFits(e, n) /\ UnboundFits(c, e) /\ ~SentNow(c)
  BY <1>1, <1>2 DEF Agrees, SentNow
<1>4. /\ d.active = c.active /\ d.pending = NoPending /\ d.deferred = None
      /\ d.parked = NoPress /\ ~d.cleared
  <2> DEFINE q == Unqueued(c)
  <2>1. /\ q \in Column /\ q.deferred = None /\ q.active = c.active /\ QueueOK(q, row)
    BY <1>1, UnqueuedGood
  <2>2. q.cleared = c.cleared
    BY <1>1 DEF Unqueued, Column
  <2>3. Typed(q, row, e)
    BY <1>1, <2>1 DEF Typed
  <2> HIDE DEF q
  <2>4. ApplyPending(q.pending, p) = NoPending
    BY <1>2 DEF ApplyPending
  <2>5. /\ Done(q, p).active = c.active /\ Done(q, p).pending = NoPending
        /\ Done(q, p).deferred = None /\ Done(q, p).parked = NoPress /\ ~Done(q, p).cleared
    BY <1>1, <1>2, <2>1, <2>2, <2>3, <2>4, DoneGood
  <2>6. QED
    BY <2>5 DEF q
<1>5. Write(t, d, row, f)
  BY DEF Cancel
<1> HIDE DEF d
<1>6. Fits(d, row, e, k, n, own[t])
  BY <1>1, <1>3, <1>4, CalmerFits
<1>7. CASE f = e
  BY <1>5, <1>6, <1>7 DEF WritesFit, FitsNow
<1>8. CASE f # e
  <2>1. Sounds(e) /\ f = HitQuiet(e)
    BY <1>8, QuietLeaves
  <2>2. BufferFits(f, n) /\ Sounds(f) /\ f.buf.id = e.buf.id
    BY <1>1, <1>3, <2>1, HitsFit
  <2>3. d.active # None /\ row[d.active].slot # "empty"
    BY <1>2, <1>3, <1>4, <2>1, IdleFits DEF UnboundFits
  <2>4. ~SentNow(d)
    BY <1>4 DEF SentNow, NoPending
  <2> HIDE DEF f
  <2>5. Fits(d, row, f, k, n, own[t])
    BY <1>4, <1>6, <2>1, <2>2, <2>3, <2>4, MovedFits
  <2>6. QED
    BY <1>5, <2>5 DEF WritesFit, FitsNow
<1>9. QED
  BY <1>7, <1>8

\* A clip outside the buffer is deleted.
LEMMA ClearFits ==
  ASSUME NEW t, NEW p, NEW c, NEW row, PlanReady(t, p, c, row), p.action = "clear",
         Clear(t, p, c, row)
  PROVE  WritesFit(t)
<1> DEFINE e == eng[t]
           k == known[t]
           n == lenSeen[t]
           r == Deleted(row, p.slot)
<1>1. /\ Ready(t, p, c, row) /\ row \in [Slots -> Cell] /\ RowOK(row)
      /\ Agrees(c, row, e, k, n, own[t]) /\ c \in Column /\ p.slot \in Slots
      /\ c.active \in Slots \cup {None} /\ Typed(c, row, e) /\ QueueOK(c, row)
  BY DEF PlanReady, Ready, Typed, AgreesNow, Plan, Column
<1>2. c.pending.kind = "none" /\ p.slot # c.active /\ ~c.cleared
  BY DEF PlanReady, PlanFits
<1>3. /\ Abandoned(c) \in Column
      /\ Abandoned(c).deferred = None /\ Abandoned(c).pending = NoPending
      /\ Abandoned(c).parked = NoPress /\ Abandoned(c).active = c.active
  BY <1>1, AbandonedGood
<1>4. Abandoned(c).cleared = c.cleared
  BY <1>1 DEF Abandoned, Unparked, Unqueued, Column
<1> DEFINE d == [Abandoned(c) EXCEPT !.active = IF c.active = p.slot THEN None ELSE c.active]
<1>5. /\ d.active = c.active /\ d.pending = NoPending /\ d.deferred = None
      /\ d.parked = NoPress /\ ~d.cleared
  BY <1>2, <1>3, <1>4 DEF Column
<1>6. Write(t, d, r, e)
  BY <1>2 DEF Clear
<1> HIDE DEF d
<1>7. ~SentNow(c)
  BY <1>2 DEF SentNow
<1>8. Fits(d, row, e, k, n, own[t])
  BY <1>1, <1>5, <1>7, CalmerFits
<1>9. /\ r[p.slot].slot = "empty" /\ r[p.slot].job = "none"
      /\ \A s \in Slots : s # p.slot => r[s] = row[s]
  BY <1>1 DEF Deleted, BlankCell
<1> HIDE DEF r
<1>10. AllEmpty(row) => AllEmpty(r)
  BY <1>9 DEF AllEmpty
<1>11. SavesFit(d, r, own[t])
  BY <1>8, <1>9 DEF Fits, Agrees, SavesFit
<1>12. d.active # None => r[d.active] = row[d.active]
  BY <1>1, <1>2, <1>5, <1>9
<1>13. BoundFits(d, r, e, k, own[t])
  BY <1>8, <1>10, <1>12 DEF Fits, Agrees, BoundFits
<1>14. /\ UnboundFits(d, e) /\ QueueFits(d, r, e, k) /\ ParkedFits(d, r, e, n)
       /\ ReportsFit(d, r, e, k, n) /\ BufferFits(e, n)
  BY <1>5, <1>8, <1>10 DEF Fits, Agrees, UnboundFits, QueueFits, ParkedFits, ReportsFit,
     NoPending
<1>15. QED
  BY <1>6, <1>11, <1>13, <1>14 DEF WritesFit, FitsNow, Fits, Agrees

\* Whatever the plan says to do leaves a column that fits.
LEMMA PerformFits ==
  ASSUME NEW t, NEW p, NEW c, NEW row, PlanReady(t, p, c, row),
         p.action \in {"record", "launch", "switch"} => ~Unsaved(c, row),
         Perform(t, p, c, row)
  PROVE  WritesFit(t)
<1>1. CASE p.action = "noop" /\ Write(t, Done(c, p), row, eng[t])
  <2>1. Ready(t, p, c, row) /\ ~p.clear /\ AgreesNow(t, c, row, eng[t])
    BY <1>1 DEF PlanReady, PlanFits
  <2> DEFINE d == Done(c, p)
  <2>2. /\ d.active = c.active /\ d.pending = c.pending /\ d.deferred = c.deferred
        /\ d.parked = NoPress /\ d.cleared = c.cleared
    BY <1>1, <2>1, DoneCalm
  <2> HIDE DEF d
  <2>3. FitsNow(t, d, row, eng[t])
    BY <2>1, <2>2, CalmerFits DEF FitsNow, AgreesNow
  <2>4. QED
    BY <1>1, <2>3 DEF WritesFit, d
<1>2. CASE p.action = "forward" /\ Forward(t, p, c, row)
  BY <1>2, ForwardFits
<1>3. CASE p.action = "record" /\ Record(t, p, c, row)
  BY <1>3, RecordFits
<1>4. CASE p.action = "cancel" /\ Cancel(t, p, c, row)
  BY <1>4, CancelFits
<1>5. CASE p.action = "clear" /\ Clear(t, p, c, row)
  BY <1>5, ClearFits
<1>6. CASE p.action \in {"launch", "switch"} /\ Launch(t, p, c, row)
  BY <1>6, LaunchFits
<1>7. QED
  BY <1>1, <1>2, <1>3, <1>4, <1>5, <1>6 DEF Perform

-----------------------------------------------------------------------------
(* The ledger's answers fit. *)

\* A poll leaves every slot as full as it was, and makes none unsaved; the saved
\* ones it does not touch.
FittingAnswer(v, row, c, o) ==
  /\ v.status \in {"clean", "pending", "failed"}
  /\ v.row \in [Slots -> Cell]
  /\ SavesFit(c, v.row, o)
  /\ \A u \in Slots : /\ v.row[u].slot = "empty" <=> row[u].slot = "empty"
                      /\ row[u].slot = "clean" => v.row[u] = row[u]
  /\ v.status = "clean" => ~Unsaved(c, v.row)
  /\ v.status # "clean" => Unsaved(c, v.row)

\* A save of the active slot that is over has saved the slot's take; one that is
\* not, or that failed, leaves it unsaved.
LEMMA PollsFit ==
  ASSUME NEW row \in [Slots -> Cell], NEW c, NEW o, SavesFit(c, row, o), RowOK(row),
         c.active \in Slots, row[c.active].slot = "dirty", row[c.active].job # "none",
         NEW v \in Polls(row, c.active)
  PROVE  FittingAnswer(v, row, c, o)
<1> DEFINE s == c.active
           cell == row[s]
<1>1. /\ cell \in Cell /\ Silence \in Audio /\ s \in Slots /\ s # None
      /\ cell.saving = [id |-> o[s], whole |-> TRUE] /\ cell.job \in {"running", "landed"}
      /\ cell.slot = "dirty"
  BY IdleEngineType, NoneAssumption DEF SavesFit, Cell, JobState
<1>2. CASE cell.job = "landed"
  <2> DEFINE kept == [slot |-> "clean", job |-> "none", saving |-> Silence,
                      clip |-> cell.saving]
  <2>1. v = [status |-> "clean", row |-> [row EXCEPT ![s] = kept]]
    BY <1>1, <1>2 DEF Polls
  <2>2. kept \in Cell
    BY <1>1 DEF Cell, SlotState, JobState
  <2>3. o[s] # 0
    <3>1. cell.saving.id # 0
      BY <1>1, <1>2 DEF RowOK
    <3>2. QED
      BY <1>1, <3>1
  <2>4. kept.slot = "clean" /\ kept.job = "none" /\ kept.clip = [id |-> o[s], whole |-> TRUE]
    BY <1>1
  <2> HIDE DEF kept
  <2>5. /\ v.status = "clean" /\ v.row \in [Slots -> Cell] /\ v.row[s] = kept
        /\ \A u \in Slots : u # s => v.row[u] = row[u]
    BY <1>1, <2>1, <2>2
  <2>6. SavesFit(c, v.row, o)
    BY <1>1, <2>3, <2>4, <2>5 DEF SavesFit
  <2>7. QED
    BY <1>1, <2>4, <2>5, <2>6 DEF FittingAnswer, Unsaved
<1>3. CASE cell.job = "running"
  <2> DEFINE lost == [cell EXCEPT !.job = "none", !.saving = Silence]
  <2>1. CASE v = [status |-> "pending", row |-> row]
    BY <1>1, <2>1 DEF FittingAnswer, Unsaved
  <2>2. CASE v = [status |-> "failed", row |-> [row EXCEPT ![s] = lost]]
    <3>1. lost \in Cell /\ lost.job = "none" /\ lost.slot = "dirty"
      BY <1>1 DEF Cell, JobState
    <3> HIDE DEF lost
    <3>2. /\ v.status = "failed" /\ v.row \in [Slots -> Cell] /\ v.row[s] = lost
          /\ \A u \in Slots : u # s => v.row[u] = row[u]
      BY <1>1, <2>2, <3>1
    <3>3. SavesFit(c, v.row, o)
      BY <1>1, <3>1, <3>2 DEF SavesFit
    <3>4. QED
      BY <1>1, <3>1, <3>2, <3>3 DEF FittingAnswer, Unsaved
  <2>3. QED
    BY <1>3, <2>1, <2>2 DEF Polls
<1>4. QED
  BY <1>1, <1>2, <1>3

\* _ensure_flushed asks for the save of what the buffer holds, and polls it.
LEMMA EnsureFlushedFits ==
  ASSUME NEW row \in [Slots -> Cell], NEW c, NEW o, SavesFit(c, row, o), RowOK(row),
         c.active \in Slots \cup {None}, NEW audio \in Audio,
         Unsaved(c, row) => audio = [id |-> o[c.active], whole |-> TRUE],
         NEW v \in EnsureFlushed(row, c.active, audio)
  PROVE  FittingAnswer(v, row, c, o)
<1>1. NeedsFlush(Shape(row), c.active) <=> Unsaved(c, row)
  BY ShapeType DEF NeedsFlush, Unsaved
<1>2. CASE ~Unsaved(c, row)
  <2>1. v = [status |-> "clean", row |-> row]
    BY <1>1, <1>2 DEF EnsureFlushed
  <2>2. QED
    BY <1>2, <2>1 DEF FittingAnswer
<1>3. CASE Unsaved(c, row)
  <2> DEFINE s == c.active
             asking == [row[s] EXCEPT !.job = "running", !.saving = audio]
             begun == IF row[s].job # "none" THEN row ELSE [row EXCEPT ![s] = asking]
  <2>1. s \in Slots /\ row[s] \in Cell /\ row[s].slot = "dirty"
        /\ audio = [id |-> o[s], whole |-> TRUE]
    BY <1>3 DEF Unsaved
  <2>2. v \in Polls(begun, s)
    BY <1>1, <1>3 DEF EnsureFlushed
  <2>3. asking \in Cell /\ asking.job = "running" /\ asking.slot = "dirty"
        /\ asking.saving = audio
    BY <2>1 DEF Cell, JobState
  <2>4. /\ begun \in [Slots -> Cell] /\ begun[s].job # "none"
        /\ begun[s] \in {row[s], asking}
        /\ \A u \in Slots : u # s => begun[u] = row[u]
    BY <2>1, <2>3
  <2> HIDE DEF asking, begun
  <2>5. SavesFit(c, begun, o)
    BY <2>1, <2>3, <2>4 DEF SavesFit
  <2>6. RowOK(begun)
    BY <2>1, <2>3, <2>4 DEF RowOK
  <2>7. FittingAnswer(v, begun, c, o)
    BY <2>1, <2>2, <2>3, <2>4, <2>5, <2>6, PollsFit
  <2>8. QED
    BY <2>1, <2>3, <2>4, <2>7 DEF FittingAnswer
<1>4. QED
  BY <1>2, <1>3

\* A column that fits goes on fitting with the answer's cells.
LEMMA AnswerAgrees ==
  ASSUME NEW c, NEW row, NEW e, NEW k, NEW n, NEW o, Agrees(c, row, e, k, n, o),
         c \in Column, NEW v, FittingAnswer(v, row, c, o)
  PROVE  Agrees(c, v.row, e, k, n, o)
<1>1. /\ c.active \in Slots \cup {None} /\ c.pending.to \in Slots \cup {None}
      /\ \A u \in Slots : /\ v.row[u].slot = "empty" <=> row[u].slot = "empty"
                          /\ row[u].slot = "clean" => v.row[u] = row[u]
      /\ SavesFit(c, v.row, o)
  BY DEF Column, Pending, FittingAnswer
<1>2. AllEmpty(v.row) <=> AllEmpty(row)
  BY <1>1 DEF AllEmpty
<1>3. BoundFits(c, v.row, e, k, o)
  BY <1>1, <1>2 DEF Agrees, BoundFits
<1>4. QueueFits(c, v.row, e, k)
  BY <1>1 DEF Agrees, QueueFits
<1>5. QED
  BY <1>1, <1>2, <1>3, <1>4 DEF Agrees, ReportsFit

\* A plan that waits for a save, is refused or goes on leaves a column that fits.
LEMMA CarryOutFits ==
  ASSUME NEW t, NEW p, NEW c, NEW row, PlanReady(t, p, c, row),
         Planned(c, row, eng[t], known[t], lenSeen[t], p), CarryOut(t, p, c, row)
  PROVE  WritesFit(t)
<1> DEFINE e == eng[t]
           k == known[t]
           n == lenSeen[t]
           o == own[t]
<1>1. /\ Ready(t, p, c, row) /\ e \in Engine /\ e.buf \in Audio /\ t \in Tracks
      /\ Agrees(c, row, e, k, n, o) /\ c \in Column /\ p.slot \in Slots /\ p \in Plan
      /\ c.active \in Slots \cup {None} /\ row \in [Slots -> Cell] /\ RowOK(row)
      /\ Typed(c, row, e) /\ QueueOK(c, row) /\ PlanOK(p, row)
  BY DEF PlanReady, Ready, Typed, AgreesNow, Plan, Column, Engine
<1>2. PlanFits(c, row, e, k, n, p)
  BY DEF PlanReady
<1>3. PICK v \in IF MustFlush(t, p, c, row) THEN EnsureFlushed(row, c.active, e.buf)
                 ELSE {[status |-> "clean", row |-> row]} :
        \/ /\ v.status = "pending"
           /\ Write(t, [c EXCEPT !.parked = [slot |-> p.slot, flush |-> c.active]],
                    v.row, e)
        \/ v.status = "failed" /\ Write(t, Unparked(c), v.row, e)
        \/ v.status = "clean" /\ Perform(t, p, c, v.row)
  BY DEF CarryOut
<1>4. MustFlush(t, p, c, row) => p.action \in {"record", "launch", "switch"}
  BY DEF MustFlush
<1>5. Unsaved(c, row) /\ p.action \in {"record", "launch", "switch"} =>
        /\ e.st \in {"play", "stopped"} /\ e.buf = [id |-> o[c.active], whole |-> TRUE]
        /\ e.buf.id = n
  <2> SUFFICES ASSUME Unsaved(c, row), p.action \in {"record", "launch", "switch"}
               PROVE  /\ e.st \in {"play", "stopped"} /\ e.buf.id = o[c.active]
                      /\ e.buf.whole /\ e.buf.id = n
    <3>1. ASSUME e.buf.id = o[c.active], e.buf.whole PROVE e.buf = [id |-> o[c.active], whole |-> TRUE]
      BY <1>1, <3>1 DEF Audio
    <3>2. QED
      BY <3>1
  <2>1. e.st \in {"off", "play", "stopped"} /\ e.buf.id \in {0, n} /\ c.pending.kind = "none"
    BY <1>2 DEF PlanFits
  <2>2. Sounds(e) /\ e.buf.id = o[c.active]
    BY <1>1, <2>1 DEF Agrees, BoundFits, Unsaved, SentNow
  <2>3. BufferFits(e, n)
    BY <1>1 DEF Agrees
  <2>4. QED
    BY <2>1, <2>2, <2>3 DEF BufferFits, Sounds
<1>6. MustFlush(t, p, c, row) => FittingAnswer(v, row, c, o)
  <2> SUFFICES ASSUME MustFlush(t, p, c, row) PROVE FittingAnswer(v, row, c, o)
    OBVIOUS
  <2>1. v \in EnsureFlushed(row, c.active, e.buf)
    BY <1>3
  <2>2. SavesFit(c, row, o)
    BY <1>1 DEF Agrees
  <2>3. Unsaved(c, row) => e.buf = [id |-> o[c.active], whole |-> TRUE]
    BY <1>4, <1>5
  <2> HIDE DEF e, o
  <2>4. QED
    BY <1>1, <2>1, <2>2, <2>3, EnsureFlushedFits
<1>7. ~MustFlush(t, p, c, row) => v = [status |-> "clean", row |-> row]
  BY <1>3
<1>8. CASE ~MustFlush(t, p, c, row)
  <2>1. Perform(t, p, c, row)
    BY <1>3, <1>7, <1>8
  <2>2. p.action \in {"record", "launch", "switch"} => ~Unsaved(c, row)
    <3>1. CASE p.action = "record"
      <4>1. Unsaved(c, row) => TakesOver(p, c, row) /\ p.save
        BY <1>1, <1>2, <3>1 DEF PlanFits, Planned, TakesOver, Unsaved
      <4>2. QED
        BY <1>8, <3>1, <4>1 DEF MustFlush
    <3>2. CASE p.action \in {"launch", "switch"}
      BY <1>8, <3>2 DEF Planned, MustFlush
    <3>3. QED
      BY <3>1, <3>2
  <2>3. QED
    BY <2>1, <2>2, PerformFits
<1>9. CASE MustFlush(t, p, c, row)
  <2>1. /\ FittingAnswer(v, row, c, o) /\ v.row \in [Slots -> Cell]
        /\ v.status \in {"clean", "pending", "failed"}
        /\ \A u \in Slots : v.row[u].slot = "empty" <=> row[u].slot = "empty"
    BY <1>6, <1>9 DEF FittingAnswer
  <2>2. Agrees(c, v.row, e, k, n, o)
    BY <1>1, <2>1, AnswerAgrees
  <2>3. CASE v.status = "pending"
    <3> DEFINE d == [c EXCEPT !.parked = [slot |-> p.slot, flush |-> c.active]]
    <3>1. /\ d.active = c.active /\ d.pending = c.pending /\ d.deferred = c.deferred
          /\ d.parked = [slot |-> p.slot, flush |-> c.active] /\ d.cleared = c.cleared
      BY <1>1 DEF Column
    <3>2. Write(t, d, v.row, e)
      BY <1>3, <2>3
    <3> HIDE DEF d
    <3>3. c.pending.kind = "none" /\ p.slot # c.active
      BY <1>2, <1>4, <1>9 DEF PlanFits
    <3>4. Unsaved(c, v.row)
      BY <2>1, <2>3 DEF FittingAnswer
    <3>5. e.st \in {"play", "stopped"} /\ e.buf.id = n
      <4>1. Unsaved(c, row)
        <5>1. row[c.active].slot # "dirty" => row[c.active].slot = "clean" \/ row[c.active].slot = "empty"
          BY <1>1, <3>4 DEF Unsaved, Cell, SlotState
        <5>2. QED
          BY <1>1, <2>1, <3>4, <5>1 DEF Unsaved, FittingAnswer
      <4>2. QED
        BY <1>4, <1>5, <1>9, <4>1
    <3>6. ParkedFits(d, v.row, e, n)
      BY <3>1, <3>3, <3>4, <3>5 DEF ParkedFits, Unsaved
    <3>7. SavesFit(d, v.row, o) /\ ReportsFit(d, v.row, e, k, n) /\ QueueFits(d, v.row, e, k)
      BY <2>2, <3>1, <3>3 DEF Agrees, SavesFit, ReportsFit, QueueFits
    <3>8. BoundFits(d, v.row, e, k, o) /\ UnboundFits(d, e)
      BY <2>2, <3>1, <3>4 DEF Agrees, BoundFits, UnboundFits, Unsaved, SentNow
    <3>9. QED
      BY <2>2, <3>2, <3>6, <3>7, <3>8 DEF WritesFit, FitsNow, Fits, Agrees
  <2>4. CASE v.status = "failed"
    <3> DEFINE d == Unparked(c)
    <3>1. /\ d.active = c.active /\ d.pending = c.pending /\ d.deferred = c.deferred
          /\ d.parked = NoPress /\ d.cleared = c.cleared
      BY <1>1, UnparkedGood
    <3>2. Write(t, d, v.row, e)
      BY <1>3, <2>4
    <3> HIDE DEF d
    <3>3. Fits(d, v.row, e, k, n, o)
      BY <2>2, <3>1, CalmerFits
    <3>4. QED
      BY <3>2, <3>3 DEF WritesFit, FitsNow
  <2>5. CASE v.status = "clean"
    <3>1. Ready(t, p, c, v.row)
      <4>1. Answer(v, row, c.active)
        BY <1>1, <1>3, <1>9, EnsureFlushedAnswer
      <4>2. PlanOK(p, v.row)
        BY <1>1, <2>1 DEF PlanOK
      <4>3. c.deferred \in Slots \cup {None} /\ c.pending.to \in Slots \cup {None}
        BY <1>1 DEF Column, Pending
      <4>4. QueueOK(c, v.row)
        BY <1>1, <4>1, <4>3 DEF QueueOK, Answer
      <4>5. QED
        BY <1>1, <2>1, <4>1, <4>2, <4>4 DEF Ready, Typed, Answer
    <3>2. PlanFits(c, v.row, e, k, n, p)
      BY <1>1, <1>2, <2>1 DEF PlanFits
    <3>3. PlanReady(t, p, c, v.row)
      BY <2>2, <3>1, <3>2 DEF PlanReady, AgreesNow
    <3>4. ~Unsaved(c, v.row)
      BY <2>1, <2>5 DEF FittingAnswer
    <3>5. QED
      BY <1>3, <2>5, <3>3, <3>4, PerformFits
  <2>6. QED
    BY <2>1, <2>3, <2>4, <2>5
<1>10. QED
  BY <1>8, <1>9

-----------------------------------------------------------------------------
(* What a press on a settled column plans can be carried out. *)

\* The plan of a press outside the active lane, with nothing queued.
LEMMA PlanOutside ==
  ASSUME NEW row \in [Slots -> Cell], NEW c \in Column, c.pending.kind = "none",
         NEW s \in Slots, NEW hold \in BOOLEAN, ~ActiveLane(Shape(row), c.active, s),
         NEW p, p = PlanCellPress(Shape(row), c.active, c.pending, s, hold)
  PROVE  /\ p.slot = s /\ ~p.clear
         /\ hold => p.action \in {"clear", "noop"}
         /\ ~hold => /\ p.save <=> Unsaved(c, row)
                     /\ \/ /\ p.action = "record" /\ row[s].slot = "empty"
                           /\ p.from = c.active
                        \/ /\ p.action = "launch" /\ row[s].slot # "empty"
                           /\ c.active = None
                        \/ /\ p.action = "switch" /\ row[s].slot # "empty"
                           /\ c.active # None
<1> DEFINE here == [action |-> "noop", slot |-> s, from |-> None,
                    save |-> FALSE, clear |-> FALSE]
           full == Occupied(Shape(row), s)
           first == NeedsFlush(Shape(row), c.active)
<1>1. full <=> row[s].slot # "empty"
  BY ShapeType DEF Occupied
<1>2. /\ first <=> Unsaved(c, row)
      /\ first \in BOOLEAN
  BY DEF NeedsFlush, Unsaved, Shape, Column
<1>3. p = IF hold
          THEN [here EXCEPT !.action = IF full THEN "clear" ELSE "noop"]
          ELSE IF ~full
          THEN [here EXCEPT !.action = "record", !.from = c.active, !.save = first]
          ELSE IF c.active = None
          THEN [here EXCEPT !.action = "launch"]
          ELSE [here EXCEPT !.action = "switch", !.from = c.active, !.save = first]
  BY DEF PlanCellPress
<1> HIDE DEF full, first
<1>4. CASE hold
  BY <1>3, <1>4
<1>5. CASE ~hold /\ ~full
  <2>1. p = [action |-> "record", slot |-> s, from |-> c.active, save |-> first, clear |-> FALSE]
    BY <1>3, <1>5
  <2>2. QED
    BY <1>1, <1>2, <1>5, <2>1
<1>6. CASE ~hold /\ full /\ c.active = None
  <2>1. p = [action |-> "launch", slot |-> s, from |-> None, save |-> FALSE, clear |-> FALSE]
    BY <1>3, <1>6
  <2>2. QED
    BY <1>1, <1>6, <2>1 DEF Unsaved
<1>7. CASE ~hold /\ full /\ c.active # None
  <2>1. p = [action |-> "switch", slot |-> s, from |-> c.active, save |-> first, clear |-> FALSE]
    BY <1>3, <1>7
  <2>2. QED
    BY <1>1, <1>2, <1>7, <2>1
<1>8. QED
  BY <1>4, <1>5, <1>6, <1>7

\* What a patient player waits for before touching a slot.
Waited(c, e, k, n, s) ==
  /\ k = e.st /\ e.buf.id \in {0, n}
  /\ c.pending.kind = "none" \/ PendingOwner(c.pending) = s
  /\ s = c.active \/ e.st \in {"off", "play", "stopped"}

HoldsOutside(c, row, s, hold) == hold => ~ActiveLane(Shape(row), c.active, s)

\* The player of a column that has settled plans what can be carried out.
LEMMA PressPlanned ==
  ASSUME NEW c \in Column, NEW row \in [Slots -> Cell], NEW e \in Engine, NEW k, NEW n, NEW o,
         Agrees(c, row, e, k, n, o), NEW s \in Slots, Waited(c, e, k, n, s),
         NEW hold \in BOOLEAN, HoldsOutside(c, row, s, hold),
         NEW p, p = PlanCellPress(Shape(row), c.active, c.pending, s, hold)
  PROVE  Planned(c, row, e, k, n, p) /\ p.slot = s
<1> USE DEF Waited, HoldsOutside
<1>1. /\ BoundFits(c, row, e, k, o) /\ UnboundFits(c, e) /\ QueueFits(c, row, e, k)
      /\ ReportsFit(c, row, e, k, n)
  BY DEF Agrees
<1>2. ~c.cleared
  BY <1>1, IdleFits DEF ReportsFit
<1> DEFINE here == [action |-> "noop", slot |-> s, from |-> None,
                    save |-> FALSE, clear |-> FALSE]
<1>3. CASE c.pending.kind # "none"
  <2>1. p = [here EXCEPT !.action = "cancel", !.from = c.pending.from, !.clear = TRUE]
    BY <1>3 DEF PlanCellPress
  <2>2. p.action = "cancel" /\ p.clear /\ p.slot = s
    BY <2>1
  <2>3. c.deferred # None
    BY <1>1, <1>3 DEF QueueFits, ActivePlay
  <2>4. c.active # None => row[c.active].slot # "empty"
    BY <1>1, <1>3 DEF QueueFits
  <2>5. QED
    BY <1>2, <2>2, <2>3, <2>4 DEF Planned, PlanFits
<1>4. CASE c.pending.kind = "none" /\ ActiveLane(Shape(row), c.active, s)
  <2>1. p = [here EXCEPT !.action = "forward"]
    BY <1>4 DEF PlanCellPress
  <2>2. p.action = "forward" /\ ~p.clear /\ p.slot = s
    BY <2>1
  <2>3. c.active = s \/ (c.active = None /\ row[s].slot = "empty")
    BY <1>4, ShapeType DEF ActiveLane, Occupied
  <2>4. QED
    BY <1>2, <1>4, <2>2, <2>3 DEF Planned, PlanFits
<1>5. CASE c.pending.kind = "none" /\ ~ActiveLane(Shape(row), c.active, s)
  <2>1. s # c.active /\ e.st \in {"off", "play", "stopped"}
    BY <1>5 DEF ActiveLane
  <2>2. /\ p.slot = s /\ ~p.clear
        /\ hold => p.action \in {"clear", "noop"}
        /\ ~hold => /\ p.save <=> Unsaved(c, row)
                    /\ \/ /\ p.action = "record" /\ row[s].slot = "empty"
                          /\ p.from = c.active
                       \/ /\ p.action = "launch" /\ row[s].slot # "empty"
                          /\ c.active = None
                       \/ /\ p.action = "switch" /\ row[s].slot # "empty"
                          /\ c.active # None
    BY <1>5, PlanOutside
  <2>3. CASE hold
    BY <1>2, <1>5, <2>1, <2>2, <2>3 DEF Planned, PlanFits
  <2>4. CASE ~hold /\ p.action = "record"
    BY <1>2, <1>5, <2>1, <2>2, <2>4 DEF Planned, PlanFits
  <2>5. CASE ~hold /\ p.action = "launch"
    BY <1>2, <1>5, <2>1, <2>2, <2>5 DEF Planned, PlanFits
  <2>6. CASE ~hold /\ p.action = "switch"
    <3>1. c.active # None /\ row[s].slot # "empty"
      BY <2>2, <2>6
    <3>2. row[c.active].slot # "empty"
      <4> SUFFICES ASSUME row[c.active].slot = "empty" PROVE FALSE
        OBVIOUS
      <4>1. Sounds(e)
        BY <1>1, <2>1, <3>1 DEF BoundFits, Sounds
      <4>2. AllEmpty(row)
        BY <1>1, <2>1, <3>1, <4>1 DEF BoundFits
      <4>3. QED
        BY <3>1, <4>2 DEF AllEmpty
    <3>3. QED
      BY <1>2, <1>5, <2>1, <2>2, <2>6, <3>1, <3>2 DEF Planned, PlanFits
  <2>7. QED
    BY <2>2, <2>3, <2>4, <2>5, <2>6
<1>6. QED
  BY <1>3, <1>4, <1>5

-----------------------------------------------------------------------------
(* Each step keeps what a patient player can rely on. *)

\* A fitting write to one track, which has no scene plan left.
LEMMA WriteFitKeeps ==
  ASSUME IInv, PInv, NEW t \in Tracks, WritesFit(t),
         known' = known, lenSeen' = lenSeen, own' = own, scene'[t] = NoPlan,
         \A u \in Tracks : u # t => scene'[u] = scene[u]
  PROVE  PInv'
<1>1. PICK c, row, e : FitsNow(t, c, row, e) /\ Write(t, c, row, e)
  BY DEF WritesFit
<1>2. /\ cells \in [Tracks -> [Slots -> Cell]] /\ col \in [Tracks -> Column]
      /\ eng \in [Tracks -> Engine]
  BY DEF IInv, TypeOK
<1>3. /\ cells'[t] = row /\ col'[t] = c /\ eng'[t] = e
      /\ \A u \in Tracks : u # t => /\ col'[u] = col[u] /\ cells'[u] = cells[u]
                                    /\ eng'[u] = eng[u]
  BY <1>1, <1>2 DEF Write
<1>4. SUFFICES ASSUME NEW u \in Tracks
               PROVE  /\ Fits(col'[u], cells'[u], eng'[u], known[u], lenSeen[u], own[u])
                      /\ SceneFits(col'[u], cells'[u], eng'[u], known[u], lenSeen[u], scene'[u])
  BY DEF PInv
<1>5. CASE u = t
  BY <1>1, <1>3, <1>5 DEF FitsNow, SceneFits
<1>6. CASE u # t
  BY <1>3, <1>6 DEF PInv
<1>7. QED
  BY <1>5, <1>6

\* A patient player touches only a column that has settled.
LEMMA SettledFits ==
  ASSUME Hurry = {}, NEW t, NEW s, Settled(t, s)
  PROVE  Waited(col[t], eng[t], known[t], lenSeen[t], s)
BY DEF Settled, Waited

\* The player presses a pad.
LEMMA PressFits ==
  ASSUME Hurry = {}, IInv, PInv, NEW t \in Tracks, NEW s \in Slots, NEW hold \in BOOLEAN,
         Press(t, s, hold)
  PROVE  PInv'
<1> DEFINE c == col[t]
           row == cells[t]
           e == eng[t]
           k == known[t]
           n == lenSeen[t]
           p == PlanCellPress(Shape(row), c.active, c.pending, s, hold)
<1>1. /\ Typed(c, row, e) /\ RowOK(row) /\ QueueOK(c, row) /\ k \in EngineState
      /\ c \in Column /\ row \in [Slots -> Cell] /\ e \in Engine
      /\ AgreesNow(t, c, row, e)
  BY DEF IInv, TypeOK, Good, Typed, PInv, Fits, AgreesNow
<1>2. /\ MainIdle /\ Settled(t, s)
      /\ hold => ~ActiveLane(Shape(row), c.active, s)
      /\ CarryOut(t, p, c, row) /\ UNCHANGED <<scene, heard, takes, own>>
  BY DEF Press
<1>3. Ready(t, p, c, row)
  BY <1>1, PlannedReady
<1>4. Planned(c, row, e, k, n, p)
  <2> DEFINE o == own[t]
  <2>1. Waited(c, e, k, n, s) /\ HoldsOutside(c, row, s, hold)
    BY <1>2, SettledFits DEF HoldsOutside
  <2>2. Agrees(c, row, e, k, n, o)
    BY <1>1 DEF AgreesNow
  <2> HIDE DEF k, n, o, c, row, e, p
  <2>3. QED
    BY <1>1, <2>1, <2>2, PressPlanned DEF p
<1> HIDE DEF p, c, row, e, k, n
<1>5. PlanReady(t, p, c, row)
  BY <1>1, <1>3, <1>4 DEF PlanReady, Planned, e, k, n
<1>6. WritesFit(t)
  BY <1>2, <1>4, <1>5, CarryOutFits DEF e, k, n
<1>7. QED
  BY <1>2, <1>6, WriteFitKeeps DEF heard, MainIdle

\* The long press of the active lane.
LEMMA HoldClearFits ==
  ASSUME Hurry = {}, IInv, PInv, NEW t \in Tracks, HoldClear(t)
  PROVE  PInv'
<1> DEFINE c == col[t]
           s == c.active
           e == eng[t]
           k == known[t]
           n == lenSeen[t]
           o == own[t]
           r == Deleted(cells[t], s)
           d == [Abandoned(c) EXCEPT !.active = None, !.cleared = Unheard(t)]
<1>1. /\ Typed(c, cells[t], e) /\ QueueOK(c, cells[t]) /\ c \in Column
      /\ cells[t] \in [Slots -> Cell]
      /\ SavesFit(c, cells[t], o) /\ ReportsFit(c, cells[t], e, k, n)
  BY DEF IInv, Good, Typed, PInv, Fits, Agrees
<1>2. /\ MainIdle /\ s # None /\ Settled(t, s) /\ e.st # "waitstart"
      /\ UNCHANGED <<scene, heard, history>>
  BY DEF HoldClear
<1>3. k = e.st
  BY <1>2, SettledFits DEF Waited
<1>4. Write(t, d, r, IdleEngine)
  BY <1>2, <1>3 DEF HoldClear
<1>5. /\ Abandoned(c) \in Column
      /\ Abandoned(c).deferred = None /\ Abandoned(c).pending = NoPending
      /\ Abandoned(c).parked = NoPress
  BY <1>1, AbandonedGood
<1>6. /\ d.active = None /\ d.pending.kind = "none" /\ d.deferred = None
      /\ d.parked = NoPress
      /\ d.cleared => k # "off"
  <2>1. ASSUME NEW a \in Column, NEW b \in BOOLEAN
        PROVE  LET f == [a EXCEPT !.active = None, !.cleared = b]
               IN /\ f.active = None /\ f.pending = a.pending /\ f.deferred = a.deferred
                  /\ f.parked = a.parked /\ f.cleared = b
    BY DEF Column
  <2>2. Unheard(t) \in BOOLEAN
    BY DEF Unheard
  <2>3. /\ d.active = None /\ d.pending = NoPending /\ d.deferred = None /\ d.parked = NoPress
        /\ d.cleared = Unheard(t)
    BY <1>5, <2>1, <2>2
  <2> HIDE DEF d
  <2>4. d.cleared => Unheard(t)
    BY <2>3
  <2>5. QED
    BY <2>3, <2>4 DEF Unheard, NoPending
<1>7. /\ r[s].slot = "empty" /\ r[s].job = "none"
      /\ \A u \in Slots : u # s => r[u] = cells[t][u]
  BY <1>1, <1>2 DEF Deleted, BlankCell, Column
<1> HIDE DEF d, r
<1>8. SavesFit(d, r, o)
  BY <1>1, <1>7 DEF SavesFit
<1>9. AllEmpty(cells[t]) => AllEmpty(r)
  BY <1>7 DEF AllEmpty
<1>10. /\ BufferFits(IdleEngine, n) /\ BoundFits(d, r, IdleEngine, k, o)
       /\ UnboundFits(d, IdleEngine) /\ QueueFits(d, r, IdleEngine, k)
       /\ ParkedFits(d, r, IdleEngine, n)
  BY <1>6, IdleFits DEF BoundFits, UnboundFits, QueueFits, ParkedFits
<1>11. ReportsFit(d, r, IdleEngine, k, n)
  BY <1>1, <1>6, <1>9, IdleFits DEF ReportsFit
<1>12. WritesFit(t)
  BY <1>4, <1>8, <1>10, <1>11 DEF WritesFit, FitsNow, Fits, Agrees
<1>13. QED
  BY <1>2, <1>12, WriteFitKeeps DEF heard, history, MainIdle

\* A scene press plans its row, for columns that have settled.
LEMMA ScenePressFits ==
  ASSUME Hurry = {}, IInv, PInv, NEW s \in Slots, ScenePress(s)
  PROVE  PInv'
<1> DEFINE tracks == SceneTracks([t \in Tracks |-> Shape(cells[t])],
                                 [t \in Tracks |-> col[t].active],
                                 [t \in Tracks |-> known[t] \in ActivePlay], s)
<1>1. /\ \A t \in tracks : Settled(t, s)
      /\ scene' = [t \in Tracks |->
                     IF t \in tracks
                     THEN PlanCellPress(Shape(cells[t]), col[t].active,
                                        col[t].pending, s, FALSE)
                     ELSE NoPlan]
      /\ UNCHANGED <<cells, col, eng, heard, takes, own>>
  BY DEF ScenePress
<1>2. ASSUME NEW t \in tracks PROVE t \in Tracks /\ cells[t][s].slot # "empty"
  <2>1. t \in Tracks /\ Occupied(Shape(cells[t]), s)
    BY DEF SceneTracks
  <2>2. cells[t] \in [Slots -> Cell]
    BY <2>1 DEF IInv, TypeOK
  <2>3. QED
    BY <2>1, <2>2, ShapeType DEF Occupied
<1> HIDE DEF tracks
<1>3. ASSUME NEW t \in tracks
      PROVE  SceneFits(col[t], cells[t], eng[t], known[t], lenSeen[t], scene'[t])
  <2> DEFINE c == col[t]
             row == cells[t]
             e == eng[t]
             k == known[t]
             n == lenSeen[t]
             o == own[t]
             p == scene'[t]
  <2>1. /\ t \in Tracks /\ c \in Column /\ row \in [Slots -> Cell] /\ e \in Engine
        /\ Agrees(c, row, e, k, n, o)
    BY <1>2 DEF IInv, TypeOK, PInv, Fits
  <2>2. Waited(c, e, k, n, s)
    BY <1>1, SettledFits
  <2>3. PICK hold \in BOOLEAN : ~hold /\ p = PlanCellPress(Shape(row), c.active, c.pending, s, hold)
    BY <1>1, <2>1
  <2>4. row[s].slot # "empty"
    BY <1>2
  <2> HIDE DEF c, row, e, k, n, o, p
  <2>5. Planned(c, row, e, k, n, p) /\ p.slot = s
    <3>1. HoldsOutside(c, row, s, hold)
      BY <2>3 DEF HoldsOutside
    <3>2. QED
      BY <2>1, <2>2, <2>3, <3>1, PressPlanned
  <2>6. p.action \in {"cancel", "forward", "launch", "switch"}
    <3>1. CASE c.pending.kind # "none"
      BY <2>2, <2>3, <3>1 DEF PlanCellPress, Waited
    <3>2. CASE c.pending.kind = "none" /\ ActiveLane(Shape(row), c.active, s)
      BY <2>3, <3>2 DEF PlanCellPress
    <3>3. CASE c.pending.kind = "none" /\ ~ActiveLane(Shape(row), c.active, s)
      BY <2>1, <2>3, <2>4, <3>3, PlanOutside
    <3>4. QED
      BY <3>1, <3>2, <3>3
  <2>7. p.action = "forward" => c.active = s /\ k \in {"ring", "play", "stopped"}
    <3> SUFFICES ASSUME p.action = "forward"
                 PROVE  c.active = s /\ k \in {"ring", "play", "stopped"}
      OBVIOUS
    <3>1. c.active = s
      BY <2>4, <2>5 DEF Planned, PlanFits
    <3>2. c.active # None
      BY <3>1, NoneAssumption
    <3>3. Sounds(e)
      BY <2>1, <2>4, <3>1, <3>2 DEF Agrees, BoundFits
    <3>4. QED
      BY <2>2, <3>1, <3>3 DEF Sounds, Waited
  <2>8. QED
    BY <2>4, <2>5, <2>6, <2>7 DEF SceneFits, c, row, e, k, n, p
<1>4. ASSUME NEW t \in Tracks, t \notin tracks PROVE scene'[t] = NoPlan
  BY <1>1, <1>4
<1>5. QED
  BY <1>1, <1>3, <1>4 DEF PInv, SceneFits, heard

\* A scene press carries one of its plans out.
LEMMA SceneStepFits ==
  ASSUME Hurry = {}, IInv, PInv, NEW t \in Tracks, SceneStep(t)
  PROVE  PInv'
<1> DEFINE c == col[t]
           row == cells[t]
           e == eng[t]
           p == scene[t]
<1>1. /\ Typed(c, row, e) /\ RowOK(row) /\ QueueOK(c, row) /\ known[t] \in EngineState
      /\ AgreesNow(t, c, row, e) /\ PlanOK(p, row)
      /\ SceneFits(c, row, e, known[t], lenSeen[t], p)
      /\ scene \in [Tracks -> Plan \cup {NoPlan}]
  BY DEF IInv, TypeOK, Good, PInv, Fits, AgreesNow
<1>2. /\ p # NoPlan /\ CarryOut(t, p, c, row)
      /\ scene' = [scene EXCEPT ![t] = NoPlan] /\ UNCHANGED <<heard, history>>
  BY DEF SceneStep
<1>3. /\ Ready(t, p, c, row) /\ Planned(c, row, e, known[t], lenSeen[t], p)
  BY <1>1, <1>2 DEF Ready, PlanOK, SceneFits
<1>4. WritesFit(t)
  BY <1>1, <1>2, <1>3, CarryOutFits DEF PlanReady, Planned
<1>5. QED
  BY <1>1, <1>2, <1>4, WriteFitKeeps DEF heard, history

\* A parked press is replayed, or refused.
LEMMA ResumeFits ==
  ASSUME Hurry = {}, IInv, PInv, NEW t \in Tracks, Resume(t)
  PROVE  PInv'
<1> DEFINE b == col[t]
           e == eng[t]
           k == known[t]
           n == lenSeen[t]
           o == own[t]
           parked == b.parked
           c == Unparked(b)
<1>1. /\ b \in Column /\ cells[t] \in [Slots -> Cell] /\ e \in Engine
      /\ RowOK(cells[t]) /\ QueueOK(b, cells[t]) /\ ParkedOK(b, cells[t])
      /\ Typed(b, cells[t], e) /\ k \in EngineState
      /\ Agrees(b, cells[t], e, k, n, o) /\ ParkedFits(b, cells[t], e, n)
      /\ b.deferred \in Slots \cup {None} /\ b.pending.to \in Slots \cup {None}
  BY DEF IInv, TypeOK, Good, Typed, PInv, Fits, Column, Pending
<1>2. /\ MainIdle /\ parked # NoPress /\ UNCHANGED <<scene, heard, history>>
  BY DEF Resume
<1>3. parked.slot \in Slots /\ parked.flush \in Slots
  BY <1>1, <1>2 DEF Column, Parked
<1>4. /\ b.active = parked.flush /\ parked.slot # b.active /\ b.active \in Slots
      /\ cells[t][b.active].slot = "dirty" /\ cells[t][b.active].job # "none"
      /\ e.st \in {"play", "stopped"} /\ e.buf.id = n
  BY <1>1, <1>2, <1>3 DEF ParkedFits, ParkedOK
<1>5. PICK v \in Polls(cells[t], parked.flush) :
        \/ v.status = "failed" /\ Write(t, c, v.row, e)
        \/ /\ v.status = "clean"
           /\ CarryOut(t, PlanCellPress(Shape(v.row), c.active, c.pending, parked.slot, FALSE),
                       c, v.row)
  BY DEF Resume
<1>6. FittingAnswer(v, cells[t], b, o)
  BY <1>1, <1>4, <1>5, PollsFit DEF Agrees
<1>7. Answer(v, cells[t], parked.flush)
  BY <1>1, <1>3, <1>5, PollsAnswer
<1>8. /\ v.row \in [Slots -> Cell] /\ RowOK(v.row) /\ QueueOK(b, v.row)
      /\ Typed(b, v.row, e) /\ Agrees(b, v.row, e, k, n, o)
  BY <1>1, <1>6, <1>7, AnswerAgrees DEF Answer, QueueOK, Typed
<1>9. /\ c \in Column /\ c.parked = NoPress /\ QueueOK(c, v.row)
      /\ c.active = b.active /\ c.pending = b.pending
      /\ c.deferred = b.deferred /\ c.cleared = b.cleared
  BY <1>8, UnparkedGood
<1>10. Typed(c, v.row, e)
  BY <1>8, <1>9 DEF Typed
<1> HIDE DEF c
<1>11. Fits(c, v.row, e, k, n, o)
  BY <1>8, <1>9, CalmerFits
<1>12. CASE v.status = "failed" /\ Write(t, c, v.row, e)
  <2>1. WritesFit(t)
    BY <1>11, <1>12 DEF WritesFit, FitsNow
  <2>2. QED
    BY <1>2, <2>1, WriteFitKeeps DEF heard, history, MainIdle
<1>13. CASE /\ v.status = "clean"
            /\ CarryOut(t, PlanCellPress(Shape(v.row), c.active, c.pending, parked.slot, FALSE),
                        c, v.row)
  <2>1. PICK hold \in BOOLEAN : ~hold
    OBVIOUS
  <2> DEFINE p == PlanCellPress(Shape(v.row), c.active, c.pending, parked.slot, hold)
  <2>2. Ready(t, p, c, v.row)
    BY <1>3, <1>8, <1>9, <1>10, PlannedReady
  <2>3. CarryOut(t, p, c, v.row)
    BY <1>13, <2>1
  <2>4. /\ c.pending.kind = "none" /\ ~c.cleared /\ c.active # None
        /\ v.row[c.active].slot # "empty"
    <3>1. b.pending.kind = "none" /\ ~b.cleared /\ b.active # None
      BY <1>1, <1>2, <1>4, IdleFits, NoneAssumption DEF Agrees, QueueFits, ReportsFit
    <3>2. QED
      BY <1>4, <1>6, <1>9, <3>1 DEF FittingAnswer
  <2>5. ~ActiveLane(Shape(v.row), c.active, parked.slot)
    BY <1>4, <1>9, <2>4 DEF ActiveLane
  <2>6. /\ p.slot = parked.slot /\ ~p.clear
        /\ p.save <=> Unsaved(c, v.row)
        /\ \/ /\ p.action = "record" /\ v.row[parked.slot].slot = "empty"
              /\ p.from = c.active
           \/ p.action = "switch"
    BY <1>3, <1>8, <1>9, <2>1, <2>4, <2>5, PlanOutside
  <2> HIDE DEF p
  <2>7. Planned(c, v.row, e, k, n, p)
    BY <1>4, <1>9, <2>4, <2>6 DEF Planned, PlanFits
  <2>8. WritesFit(t)
    BY <1>1, <1>11, <2>2, <2>3, <2>7, CarryOutFits DEF PlanReady, Planned, Fits, AgreesNow
  <2>9. QED
    BY <1>2, <2>8, WriteFitKeeps DEF heard, history, MainIdle
<1>14. QED
  BY <1>5, <1>12, <1>13

\* Stop All, on loops whose states have been reported.
LEMMA StopAllFits ==
  ASSUME Hurry = {}, IInv, PInv, StopAll
  PROVE  PInv'
<1>1. /\ MainIdle /\ \A t \in Tracks : known[t] = eng[t].st
      /\ eng' = [t \in Tracks |-> HitQuiet(eng[t])]
      /\ col' = [t \in Tracks |-> Abandoned(col[t])]
      /\ UNCHANGED <<cells, scene, heard, takes, own>>
  BY DEF StopAll
<1>2. SUFFICES ASSUME NEW t \in Tracks
               PROVE  /\ Fits(col'[t], cells[t], eng'[t], known[t], lenSeen[t], own[t])
                      /\ SceneFits(col'[t], cells[t], eng'[t], known[t], lenSeen[t], NoPlan)
  BY <1>1 DEF PInv, MainIdle, heard
<1> DEFINE c == col[t]
           row == cells[t]
           e == eng[t]
           k == known[t]
           n == lenSeen[t]
           o == own[t]
           d == Abandoned(c)
           f == HitQuiet(e)
<1>3. /\ Agrees(c, row, e, k, n, o) /\ e \in Engine /\ c \in Column
      /\ Typed(c, row, e) /\ QueueOK(c, row) /\ k = e.st
  BY <1>1 DEF IInv, TypeOK, Good, PInv, Fits
<1>4. /\ d.active = c.active /\ d.pending = NoPending /\ d.deferred = None
      /\ d.parked = NoPress
  BY <1>3, AbandonedGood
<1>5. d.cleared = c.cleared
  BY <1>3 DEF Abandoned, Unparked, Unqueued, Column
<1>6. col'[t] = d /\ eng'[t] = f
  BY <1>1
<1> HIDE DEF d
<1>7. ~SentNow(c) /\ BufferFits(e, n)
  BY <1>3 DEF Agrees, QueueFits, SentNow, ActivePlay
<1>8. Fits(d, row, e, k, n, o)
  BY <1>3, <1>4, <1>5, <1>7, CalmerFits
<1>9. Fits(d, row, f, k, n, o)
  <2>1. CASE ~Sounds(e)
    BY <1>8, <2>1, QuietLeaves
  <2>2. CASE Sounds(e)
    <3>1. BufferFits(f, n) /\ Sounds(f) /\ f.buf.id = e.buf.id
      BY <1>3, <1>7, <2>2, HitsFit
    <3>2. ~SentNow(d)
      BY <1>4 DEF SentNow, NoPending
    <3>3. k \notin {"rec", "waitstop"}
      BY <1>3, <2>2 DEF Sounds
    <3> HIDE DEF f
    <3>4. QED
      BY <1>4, <1>8, <2>2, <3>1, <3>2, <3>3, MovedFits
  <2>3. QED
    BY <2>1, <2>2
<1>10. QED
  BY <1>6, <1>9 DEF SceneFits

\* Clear All.
LEMMA ClearAllFits ==
  ASSUME IInv, PInv, ClearAll
  PROVE  PInv'
<1>1. /\ MainIdle /\ eng' = [t \in Tracks |-> IdleEngine]
      /\ col' = [t \in Tracks |-> [BlankColumn EXCEPT !.cleared = Unheard(t)]]
      /\ cells' = [t \in Tracks |-> [s \in Slots |-> BlankCell(cells[t][s].clip)]]
      /\ lenSeen' = [t \in Tracks |-> 0] /\ UNCHANGED <<scene, known, own>>
  BY DEF ClearAll, history
<1>2. SUFFICES ASSUME NEW t \in Tracks
               PROVE  /\ Fits(col'[t], cells'[t], IdleEngine, known[t], 0, own[t])
                      /\ SceneFits(col'[t], cells'[t], IdleEngine, known[t], 0, NoPlan)
  BY <1>1 DEF PInv, MainIdle
<1> DEFINE d == col'[t]
           r == cells'[t]
           k == known[t]
           o == own[t]
<1>3. /\ d.active = None /\ d.pending.kind = "none" /\ d.deferred = None
      /\ d.parked = NoPress
      /\ d.cleared => k # "off"
  <2>1. d = [active |-> None, pending |-> NoPending, deferred |-> None,
             gridWait |-> FALSE, parked |-> NoPress, cleared |-> Unheard(t)]
    BY <1>1 DEF BlankColumn
  <2> HIDE DEF d
  <2>2. d.cleared => Unheard(t)
    BY <2>1
  <2>3. QED
    BY <2>1, <2>2 DEF Unheard, NoPending
<1>4. \A s \in Slots : r[s].slot = "empty" /\ r[s].job = "none"
  BY <1>1 DEF BlankCell
<1> HIDE DEF d, r
<1>5. SavesFit(d, r, o) /\ AllEmpty(r)
  BY <1>4 DEF SavesFit, AllEmpty
<1>6. /\ BufferFits(IdleEngine, 0) /\ BoundFits(d, r, IdleEngine, k, o)
      /\ UnboundFits(d, IdleEngine) /\ QueueFits(d, r, IdleEngine, k)
      /\ ParkedFits(d, r, IdleEngine, 0)
  BY <1>3, IdleFits DEF BoundFits, UnboundFits, QueueFits, ParkedFits
<1>7. ReportsFit(d, r, IdleEngine, k, 0)
  BY <1>3, <1>5, IdleFits DEF ReportsFit
<1>8. QED
  BY <1>5, <1>6, <1>7 DEF Fits, Agrees, SceneFits, d, r

-----------------------------------------------------------------------------
(* The reports, the polls and the engine, which may run in the middle of a scene
   press.                                                                  *)

\* A step of one track only.
LEMMA OneTrackFits ==
  ASSUME PInv, NEW t \in Tracks,
         Fits(col'[t], cells'[t], eng'[t], known'[t], lenSeen'[t], own'[t]),
         SceneFits(col'[t], cells'[t], eng'[t], known'[t], lenSeen'[t], scene'[t]),
         \A u \in Tracks : u # t =>
           /\ col'[u] = col[u] /\ cells'[u] = cells[u] /\ eng'[u] = eng[u]
           /\ known'[u] = known[u] /\ lenSeen'[u] = lenSeen[u] /\ own'[u] = own[u]
           /\ scene'[u] = scene[u]
  PROVE  PInv'
<1>1. SUFFICES ASSUME NEW u \in Tracks, u # t
               PROVE  /\ Fits(col'[u], cells'[u], eng'[u], known'[u], lenSeen'[u], own'[u])
                      /\ SceneFits(col'[u], cells'[u], eng'[u], known'[u], lenSeen'[u], scene'[u])
  BY DEF PInv
<1>2. QED
  BY <1>1 DEF PInv

\* A step that leaves a scene plan as good as it was: the column is bound and queued
\* as before, its cells have at most gained a clip, and an idle or resting loop
\* stays as it is.
SceneStays(c, row, e, k, n, d, r, f, j, m) ==
  /\ d.active = c.active /\ d.pending = c.pending /\ d.deferred = c.deferred
  /\ d.cleared => c.cleared
  /\ \A s \in Slots : row[s].slot # "empty" => r[s].slot = row[s].slot
  /\ e.st \in {"off", "play", "stopped"} => f = e
  /\ \/ j = k
     \/ c.active # None /\ row[c.active].slot # "empty" => j \in {"ring", "play", "stopped"}
  /\ e.buf.id \in {0, n} => e.buf.id \in {0, m}

\* A scene plan that waits for its turn.
LEMMA SceneKept ==
  ASSUME NEW c, NEW row, NEW e, NEW k, NEW n, NEW p, SceneFits(c, row, e, k, n, p),
         p = NoPlan \/ p.slot \in Slots, c.active \in Slots \cup {None},
         NEW d, NEW r, NEW f, NEW j, NEW m, SceneStays(c, row, e, k, n, d, r, f, j, m)
  PROVE  SceneFits(d, r, f, j, m, p)
<1> USE DEF SceneStays
<1> SUFFICES ASSUME p # NoPlan PROVE SceneFits(d, r, f, j, m, p)
  BY DEF SceneFits
<1>1. /\ p.slot \in Slots /\ p.action \in {"cancel", "forward", "launch", "switch"}
      /\ p.action = "forward" => /\ c.active = p.slot /\ row[p.slot].slot # "empty"
                                 /\ k \in {"ring", "play", "stopped"}
      /\ PlanFits(c, row, e, k, n, p)
      /\ p.action \in {"record", "launch", "switch"} => (p.save <=> Unsaved(c, row))
      /\ ~d.cleared
  BY DEF SceneFits, Planned, PlanFits
<1>2. CASE p.action = "cancel"
  BY <1>1, <1>2 DEF SceneFits, Planned, PlanFits
<1>3. CASE p.action = "forward"
  <2>1. j \in {"ring", "play", "stopped"}
    BY <1>1, <1>3, NoneAssumption
  <2>2. QED
    BY <1>1, <1>3, <2>1 DEF SceneFits, Planned, PlanFits
<1>4. CASE p.action = "launch"
  BY <1>1, <1>4 DEF SceneFits, Planned, PlanFits, Unsaved
<1>5. CASE p.action = "switch"
  <2>1. r[c.active].slot = row[c.active].slot
    BY <1>1, <1>5 DEF PlanFits
  <2>2. Unsaved(d, r) <=> Unsaved(c, row)
    BY <2>1 DEF Unsaved
  <2>3. QED
    BY <1>1, <1>5, <2>1, <2>2 DEF SceneFits, Planned, PlanFits
<1>6. QED
  BY <1>1, <1>2, <1>3, <1>4, <1>5

\* What is queued lands: the buffer is then the slot's take, and the slot active.
Landed(d, row, f, k, n, o) ==
  /\ Fits(d, row, f, k, n, o)
  /\ d.pending.kind = "none" /\ ~d.cleared
  /\ d.active # None => row[d.active].slot # "empty"

\* land_pending, whatever is reported meanwhile.
LEMMA LandingFits ==
  ASSUME NEW t \in Tracks, NEW c \in Column, NEW row \in [Slots -> Cell], NEW k, NEW n, NEW o,
         Agrees(c, row, eng[t], k, n, o), c.pending.kind # "none",
         LandPending(t, c, row), NEW j
  PROVE  \E d, f : Write(t, d, row, f) /\ Landed(d, row, f, j, n, o)
<1> DEFINE e == eng[t]
           d == Resolved(c)
           to == c.pending.to
           f == IF c.deferred = None THEN e ELSE Launched(e, c, row, c.deferred)
<1>1. /\ BufferFits(e, n) /\ SavesFit(c, row, o) /\ QueueFits(c, row, e, k)
      /\ ReportsFit(c, row, e, k, n)
  BY DEF Agrees
<1>2. /\ c.parked = NoPress /\ ~c.cleared /\ to \in Slots /\ row[to].slot = "clean"
      /\ c.active # None => row[c.active].slot = "clean"
      /\ c.deferred = None => e.st = "play" /\ e.buf = row[to].clip
      /\ c.deferred # None => c.deferred = to /\ to # c.active
  BY <1>1 DEF QueueFits, Column, Pending
<1>3. row[to].clip = [id |-> o[to], whole |-> TRUE] /\ o[to] # 0
  BY <1>1, <1>2 DEF SavesFit
<1>4. HasClip(row[to])
  BY <1>3 DEF HasClip
<1>5. /\ c.deferred = None \/ CanLaunch(c, row, c.deferred)
      /\ c.deferred # None => f = HitLoad(row[to].clip)
  BY <1>2, <1>4 DEF CanLaunch, Launched, InBuffer
<1>6. Write(t, d, row, f)
  BY <1>5 DEF LandPending
<1>7. f.st = "play" /\ f.buf = row[to].clip
  BY <1>2, <1>5 DEF HitLoad
<1>8. f.buf.id = o[to] /\ f.buf.whole
  BY <1>3, <1>7
<1>9. /\ d.active = to /\ d.pending = NoPending /\ d.deferred = None
      /\ d.parked = NoPress /\ ~d.cleared
  BY <1>2 DEF Resolved, Unqueued, ActiveAtBoundary, Column
<1> HIDE DEF d, f, to
<1>10. BufferFits(f, n) /\ Sounds(f)
  BY <1>3, <1>7, <1>8 DEF BufferFits, Sounds
<1>11. SavesFit(d, row, o)
  <2>1. \A s \in Slots : row[s].slot # "dirty"
    BY <1>1, <1>2, NoneAssumption DEF SavesFit
  <2>2. QED
    BY <1>1, <2>1 DEF SavesFit
<1>12. d.active # None /\ row[d.active].slot = "clean"
  BY <1>2, <1>9, NoneAssumption
<1>13. BoundFits(d, row, f, j, o)
  BY <1>8, <1>9, <1>10, <1>12 DEF BoundFits
<1>14. UnboundFits(d, f) /\ QueueFits(d, row, f, j) /\ ParkedFits(d, row, f, n)
  BY <1>9, <1>12 DEF UnboundFits, QueueFits, ParkedFits, NoPending
<1>15. ReportsFit(d, row, f, j, n)
  BY <1>1, <1>7, <1>9 DEF ReportsFit
<1>16. Landed(d, row, f, j, n, o)
  BY <1>9, <1>10, <1>11, <1>12, <1>13, <1>14, <1>15 DEF Landed, Fits, Agrees, NoPending
<1>17. QED
  BY <1>6, <1>16

\* Of the plans of a scene press only a cancel can find something queued, and it
\* can be carried out on what landed.
LEMMA LandedScene ==
  ASSUME NEW c, NEW row, NEW e, NEW k, NEW n, NEW p, SceneFits(c, row, e, k, n, p),
         c.pending.kind # "none", NEW d, NEW f, NEW j, NEW o, Landed(d, row, f, j, n, o)
  PROVE  SceneFits(d, row, f, j, n, p)
<1>1. p # NoPlan => p.action = "cancel" /\ p.clear
  BY DEF SceneFits, Planned, PlanFits
<1>2. QED
  BY <1>1 DEF SceneFits, Planned, PlanFits, Landed

\* A step that writes what landed.
LEMMA LandsFit ==
  ASSUME IInv, PInv, NEW t \in Tracks, col[t].pending.kind # "none",
         LandPending(t, col[t], cells[t]),
         lenSeen' = lenSeen, own' = own, scene' = scene,
         \A u \in Tracks : u # t => known'[u] = known[u]
  PROVE  PInv'
<1> DEFINE n == lenSeen[t]
           o == own[t]
           j == known'[t]
<1>1. /\ col[t] \in Column /\ cells[t] \in [Slots -> Cell]
      /\ Agrees(col[t], cells[t], eng[t], known[t], n, o)
      /\ SceneFits(col[t], cells[t], eng[t], known[t], n, scene[t])
      /\ cells \in [Tracks -> [Slots -> Cell]] /\ col \in [Tracks -> Column]
      /\ eng \in [Tracks -> Engine]
  BY DEF IInv, TypeOK, PInv, Fits
<1> HIDE DEF j
<1>2. PICK d, f : Write(t, d, cells[t], f) /\ Landed(d, cells[t], f, j, n, o)
  BY <1>1, LandingFits
<1>3. SceneFits(d, cells[t], f, j, n, scene[t])
  BY <1>1, <1>2, LandedScene
<1>4. /\ col'[t] = d /\ cells'[t] = cells[t] /\ eng'[t] = f
      /\ \A u \in Tracks : u # t => /\ col'[u] = col[u] /\ cells'[u] = cells[u]
                                    /\ eng'[u] = eng[u]
  BY <1>1, <1>2 DEF Write
<1>5. Fits(d, cells[t], f, j, n, o)
  BY <1>2 DEF Landed
<1>6. QED
  BY <1>3, <1>4, <1>5, OneTrackFits DEF j

\* A step that drops what is held, or leaves it, with the same loop.
LEMMA DropsFit ==
  ASSUME IInv, PInv, NEW t \in Tracks,
         Write(t, col[t], cells[t], eng[t])
         \/ (Write(t, Abandoned(col[t]), cells[t], eng[t]) /\ col[t].deferred # None),
         known' = known, lenSeen' = lenSeen, own' = own, scene' = scene
  PROVE  PInv'
<1> DEFINE c == col[t]
           a == Abandoned(c)
           row == cells[t]
           e == eng[t]
           k == known[t]
           n == lenSeen[t]
           o == own[t]
           p == scene[t]
<1>1. /\ Agrees(c, row, e, k, n, o) /\ SceneFits(c, row, e, k, n, p)
      /\ Typed(c, row, e) /\ QueueOK(c, row) /\ c \in Column
      /\ cells \in [Tracks -> [Slots -> Cell]] /\ col \in [Tracks -> Column]
      /\ eng \in [Tracks -> Engine]
  BY DEF IInv, TypeOK, Good, PInv, Fits
<1>2. CASE Write(t, c, row, e)
  <2>1. col' = col /\ cells' = cells /\ eng' = eng
    BY <1>1, <1>2 DEF Write
  <2>2. QED
    BY <2>1 DEF PInv
<1>3. CASE Write(t, a, row, e) /\ c.deferred # None
  <2>1. /\ a.active = c.active /\ a.pending = NoPending /\ a.deferred = None
        /\ a.parked = NoPress
    BY <1>1, AbandonedGood
  <2>2. a.cleared = c.cleared
    BY <1>1 DEF Abandoned, Unparked, Unqueued, Column
  <2>3. /\ col'[t] = a /\ cells'[t] = row /\ eng'[t] = e
        /\ \A u \in Tracks : u # t => /\ col'[u] = col[u] /\ cells'[u] = cells[u]
                                      /\ eng'[u] = eng[u]
    BY <1>1, <1>3 DEF Write
  <2> HIDE DEF a
  <2>4. ~SentNow(c) /\ c.pending.kind # "none"
        /\ (c.active # None => row[c.active].slot # "empty") /\ ~c.cleared
    BY <1>1, <1>3 DEF SentNow, Agrees, QueueFits
  <2>5. Fits(a, row, e, k, n, o)
    BY <1>1, <2>1, <2>2, <2>4, CalmerFits
  <2>6. Landed(a, row, e, k, n, o)
    BY <2>1, <2>2, <2>4, <2>5 DEF Landed, NoPending
  <2>7. SceneFits(a, row, e, k, n, p)
    BY <1>1, <2>4, <2>6, LandedScene
  <2>8. QED
    BY <2>3, <2>5, <2>7, OneTrackFits
<1>4. QED
  BY <1>2, <1>3

\* The idle polls and the loop wrap.
LEMMA PollsFitting ==
  ASSUME IInv, PInv, NEW t \in Tracks, PollGridWait(t) \/ PollPending(t) \/ Wrap(t)
  PROVE  PInv'
<1>1. UNCHANGED <<scene, heard, history>>
  BY DEF PollGridWait, PollPending, Wrap
<1>2. known' = known /\ lenSeen' = lenSeen /\ own' = own /\ scene' = scene
  BY <1>1 DEF heard, history
<1>3. CASE LandPending(t, col[t], cells[t]) /\ col[t].pending.kind # "none"
  BY <1>2, <1>3, LandsFit
<1>4. CASE \/ Write(t, col[t], cells[t], eng[t])
           \/ Write(t, Abandoned(col[t]), cells[t], eng[t]) /\ col[t].deferred # None
  BY <1>2, <1>4, DropsFit
<1>5. col[t].gridWait => col[t].pending.kind # "none"
  BY DEF IInv, Good, QueueOK
<1>6. CASE PollGridWait(t) \/ Wrap(t)
  BY <1>3, <1>5, <1>6 DEF PollGridWait, Wrap
<1>7. CASE PollPending(t)
  BY <1>3, <1>4, <1>7 DEF PollPending, MaybeResolve
<1>8. QED
  BY <1>6, <1>7

\* The cells once the take in the buffer is written down on the active slot.
LEMMA RegisteredRow ==
  ASSUME NEW t, NEW k, NEW len, cells[t] \in [Slots -> Cell],
         col[t].active \in Slots \cup {None}, NEW r, r = Registered(t, k, len)
  PROVE  \/ /\ r = cells[t]
            /\ \/ col[t].active = None \/ cells[t][col[t].active].slot # "empty"
               \/ k \notin ActivePlay \/ len = 0
         \/ /\ col[t].active # None /\ cells[t][col[t].active].slot = "empty"
            /\ k \in ActivePlay /\ len # 0
            /\ r[col[t].active].slot = "dirty" /\ r[col[t].active].job = "none"
            /\ \A u \in Slots : u # col[t].active => r[u] = cells[t][u]
<1> DEFINE s == col[t].active
           marks == s # None /\ ~Occupied(Shape(cells[t]), s) /\ k \in ActivePlay /\ len # 0
<1>1. CASE ~marks
  <2>1. r = cells[t]
    BY <1>1 DEF Registered
  <2>2. QED
    BY <1>1, <2>1, ShapeType DEF Occupied
<1>2. CASE marks
  <2>1. /\ s \in Slots /\ cells[t][s].slot = "empty" /\ cells[t][s] \in Cell
        /\ r = [cells[t] EXCEPT ![s] = [@ EXCEPT !.slot = "dirty", !.job = "none",
                                               !.saving = Silence]]
    BY <1>2, ShapeType DEF Registered, Occupied
  <2>2. ASSUME NEW cell \in Cell
        PROVE  LET m == [cell EXCEPT !.slot = "dirty", !.job = "none", !.saving = Silence]
               IN m.slot = "dirty" /\ m.job = "none"
    BY DEF Cell
  <2>3. r[s].slot = "dirty" /\ r[s].job = "none" /\ \A u \in Slots : u # s => r[u] = cells[t][u]
    BY <2>1, <2>2
  <2>4. QED
    BY <1>2, <2>1, <2>3
<1>3. QED
  BY <1>1, <1>2

\* The take in the sounding buffer is the active slot's own, and the only unsaved one.
LEMMA RegisteredFits ==
  ASSUME NEW c \in Column, NEW row, NEW e, NEW k, NEW n, NEW o, Fits(c, row, e, k, n, o),
         c.active # None, row[c.active].slot = "empty", Sounds(e),
         NEW r, r[c.active].slot = "dirty", r[c.active].job = "none",
         \A u \in Slots : u # c.active => r[u] = row[u],
         NEW d, d.active = c.active, d.pending = c.pending, d.deferred = c.deferred,
         d.parked = c.parked, d.cleared => c.cleared,
         NEW j, NEW m, m # 0
  PROVE  Fits(d, r, e, j, m, o)
<1>1. /\ BufferFits(e, n) /\ SavesFit(c, row, o) /\ BoundFits(c, row, e, k, o)
      /\ QueueFits(c, row, e, k) /\ ReportsFit(c, row, e, k, n)
  BY DEF Fits, Agrees
<1>2. /\ c.pending.kind = "none" /\ c.parked = NoPress /\ e.buf.id = o[c.active]
      /\ c.deferred = None /\ ~c.cleared
  BY <1>1 DEF BoundFits, QueueFits, ReportsFit
<1>3. BufferFits(e, m)
  BY <1>1 DEF BufferFits, Sounds
<1>4. SavesFit(d, r, o)
  BY <1>1 DEF SavesFit
<1>5. BoundFits(d, r, e, j, o) /\ UnboundFits(d, e)
  BY <1>2 DEF BoundFits, UnboundFits
<1>6. QueueFits(d, r, e, j) /\ ParkedFits(d, r, e, m)
  BY <1>2 DEF QueueFits, ParkedFits
<1>7. ReportsFit(d, r, e, j, m)
  BY <1>2 DEF ReportsFit, Sounds
<1>8. QED
  BY <1>3, <1>4, <1>5, <1>6, <1>7 DEF Fits, Agrees

\* A length report: the length of the take in the buffer is then the one heard.
LEMMA ReportLengthFits ==
  ASSUME IInv, PInv, NEW t \in Tracks, ReportLength(t)
  PROVE  PInv'
<1> DEFINE c == col[t]
           row == cells[t]
           e == eng[t]
           k == known[t]
           n == lenSeen[t]
           o == own[t]
           p == scene[t]
           m == e.buf.id
           r == Registered(t, k, m)
<1>1. /\ m \notin {0, n} /\ lenSeen' = [lenSeen EXCEPT ![t] = m]
      /\ cells' = [cells EXCEPT ![t] = r]
      /\ UNCHANGED <<col, scene, eng, known, own>>
  BY DEF ReportLength, history
<1>2. /\ Fits(c, row, e, k, n, o) /\ SceneFits(c, row, e, k, n, p) /\ c \in Column
      /\ row \in [Slots -> Cell] /\ c.active \in Slots \cup {None}
      /\ cells \in [Tracks -> [Slots -> Cell]] /\ lenSeen \in [Tracks -> 0..MaxTakes]
      /\ scene[t] \in Plan \cup {NoPlan}
  BY DEF IInv, TypeOK, PInv, Column
<1>3. p = NoPlan \/ p.slot \in Slots
  BY <1>2 DEF Plan
<1>4. /\ lenSeen'[t] = m /\ cells'[t] = r
      /\ \A u \in Tracks : u # t => lenSeen'[u] = lenSeen[u] /\ cells'[u] = cells[u]
  BY <1>1, <1>2
<1>5. \/ /\ r = row
         /\ \/ c.active = None \/ row[c.active].slot # "empty"
            \/ k \notin ActivePlay \/ m = 0
      \/ /\ c.active # None /\ row[c.active].slot = "empty" /\ k \in ActivePlay /\ m # 0
         /\ r[c.active].slot = "dirty" /\ r[c.active].job = "none"
         /\ \A u \in Slots : u # c.active => r[u] = row[u]
  BY <1>2, RegisteredRow
<1> HIDE DEF r
<1>6. e.st \notin {"waitstart", "rec", "waitstop"}
  BY <1>1, <1>2 DEF Fits, Agrees, BufferFits, Silence
<1>7. Fits(c, r, e, k, m, o)
  <2>1. CASE r = row
    <3>1. BufferFits(e, m)
      BY <1>2, <1>6 DEF Fits, Agrees, BufferFits
    <3>2. ParkedFits(c, row, e, m)
      BY <1>2 DEF Fits, ParkedFits
    <3>3. ReportsFit(c, row, e, k, m)
      BY <1>1, <1>2 DEF Fits, Agrees, ReportsFit
    <3>4. QED
      BY <1>2, <2>1, <3>1, <3>2, <3>3 DEF Fits, Agrees
  <2>2. CASE r # row
    <3>1. e.st # "off"
      BY <1>2, <1>5, <2>2 DEF Fits, Agrees, BoundFits
    <3>2. Sounds(e)
      <4>1. e.st \in EngineState
        BY DEF IInv, TypeOK, Engine
      <4>2. QED
        BY <1>6, <3>1, <4>1 DEF EngineState, Sounds
    <3> HIDE DEF c, row, e, k, n, o, m
    <3>3. QED
      BY <1>1, <1>2, <1>5, <2>2, <3>2, RegisteredFits
  <2>3. QED
    BY <2>1, <2>2
<1>8. SceneFits(c, r, e, k, m, p)
  <2>1. \A s \in Slots : row[s].slot # "empty" => r[s].slot = row[s].slot
    BY <1>5
  <2>2. SceneStays(c, row, e, k, n, c, r, e, k, m)
    BY <2>1 DEF SceneStays
  <2> HIDE DEF c, row, e, k, n, m, p
  <2>3. QED
    BY <1>2, <1>3, <2>2, SceneKept
<1>9. QED
  BY <1>1, <1>4, <1>7, <1>8, OneTrackFits

\* A state report on a column with nothing queued: a take is written down when it
\* is heard sounding, and a queued stop is sent when it is heard recording.
LEMMA HeardFits ==
  ASSUME NEW c \in Column, NEW row, NEW e \in Engine, NEW k, NEW n, NEW o,
         Fits(c, row, e, k, n, o), c.pending.kind = "none",
         NEW f, f = e \/ (e.st = "rec" /\ f.st = "waitstop" /\ f.buf = e.buf),
         NEW d, d.active = c.active, d.pending = c.pending, d.deferred = c.deferred,
         d.parked = c.parked, d.cleared => c.cleared /\ e.st # "off",
         \/ c.active = None \/ row[c.active].slot # "empty"
         \/ e.st \notin ActivePlay \/ n = 0
  PROVE  Fits(d, row, f, e.st, n, o)
<1>1. /\ BufferFits(e, n) /\ SavesFit(c, row, o) /\ BoundFits(c, row, e, k, o)
      /\ UnboundFits(c, e) /\ QueueFits(c, row, e, k) /\ ParkedFits(c, row, e, n)
      /\ ReportsFit(c, row, e, k, n)
  BY DEF Fits, Agrees
<1>2. c.deferred = None /\ ~SentNow(c) /\ ~SentNow(d)
  BY <1>1 DEF QueueFits, SentNow
<1>3. CASE f # e
  <2>1. e.st = "rec" /\ f.st = "waitstop" /\ f.buf = e.buf
    BY <1>3
  <2>2. BufferFits(f, n) /\ ~Sounds(f) /\ ~Sounds(e)
    BY <1>1, <2>1 DEF BufferFits, Sounds
  <2>3. c.active # None
    BY <1>1, <1>2, <2>1, IdleFits DEF UnboundFits
  <2>4. BoundFits(d, row, f, e.st, o)
    BY <1>1, <2>1, <2>2, <2>3 DEF BoundFits
  <2>5. UnboundFits(d, f) /\ QueueFits(d, row, f, e.st)
    BY <1>2, <2>3 DEF UnboundFits, QueueFits
  <2>6. ParkedFits(d, row, f, n) /\ SavesFit(d, row, o)
    BY <1>1, <2>1 DEF ParkedFits, SavesFit
  <2>7. ReportsFit(d, row, f, e.st, n)
    BY <1>1, <2>1, <2>3 DEF ReportsFit
  <2>8. QED
    BY <2>2, <2>4, <2>5, <2>6, <2>7 DEF Fits, Agrees
<1>4. CASE f = e
  <2>1. c.active # None /\ row[c.active].slot = "empty" /\ Sounds(e) => AllEmpty(row)
    BY <1>1 DEF BoundFits, ReportsFit, Sounds, ActivePlay
  <2>2. BoundFits(d, row, e, e.st, o)
    BY <1>1, <1>2, <2>1 DEF BoundFits
  <2>3. UnboundFits(d, e) /\ QueueFits(d, row, e, e.st)
    BY <1>1, <1>2 DEF UnboundFits, QueueFits
  <2>4. ParkedFits(d, row, e, n) /\ SavesFit(d, row, o)
    BY <1>1 DEF ParkedFits, SavesFit
  <2>5. ReportsFit(d, row, e, e.st, n)
    BY <1>1 DEF ReportsFit
  <2>6. QED
    BY <1>1, <1>4, <2>2, <2>3, <2>4, <2>5 DEF Fits, Agrees
<1>5. QED
  BY <1>3, <1>4

\* A queued launch keeps fitting while the loop is not yet heard sounding, if it is
\* held.
LEMMA HeldFits ==
  ASSUME NEW c, NEW row, NEW e \in Engine, NEW k, NEW n, NEW o, Fits(c, row, e, k, n, o),
         c.pending.kind # "none", c.deferred # None
  PROVE  Fits(c, row, e, e.st, n, o)
<1>1. /\ BufferFits(e, n) /\ SavesFit(c, row, o) /\ BoundFits(c, row, e, k, o)
      /\ UnboundFits(c, e) /\ QueueFits(c, row, e, k) /\ ParkedFits(c, row, e, n)
      /\ ReportsFit(c, row, e, k, n)
  BY DEF Fits, Agrees
<1>2. BoundFits(c, row, e, e.st, o) /\ QueueFits(c, row, e, e.st)
  BY <1>1 DEF BoundFits, QueueFits
<1>3. ReportsFit(c, row, e, e.st, n)
  BY <1>1 DEF ReportsFit, QueueFits
<1>4. QED
  BY <1>1, <1>2, <1>3 DEF Fits, Agrees

\* A state report.
LEMMA ReportStateFits ==
  ASSUME IInv, PInv, NEW t \in Tracks, ReportState(t)
  PROVE  PInv'
<1> DEFINE c == col[t]
           row == cells[t]
           e == eng[t]
           k == known[t]
           n == lenSeen[t]
           o == own[t]
           p == scene[t]
           d == [c EXCEPT !.cleared = @ /\ e.st # "off"]
           r == Registered(t, e.st, n)
<1>1. /\ known' = [known EXCEPT ![t] = e.st]
      /\ lenSeen' = lenSeen /\ own' = own /\ scene' = scene
  BY DEF ReportState, history
<1>2. PICK f \in {e} \cup (IF e.st = "rec" THEN HitRecord(e) ELSE {}) :
        MaybeResolve(t, d, r, e.st, f)
  BY DEF ReportState
<1>3. /\ Fits(c, row, e, k, n, o) /\ SceneFits(c, row, e, k, n, p) /\ c \in Column
      /\ row \in [Slots -> Cell] /\ c.active \in Slots \cup {None} /\ e \in Engine
      /\ cells \in [Tracks -> [Slots -> Cell]] /\ col \in [Tracks -> Column]
      /\ eng \in [Tracks -> Engine] /\ known \in [Tracks -> EngineState]
      /\ scene[t] \in Plan \cup {NoPlan}
  BY DEF IInv, TypeOK, PInv, Column
<1>4. p = NoPlan \/ p.slot \in Slots
  BY <1>3 DEF Plan
<1>5. known'[t] = e.st /\ \A u \in Tracks : u # t => known'[u] = known[u]
  BY <1>1, <1>3
<1>6. \/ /\ r = row
         /\ \/ c.active = None \/ row[c.active].slot # "empty"
            \/ e.st \notin ActivePlay \/ n = 0
      \/ /\ c.active # None /\ row[c.active].slot = "empty" /\ e.st \in ActivePlay /\ n # 0
         /\ r[c.active].slot = "dirty" /\ r[c.active].job = "none"
         /\ \A u \in Slots : u # c.active => r[u] = row[u]
  BY <1>3, RegisteredRow
<1>7. /\ d.active = c.active /\ d.pending = c.pending /\ d.deferred = c.deferred
      /\ d.parked = c.parked /\ d.gridWait = c.gridWait
      /\ d.cleared => c.cleared /\ e.st # "off"
  BY <1>3 DEF Column
<1>8. f = e \/ (e.st = "rec" /\ f.st = "waitstop" /\ f.buf = e.buf)
  BY <1>2, <1>3 DEF HitRecord, Engine
<1>9. CASE c.pending.kind = "none"
  <2>1. Write(t, d, r, f)
    BY <1>2, <1>7, <1>9 DEF MaybeResolve
  <2>2. /\ col'[t] = d /\ cells'[t] = r /\ eng'[t] = f
        /\ \A u \in Tracks : u # t => /\ col'[u] = col[u] /\ cells'[u] = cells[u]
                                      /\ eng'[u] = eng[u]
    BY <1>3, <2>1 DEF Write
  <2> HIDE DEF d, r
  <2>3. Fits(d, r, f, e.st, n, o)
    <3>1. CASE r = row
      <4>1. \/ c.active = None \/ row[c.active].slot # "empty"
            \/ e.st \notin ActivePlay \/ n = 0
        BY <1>6, <3>1
      <4> HIDE DEF c, row, e, k, n, o
      <4>2. QED
        BY <1>3, <1>7, <1>8, <1>9, <3>1, <4>1, HeardFits
    <3>2. CASE r # row
      <4>1. Sounds(e) /\ f = e
        BY <1>6, <1>8, <3>2 DEF Sounds, ActivePlay
      <4> DEFINE j == e.st
      <4> HIDE DEF c, row, e, k, n, o, j
      <4>2. Fits(d, r, e, j, n, o)
        BY <1>3, <1>6, <1>7, <3>2, <4>1, RegisteredFits
      <4>3. QED
        BY <4>1, <4>2 DEF j
    <3>3. QED
      BY <3>1, <3>2
  <2>4. SceneFits(d, r, f, e.st, n, p)
    <3>1. \A s \in Slots : row[s].slot # "empty" => r[s].slot = row[s].slot
      BY <1>6
    <3>2. c.active # None /\ row[c.active].slot # "empty"
            => e.st \in {"ring", "play", "stopped"}
      BY <1>3 DEF Fits, Agrees, BoundFits, Sounds
    <3>3. SceneStays(c, row, e, k, n, d, r, f, e.st, n)
      BY <1>7, <1>8, <3>1, <3>2 DEF SceneStays
    <3> DEFINE j == e.st
    <3> HIDE DEF c, row, e, k, n, p, j
    <3>4. SceneStays(c, row, e, k, n, d, r, f, j, n)
      BY <3>3 DEF j
    <3>5. SceneFits(d, r, f, j, n, p)
      BY <1>3, <1>4, <3>4, SceneKept
    <3>6. QED
      BY <3>5 DEF j
  <2>5. QED
    BY <1>1, <1>5, <2>2, <2>3, <2>4, OneTrackFits
<1>10. CASE c.pending.kind # "none"
  <2>1. /\ ~c.cleared /\ c.pending.to # None
        /\ c.deferred = None => e.st = "play"
        /\ c.active # None => row[c.active].slot = "clean"
    BY <1>3, <1>10 DEF Fits, Agrees, QueueFits
  <2>2. r = row
    BY <1>6, <2>1
  <2>3. d = c
    <3>1. d.cleared = c.cleared
      BY <1>3, <2>1 DEF Column
    <3>2. QED
      BY <1>3, <2>1 DEF Column
  <2>4. f = e
    <3>1. e.st # "rec"
      BY <1>3, <1>10, <2>1, IdleFits DEF Fits, Agrees, BoundFits, UnboundFits, QueueFits, SentNow, Sounds
    <3>2. QED
      BY <1>8, <3>1
  <2>5. CASE LandPending(t, d, r)
    BY <1>1, <1>5, <1>10, <2>2, <2>3, <2>5, LandsFit
  <2>6. CASE Write(t, d, r, f) /\ c.deferred # None
    <3>1. /\ col' = col /\ cells' = cells /\ eng' = eng
      BY <1>3, <2>2, <2>3, <2>4, <2>6 DEF Write
    <3>2. Fits(c, row, e, e.st, n, o)
      BY <1>3, <1>10, <2>6, HeldFits
    <3>3. SceneFits(c, row, e, e.st, n, p)
      BY <1>3, <1>10 DEF SceneFits, Planned, PlanFits
    <3>4. QED
      BY <1>1, <1>5, <3>1, <3>2, <3>3, OneTrackFits
  <2>7. CASE Write(t, Abandoned(d), r, f) /\ c.deferred # None
    <3> DEFINE a == Abandoned(c)
    <3>1. /\ a.active = c.active /\ a.pending = NoPending /\ a.deferred = None
          /\ a.parked = NoPress
      BY <1>3, AbandonedGood DEF IInv, Good
    <3>2. a.cleared = c.cleared
      BY <1>3 DEF Abandoned, Unparked, Unqueued, Column
    <3>3. Write(t, a, row, e)
      BY <2>2, <2>3, <2>4, <2>7
    <3> HIDE DEF a
    <3>4. /\ col'[t] = a /\ cells'[t] = row /\ eng'[t] = e
          /\ \A u \in Tracks : u # t => /\ col'[u] = col[u] /\ cells'[u] = cells[u]
                                        /\ eng'[u] = eng[u]
      BY <1>3, <3>3 DEF Write
    <3>5. Fits(c, row, e, e.st, n, o)
      BY <1>3, <1>10, <2>7, HeldFits
    <3>6. ~SentNow(c)
      BY <2>7 DEF SentNow
    <3> DEFINE j == e.st
    <3>7. Fits(a, row, e, j, n, o)
      BY <3>1, <3>2, <3>5, <3>6, CalmerFits DEF Fits
    <3>8. Landed(a, row, e, j, n, o)
      BY <2>1, <3>1, <3>2, <3>7 DEF Landed, NoPending
    <3>9. SceneFits(a, row, e, j, n, p)
      BY <1>3, <1>10, <3>8, LandedScene
    <3>10. QED
      BY <1>1, <1>5, <3>4, <3>7, <3>9, OneTrackFits
  <2>8. QED
    BY <1>2, <1>10, <2>1, <2>3, <2>4, <2>5, <2>6, <2>7 DEF MaybeResolve, ActivePlay
<1>11. QED
  BY <1>9, <1>10

\* A save lands: only how far the cell's save has come changes.
LEMMA SaveLandsFits ==
  ASSUME IInv, PInv, NEW t \in Tracks, NEW s \in Slots, SaveLands(t, s)
  PROVE  PInv'
<1> DEFINE c == col[t]
           row == cells[t]
           e == eng[t]
           k == known[t]
           n == lenSeen[t]
           o == own[t]
           p == scene[t]
           r == [row EXCEPT ![s].job = "landed"]
<1>1. /\ row[s].job = "running" /\ cells' = [cells EXCEPT ![t][s].job = "landed"]
      /\ UNCHANGED <<col, scene, eng, known, lenSeen, own>>
  BY DEF SaveLands, heard, history
<1>2. /\ Fits(c, row, e, k, n, o) /\ SceneFits(c, row, e, k, n, p)
      /\ row \in [Slots -> Cell] /\ c.active \in Slots \cup {None}
      /\ c.pending.to \in Slots \cup {None}
      /\ cells \in [Tracks -> [Slots -> Cell]] /\ scene[t] \in Plan \cup {NoPlan}
  BY DEF IInv, TypeOK, PInv, Column, Pending
<1>3. p = NoPlan \/ p.slot \in Slots
  BY <1>2 DEF Plan
<1>4. cells'[t] = r /\ \A u \in Tracks : u # t => cells'[u] = cells[u]
  BY <1>1, <1>2
<1>5. \A u \in Slots : /\ r[u].slot = row[u].slot /\ r[u].saving = row[u].saving
                       /\ r[u].clip = row[u].clip
                       /\ r[u].job # "none" => row[u].job # "none"
  BY <1>1, <1>2 DEF Cell
<1> HIDE DEF r, c, row, e, k, n, o, p
<1>6. SavesFit(c, r, o)
  BY <1>2, <1>5 DEF Fits, Agrees, SavesFit
<1>7. BoundFits(c, r, e, k, o)
  BY <1>2, <1>5 DEF Fits, Agrees, BoundFits, AllEmpty
<1>8. QueueFits(c, r, e, k)
  BY <1>2, <1>5 DEF Fits, Agrees, QueueFits
<1>9. ParkedFits(c, r, e, n)
  <2>1. c.parked # NoPress => c.active # None
    BY <1>2 DEF Fits, Agrees, UnboundFits, ParkedFits
  <2>2. QED
    BY <1>2, <1>5, <2>1 DEF Fits, ParkedFits
<1>10. ReportsFit(c, r, e, k, n)
  BY <1>2, <1>5 DEF Fits, Agrees, ReportsFit, AllEmpty
<1>11. Fits(c, r, e, k, n, o)
  BY <1>2, <1>6, <1>7, <1>8, <1>9, <1>10 DEF Fits, Agrees
<1>12. SceneFits(c, r, e, k, n, p)
  <2>1. SceneStays(c, row, e, k, n, c, r, e, k, n)
    BY <1>5 DEF SceneStays
  <2>2. QED
    BY <1>2, <1>3, <2>1, SceneKept
<1>13. QED
  BY <1>1, <1>4, <1>11, <1>12, OneTrackFits DEF c, row, e, k, n, o, p

\* A loop that is armed, recording or closing is bound to a slot still empty, with
\* nothing queued and nothing parked.
LEMMA TakingFits ==
  ASSUME NEW c, NEW row, NEW e, NEW k, NEW n, NEW o, Fits(c, row, e, k, n, o),
         e.st \in {"waitstart", "rec", "waitstop"}
  PROVE  /\ c.active # None /\ row[c.active].slot = "empty"
         /\ c.pending.kind = "none" /\ c.deferred = None /\ c.parked = NoPress
         /\ ~c.cleared
         /\ e.st = "waitstop" => k \in {"rec", "waitstop"}
<1>1. ~Sounds(e) /\ e # IdleEngine
  BY IdleFits DEF Sounds
<1>2. ~SentNow(c)
  BY DEF Fits, Agrees, QueueFits, SentNow
<1>3. c.active # None
  BY <1>1, <1>2 DEF Fits, Agrees, UnboundFits
<1>4. row[c.active].slot = "empty" /\ c.pending.kind = "none" /\ c.parked = NoPress
  BY <1>1, <1>3 DEF Fits, Agrees, BoundFits
<1>5. QED
  BY <1>1, <1>3, <1>4 DEF Fits, Agrees, QueueFits, ReportsFit

\* The engine moves on: an armed take starts, or a closing one is closed and numbered.
LEMMA TakenFits ==
  ASSUME NEW c, NEW row, NEW e, NEW k, NEW n, NEW o, Fits(c, row, e, k, n, o),
         c.active \in Slots \cup {None}, NEW f, NEW w,
         \/ e.st = "waitstart" /\ f.st = "rec" /\ f.buf = Silence /\ w = o
         \/ /\ e.st = "waitstop" /\ f.st \in ActivePlay /\ f.buf.id # 0
            /\ f.st = "play" => f.buf.whole
            /\ w[c.active] = f.buf.id
            /\ \A s \in Slots : s # c.active => w[s] = o[s]
  PROVE  Fits(c, row, f, k, n, w)
<1>1. /\ c.active \in Slots /\ c.active # None /\ row[c.active].slot = "empty"
      /\ c.pending.kind = "none" /\ c.deferred = None /\ c.parked = NoPress
      /\ ~c.cleared
      /\ e.st = "waitstop" => k \in {"rec", "waitstop"}
  BY TakingFits
<1>2. BufferFits(f, n)
  BY DEF BufferFits, ActivePlay
<1>3. SavesFit(c, row, w)
  <2>1. SavesFit(c, row, o)
    BY DEF Fits, Agrees
  <2>2. CASE w = o
    BY <2>1, <2>2
  <2>3. CASE \A s \in Slots : s # c.active => w[s] = o[s]
    <3> SUFFICES ASSUME NEW s \in Slots
                 PROVE  /\ row[s].slot = "dirty" => c.active = s
                        /\ row[s].slot = "clean" => /\ row[s].clip = [id |-> w[s], whole |-> TRUE]
                                                    /\ w[s] # 0
                        /\ row[s].job # "none" => /\ row[s].slot = "dirty"
                                                  /\ row[s].saving = [id |-> w[s], whole |-> TRUE]
      BY DEF SavesFit
    <3>1. CASE s = c.active
      BY <1>1, <2>1, <3>1 DEF SavesFit
    <3>2. CASE s # c.active
      <4>1. w[s] = o[s]
        BY <2>3, <3>2
      <4>2. QED
        BY <2>1, <4>1 DEF SavesFit
    <3>3. QED
      BY <3>1, <3>2
  <2>4. QED
    BY <2>2, <2>3
<1>4. BoundFits(c, row, f, k, w)
  BY <1>1 DEF BoundFits, Sounds, ActivePlay
<1>5. UnboundFits(c, f) /\ QueueFits(c, row, f, k) /\ ParkedFits(c, row, f, n)
  BY <1>1 DEF UnboundFits, QueueFits, ParkedFits
<1>6. ReportsFit(c, row, f, k, n)
  BY <1>1 DEF Fits, Agrees, ReportsFit, ActivePlay
<1>7. QED
  BY <1>2, <1>3, <1>4, <1>5, <1>6 DEF Fits, Agrees

\* A step of the engine alone, on a loop that no scene plan is held up by.
LEMMA EngineFits ==
  ASSUME IInv, PInv, NEW t \in Tracks, NEW f, EngineMoves(t, f),
         eng[t].st \notin {"off", "play", "stopped"},
         Fits(col[t], cells[t], f, known[t], lenSeen[t], own'[t]),
         \A u \in Tracks : u # t => own'[u] = own[u]
  PROVE  PInv'
<1>1. /\ eng' = [eng EXCEPT ![t] = f]
      /\ UNCHANGED <<cells, col, scene, known, lenSeen>>
  BY DEF EngineMoves, heard
<1>2. /\ SceneFits(col[t], cells[t], eng[t], known[t], lenSeen[t], scene[t])
      /\ scene[t] = NoPlan \/ scene[t].slot \in Slots
      /\ col[t].active \in Slots \cup {None} /\ eng \in [Tracks -> Engine]
  BY DEF IInv, TypeOK, PInv, Column, Plan
<1>3. SceneStays(col[t], cells[t], eng[t], known[t], lenSeen[t],
                 col[t], cells[t], f, known[t], lenSeen[t])
  BY DEF SceneStays
<1>4. SceneFits(col[t], cells[t], f, known[t], lenSeen[t], scene[t])
  BY <1>2, <1>3, SceneKept
<1>5. eng'[t] = f /\ \A u \in Tracks : u # t => eng'[u] = eng[u]
  BY <1>1, <1>2
<1>6. QED
  BY <1>1, <1>4, <1>5, OneTrackFits

\* The engine's own steps.
LEMMA EngineStepsFit ==
  ASSUME IInv, PInv, NEW t \in Tracks, EngineSteps(t)
  PROVE  PInv'
<1>1. /\ Fits(col[t], cells[t], eng[t], known[t], lenSeen[t], own[t])
      /\ eng[t] \in Engine /\ col[t].active \in Slots \cup {None}
      /\ own \in [Tracks -> [Slots -> 0..MaxTakes]] /\ takes \in 0..MaxTakes
  BY DEF IInv, TypeOK, PInv, Column
<1>2. CASE TakeStarts(t)
  <2> DEFINE f == [st |-> "rec", buf |-> Silence]
  <2>1. EngineMoves(t, f) /\ eng[t].st = "waitstart" /\ own' = own
    BY <1>2 DEF TakeStarts
  <2>2. f.st = "rec" /\ f.buf = Silence
    OBVIOUS
  <2> HIDE DEF f
  <2>3. Fits(col[t], cells[t], f, known[t], lenSeen[t], own'[t])
    BY <1>1, <2>1, <2>2, TakenFits
  <2>4. QED
    BY <2>1, <2>3, EngineFits
<1>3. CASE TakeCloses(t)
  <2>1. PICK st \in ActivePlay :
          EngineMoves(t, [st |-> st, buf |-> [id |-> takes + 1, whole |-> st = "play"]])
    BY <1>3 DEF TakeCloses
  <2> DEFINE f == [st |-> st, buf |-> [id |-> takes + 1, whole |-> st = "play"]]
  <2>2. /\ f.st \in ActivePlay /\ f.buf.id = takes + 1
        /\ f.st = "play" => f.buf.whole
    OBVIOUS
  <2>3. EngineMoves(t, f)
    BY <2>1
  <2> HIDE DEF f
  <2>4. eng[t].st = "waitstop"
    BY <1>3 DEF TakeCloses
  <2>5. col[t].active \in Slots /\ col[t].active # None
    BY <1>1, <2>4, TakingFits
  <2>6. own' = [own EXCEPT ![t] = [@ EXCEPT ![col[t].active] = takes + 1]]
    BY <1>3, <2>5 DEF TakeCloses
  <2>7. /\ own'[t][col[t].active] = f.buf.id
        /\ \A s \in Slots : s # col[t].active => own'[t][s] = own[t][s]
        /\ \A u \in Tracks : u # t => own'[u] = own[u]
    BY <1>1, <2>2, <2>5, <2>6
  <2>8. f.buf.id # 0
    BY <1>1, <2>2, MaxTakesAssumption
  <2>9. Fits(col[t], cells[t], f, known[t], lenSeen[t], own'[t])
    BY <1>1, <2>2, <2>4, <2>7, <2>8, TakenFits
  <2>10. QED
    BY <2>3, <2>4, <2>7, <2>9, EngineFits
<1>4. CASE RingEnds(t)
  <2> DEFINE f == HitOverdub(eng[t])
  <2>1. EngineMoves(t, f) /\ eng[t].st = "ring" /\ own' = own
    BY <1>4 DEF RingEnds
  <2>2. ~SentNow(col[t]) /\ col[t].parked = NoPress /\ Sounds(eng[t])
        /\ BufferFits(eng[t], lenSeen[t])
    BY <1>1, <2>1 DEF Fits, Agrees, QueueFits, ParkedFits, SentNow, Sounds
  <2>3. f.st = "play"
    BY <2>1 DEF HitOverdub
  <2>4. BufferFits(f, lenSeen[t]) /\ Sounds(f) /\ f.buf.id = eng[t].buf.id
    BY <1>1, <2>2, HitsFit
  <2> HIDE DEF f
  <2>5. Fits(col[t], cells[t], f, known[t], lenSeen[t], own'[t])
    BY <1>1, <2>1, <2>2, <2>3, <2>4, MovedFits
  <2>6. QED
    BY <2>1, <2>5, EngineFits
<1>5. CASE \E s \in Slots : SaveLands(t, s)
  BY <1>5, SaveLandsFits
<1>6. QED
  BY <1>2, <1>3, <1>4, <1>5 DEF EngineSteps

\* A step that moves nothing but a neighbour, or nothing at all.
LEMMA OthersFit ==
  ASSUME PInv, NeighbourMoves \/ UNCHANGED vars
  PROVE  PInv'
<1>1. UNCHANGED <<cells, col, scene, eng, known, lenSeen, own>>
  BY DEF NeighbourMoves, vars, history
<1>2. QED
  BY <1>1 DEF PInv

-----------------------------------------------------------------------------
(* The patient player's theorems. *)

\* Before the first press every column is empty, and fits.
LEMMA InitFits == Init => PInv
<1> SUFFICES ASSUME Init, NEW t \in Tracks
             PROVE  /\ Fits(col[t], cells[t], eng[t], known[t], lenSeen[t], own[t])
                    /\ SceneFits(col[t], cells[t], eng[t], known[t], lenSeen[t], scene[t])
  BY DEF PInv
<1> DEFINE c == col[t]
           row == cells[t]
<1>1. /\ c = BlankColumn /\ eng[t] = IdleEngine /\ scene[t] = NoPlan
      /\ \A s \in Slots : row[s] = BlankCell(Silence)
  BY DEF Init
<1>2. /\ c.active = None /\ c.pending.kind = "none" /\ c.deferred = None
      /\ c.parked = NoPress /\ ~c.cleared
  BY <1>1 DEF BlankColumn, NoPending
<1>3. \A s \in Slots : row[s].slot = "empty" /\ row[s].job = "none"
  <2>1. BlankCell(Silence).slot = "empty" /\ BlankCell(Silence).job = "none"
    BY DEF BlankCell
  <2>2. QED
    BY <1>1, <2>1
<1> HIDE DEF c, row
<1>4. BufferFits(eng[t], lenSeen[t]) /\ eng[t].st # "waitstop"
  BY <1>1, IdleFits
<1>5. SavesFit(c, row, own[t])
  BY <1>3 DEF SavesFit
<1>6. BoundFits(c, row, eng[t], known[t], own[t]) /\ UnboundFits(c, eng[t])
      /\ ParkedFits(c, row, eng[t], lenSeen[t])
  BY <1>1, <1>2 DEF BoundFits, UnboundFits, ParkedFits
<1>7. QueueFits(c, row, eng[t], known[t]) /\ ReportsFit(c, row, eng[t], known[t], lenSeen[t])
  BY <1>2, <1>3, <1>4 DEF QueueFits, ReportsFit, AllEmpty
<1>8. QED
  BY <1>1, <1>4, <1>5, <1>6, <1>7 DEF Fits, Agrees, SceneFits, c, row

\* Every step of a patient player, the main loop, the OSC threads and the engine
\* leaves columns that fit.
LEMMA NextFits ==
  ASSUME Hurry = {}, IInv, PInv, [Next]_vars
  PROVE  PInv'
<1>1. ASSUME NEW t \in Tracks, Player(t) PROVE PInv'
  BY <1>1, PressFits, HoldClearFits DEF Player
<1>2. ASSUME NEW t \in Tracks, Main(t) PROVE PInv'
  BY <1>2, SceneStepFits, ResumeFits, PollsFitting DEF Main
<1>3. ASSUME NEW t \in Tracks, Reports(t) PROVE PInv'
  BY <1>3, ReportStateFits, ReportLengthFits, PollsFitting DEF Reports
<1>4. ASSUME NEW t \in Tracks, EngineSteps(t) PROVE PInv'
  BY <1>4, EngineStepsFit
<1>5. ASSUME NEW s \in Slots, ScenePress(s) PROVE PInv'
  BY <1>5, ScenePressFits
<1>6. CASE StopAll
  BY <1>6, StopAllFits
<1>7. CASE ClearAll
  BY <1>7, ClearAllFits
<1>8. CASE NeighbourMoves \/ UNCHANGED vars
  BY <1>8, OthersFit
<1>9. QED
  BY <1>1, <1>2, <1>3, <1>4, <1>5, <1>6, <1>7, <1>8 DEF Next

\* With a patient player every column fits throughout.
THEOREM PatientInvariance ==
  ASSUME Hurry = {}
  PROVE  Spec => []PInv
<1>1. IInv /\ PInv /\ [Next]_vars => PInv'
  BY NextFits
<1>2. QED
  BY <1>1, InitFits, Invariance, PTL DEF Spec

\* With a patient player, audio that is not on disk is in the engine's buffer and
\* bound to its slot: no launch, switch, take-over or scene row is carried out over
\* an unsaved take (_ensure_flushed), and none that was queued lands over one.
THEOREM UnsavedIsBuffered ==
  ASSUME Hurry = {}
  PROVE  Spec => []UnsavedTakeIsInBuffer
<1>1. PInv => UnsavedTakeIsInBuffer
  <2> SUFFICES ASSUME PInv, NEW t \in Tracks, NEW s \in Slots, cells[t][s].slot = "dirty"
               PROVE  col[t].active = s /\ eng[t].buf.id = own[t][s]
    BY DEF UnsavedTakeIsInBuffer
  <2>1. Agrees(col[t], cells[t], eng[t], known[t], lenSeen[t], own[t])
    BY DEF PInv, Fits
  <2>2. col[t].active = s /\ s # None
    BY <2>1, NoneAssumption DEF Agrees, SavesFit
  <2>3. ~SentNow(col[t])
    BY <2>1, <2>2 DEF Agrees, QueueFits, SentNow
  <2>4. QED
    BY <2>1, <2>2, <2>3 DEF Agrees, BoundFits
<1>2. QED
  BY <1>1, PatientInvariance, PTL

\* With a patient player, the file behind a slot called saved holds the whole of the
\* slot's own last take, its ring-out included: the save was begun on that buffer
\* (_ensure_flushed), and nothing recorded, loaded or landed since has made it another's.
THEOREM SavedIsTheTake ==
  ASSUME Hurry = {}
  PROVE  Spec => []SavedClipIsTheTake
<1>1. PInv => SavedClipIsTheTake
  BY DEF PInv, Fits, Agrees, SavesFit, SavedClipIsTheTake
<1>2. QED
  BY <1>1, PatientInvariance, PTL

\* With a patient player, a loop that sounds with nothing queued sounds the take of
\* the slot the surface shows as active: a switch moves the binding when it lands
\* (land_pending), and whatever else loads or closes a take binds its own slot.
THEOREM HeardShown ==
  ASSUME Hurry = {}
  PROVE  Spec => []HeardIsShown
<1>1. PInv => HeardIsShown
  <2> SUFFICES ASSUME PInv, NEW t \in Tracks, col[t].active # None,
                      eng[t].st \in ActivePlay, col[t].pending.kind = "none"
               PROVE  eng[t].buf.id = own[t][col[t].active]
    BY DEF HeardIsShown
  <2>1. Sounds(eng[t]) /\ ~SentNow(col[t])
    BY DEF Sounds, SentNow, ActivePlay
  <2>2. QED
    BY <2>1 DEF PInv, Fits, Agrees, BoundFits
<1>2. QED
  BY <1>1, PatientInvariance, PTL

=============================================================================
