---------------------------- MODULE SlotRuntime -----------------------------
(***************************************************************************)
(* The clip matrix at work: SlotRuntime (slot_runtime.py) and the engine-   *)
(* and player-facing halves of SlotSurface (slot_surface.py), around the    *)
(* planner of SlotMatrix.  A track column has eight slots and ONE engine    *)
(* buffer.  A press on another slot reuses the buffer, so it first waits    *)
(* for the unsaved take in it to reach disk (the press is parked and the    *)
(* idle loop replays it), and a launch or a switch made while anything is   *)
(* sounding is held for the loop's wrap or for the grid's bar line.         *)
(*                                                                         *)
(* Who runs: the bench's main loop (presses, scene rows, holds, Stop All,   *)
(* Clear All, the idle polls), the OSC threads (state and length reports    *)
(* and loop wraps), the engine (SooperLooper) and the player.  A handler is *)
(* one step, except a scene press, which plans every column and then        *)
(* carries the plans out one at a time while the OSC threads keep running.  *)
(*                                                                         *)
(* Not here: the files and temps of a save (module FlushLedger), bank       *)
(* scrolling and LEDs, and TrackGesture's own state machine: a tap sends    *)
(* one of the commands its plan may name in the state the bench knows.      *)
(* Clock readings are left out: a deadline, the five-second grace or a bar  *)
(* line may have passed at any poll.                                        *)
(***************************************************************************)
EXTENDS SlotMatrix, Naturals

CONSTANTS Tracks,     \* the modelled tracks
          MaxTakes,   \* bound: takes closed in one behaviour
          Neighbours, \* whether loops outside Tracks exist, and may sound
          Hurry       \* what the player does not wait for

ASSUME MaxTakesAssumption == MaxTakes \in Nat
ASSUME NeighboursAssumption == Neighbours \in BOOLEAN

\* A patient player lets a column settle before touching it.  A hurried one may
\* press before the reports are in, while a launch is queued, hold an armed pad or
\* press another slot while a take is under way, and tap so soon that the gesture
\* debounces it.
Haste == {"report", "queue", "take", "bounce"}
ASSUME HurryAssumption == Hurry \subseteq Haste

VARIABLES
  cells,     \* cells[t][s]: the slot's clip, its save and its file
  col,       \* col[t]: the column's bookkeeping in SlotRuntime and its gesture
  scene,     \* scene[t]: the plan a scene press still has to carry out
  eng,       \* eng[t]: the engine's state and buffer for the loop
  known,     \* known[t]: the last state the engine reported (TrackGesture.sl_state)
  lenSeen,   \* lenSeen[t]: the take whose length was reported last (_loop_lens), 0: none
  elsewhere, \* a loop outside Tracks is sounding
  takes,     \* history: number of takes closed so far, which numbers them
  own,       \* history: own[t][s]: the take last closed while s was the active slot
  asked      \* history: asked[t]: a pad or scene press since the last Stop All

vars == <<cells, col, scene, eng, known, lenSeen, elsewhere, takes, own, asked>>
heard == <<known, lenSeen, elsewhere>>    \* what reports and neighbours move
history == <<takes, own, asked>>

-----------------------------------------------------------------------------
\* Recorded audio: which take it is, and whether its ring-out is all there.
Audio == [id : 0..MaxTakes, whole : BOOLEAN]
Silence == [id |-> 0, whole |-> FALSE]

JobState == {"none", "running", "landed"}
Cell == [slot : SlotState, job : JobState, saving : Audio, clip : Audio]
BlankCell(file) == [slot |-> "empty", job |-> "none", saving |-> Silence, clip |-> file]
HasClip(cell) == cell.clip.id # 0
Shape(row) == [s \in Slots |-> row[s].slot]

\* A parked press: the slot pressed and the slot whose save it waits for.  The
\* hold flag of the source is always FALSE here: a hold never waits for a save.
NoPress == [slot |-> None, flush |-> None]
Parked == [slot : Slots, flush : Slots] \cup {NoPress}

\* cleared: TrackGesture expects an idle loop that the engine has not reported.
Column == [active : Slots \cup {None}, pending : Pending,
           deferred : Slots \cup {None}, gridWait : BOOLEAN, parked : Parked,
           cleared : BOOLEAN]
BlankColumn == [active |-> None, pending |-> NoPending, deferred |-> None,
                gridWait |-> FALSE, parked |-> NoPress, cleared |-> FALSE]

NoPlan == [action |-> "noop", slot |-> None, from |-> None,
           save |-> FALSE, clear |-> FALSE]

\* Engine states: OFF, WAIT_START, RECORDING, WAIT_STOP, OVERDUBBING, PLAYING,
\* and MUTE or PAUSED as one.
EngineState == {"off", "waitstart", "rec", "waitstop", "ring", "play", "stopped"}
ActivePlay == {"ring", "play"}
Engine == [st : EngineState, buf : Audio]
IdleEngine == [st |-> "off", buf |-> Silence]

Init ==
  /\ cells = [t \in Tracks |-> [s \in Slots |-> BlankCell(Silence)]]
  /\ col = [t \in Tracks |-> BlankColumn]
  /\ scene = [t \in Tracks |-> NoPlan]
  /\ eng = [t \in Tracks |-> IdleEngine]
  /\ known = [t \in Tracks |-> "off"]
  /\ lenSeen = [t \in Tracks |-> 0]
  /\ elsewhere = FALSE
  /\ takes = 0
  /\ own = [t \in Tracks |-> [s \in Slots |-> 0]]
  /\ asked = [t \in Tracks |-> FALSE]

-----------------------------------------------------------------------------
(* The engine, as the bench drives it. *)

\* Leaving the ring-out overdub: the take is then complete.
Rested(e) == IF e.st = "ring" THEN [e.buf EXCEPT !.whole = TRUE] ELSE e.buf

\* `record` starts a take at once or at the boundary and asks a running one to
\* close; an armed one it cancels (tests/fake_sl_engine.py) or leaves to start
\* (tests/engine/test_engine_claims.py:161).
HitRecord(e) ==
  CASE e.st = "waitstart" -> {e, [e EXCEPT !.st = IF e.buf.id = 0 THEN "off" ELSE "play"]}
    [] e.st = "rec" -> {[e EXCEPT !.st = "waitstop"]}
    [] e.st = "waitstop" -> {[e EXCEPT !.st = "rec"]}
    [] OTHER -> {[st |-> "waitstart", buf |-> Rested(e)], [st |-> "rec", buf |-> Silence]}

\* `overdub` closes a take into its ring-out, and toggles overdubbing on a loop.
HitOverdub(e) ==
  CASE e.st = "rec" -> [e EXCEPT !.st = "waitstop"]
    [] e.st = "ring" -> [st |-> "play", buf |-> Rested(e)]
    [] e.st = "play" -> [e EXCEPT !.st = "ring"]
    [] OTHER -> e

HitQuiet(e) ==   \* mute_on, pause_on
  IF e.st \in ActivePlay THEN [st |-> "stopped", buf |-> Rested(e)] ELSE e

HitTrigger(e) == \* trigger, mute_off
  IF e.st = "stopped" THEN [e EXCEPT !.st = "play"] ELSE e

HitLoad(audio) == [st |-> "play", buf |-> audio]   \* load_loop, then trigger

\* A tap on an armed take only queues its stop; the take that defines the grid is
\* sent `record`, which cancels it if the report is late and it is still armed.
MayRecord(e) ==
  IF e.st = "waitstart" /\ (e.buf.id # 0 \/ "report" \notin Hurry) THEN {e} ELSE HitRecord(e)

\* What a tap on the active lane may send, from the reported state.  A gesture
\* that expects an idle loop records, unless its intent has expired.  The
\* tap may be debounced away.
TapOutcomes(e, k, cleared) ==
  (CASE k \in {"off", "waitstart"} -> MayRecord(e)
     [] k = "rec" -> HitRecord(e) \cup {HitOverdub(e)}
     [] k = "waitstop" -> HitRecord(e)
     [] k = "ring" -> {HitOverdub(e)}
     [] k \in {"play", "stopped"} -> {HitQuiet(e), HitTrigger(e)})
  \cup (IF cleared THEN MayRecord(e) ELSE {})
  \cup (IF "bounce" \in Hurry THEN {e} ELSE {})

-----------------------------------------------------------------------------
(* Saving: Slot.dirty and the ledger's job for one cell. *)

\* The ledger's answers for one cell, each with the row of cells it leaves.
Polls(row, s) ==
  CASE row[s].job = "none" -> {[status |-> "clean", row |-> row]}
    [] row[s].job = "landed" ->
         {[status |-> "clean",
           row |-> [row EXCEPT ![s] =
                      [slot |-> IF @.slot = "empty" THEN "empty" ELSE "clean",
                       job |-> "none", saving |-> Silence, clip |-> @.saving]]]}
    [] row[s].job = "running" ->
         {[status |-> "pending", row |-> row],
          [status |-> "failed",
           row |-> [row EXCEPT ![s] = [@ EXCEPT !.job = "none", !.saving = Silence]]]}

\* Mutant of EnsureFlushed: having sent the save is taken for having saved.
EnsureFlushedOnSend(row, active, audio) ==
  {[status |-> "clean",
    row |-> IF NeedsFlush(Shape(row), active)
            THEN [row EXCEPT ![active] = [@ EXCEPT !.slot = "clean"]]
            ELSE row]}

\* Save the active slot's unsaved take: begin a save if none is running, then
\* poll that one (the engine cannot have written a file it was only just asked for).
EnsureFlushed(row, active, audio) ==
  IF ~NeedsFlush(Shape(row), active) THEN {[status |-> "clean", row |-> row]}
  ELSE Polls(IF row[active].job # "none" THEN row
             ELSE [row EXCEPT ![active] = [@ EXCEPT !.job = "running", !.saving = audio]],
             active)

\* The engine finishes writing a save it was asked for; an empty buffer never
\* makes a usable file.
SaveLands(t, s) ==
  /\ cells[t][s].job = "running"
  /\ cells[t][s].saving.id # 0
  /\ cells' = [cells EXCEPT ![t][s].job = "landed"]
  /\ UNCHANGED <<col, scene, eng, heard, history>>

\* A cell whose clip is gone: its save is dropped and its file unlinked.
Deleted(row, s) == [row EXCEPT ![s] = BlankCell(Silence)]

-----------------------------------------------------------------------------
(* Carrying a plan out.  c, row: the column and its cells as the handler has
   them when the plan reaches the operation.                               *)

Write(t, c, row, e) ==
  /\ col' = [col EXCEPT ![t] = c]
  /\ cells' = [cells EXCEPT ![t] = row]
  /\ eng' = [eng EXCEPT ![t] = e]

Sounding == elsewhere \/ \E u \in Tracks : known[u] \in ActivePlay

\* An expectation of an idle loop is not met by what was last reported.
Unheard(t) == known[t] # "off"

Unqueued(c) == [c EXCEPT !.deferred = None, !.gridWait = FALSE]
Unparked(c) == [c EXCEPT !.parked = NoPress]
\* Mutant of Abandoned: a parked press survives.
AbandonedButForThePress(c) == [Unqueued(c) EXCEPT !.pending = NoPending]

Abandoned(c) == [Unparked(Unqueued(c)) EXCEPT !.pending = NoPending]
\* Mutant of Resolved: the binding stays with the outgoing slot.
ResolvedInPlace(c) == [Unqueued(c) EXCEPT !.pending = NoPending]

Resolved(c) == [Unqueued(c) EXCEPT !.active = ActiveAtBoundary(c.active, c.pending),
                                   !.pending = NoPending]
Done(c, p) == [Unparked(c) EXCEPT !.pending = ApplyPending(c.pending, p)]

\* A slot whose unsaved take is the loaded buffer is only triggered; any other
\* has to be loaded from its file.
InBuffer(c, row, s) == c.active = s /\ row[s].slot = "dirty"
CanLaunch(c, row, s) == InBuffer(c, row, s) \/ HasClip(row[s])
Launched(e, c, row, s) ==
  IF InBuffer(c, row, s) THEN HitTrigger(e) ELSE HitLoad(row[s].clip)

Forward(t, p, c, row) ==
  LET bound == IF c.active = None THEN p.slot ELSE c.active
  IN \E e \in TapOutcomes(eng[t], known[t], c.cleared) :
       Write(t, [Done(c, p) EXCEPT !.active = bound, !.cleared = @ /\ e = eng[t]], row, e)

\* A new slot takes the buffer over from the slot it was planned from.
TakesOver(p, c, row) ==
  /\ p.from # None
  /\ p.from # p.slot
  /\ Occupied(Shape(row), p.from) \/ c.active = p.from

\* While the loop sounds the engine swaps takes at the boundary; otherwise the
\* stale buffer is emptied first.  The tap may be debounced away.
Record(t, p, c, row) ==
  LET start == IF TakesOver(p, c, row) /\ known[t] \notin ActivePlay
               THEN IdleEngine ELSE eng[t]
  IN \E e \in HitRecord(start) \cup (IF "bounce" \in Hurry THEN {start} ELSE {}) :
       Write(t, [Done(c, p) EXCEPT !.active = p.slot, !.cleared = Unheard(t) /\ e = start],
             row, e)

LaunchNow(t, p, c, row) ==
  IF CanLaunch(c, row, p.slot)
  THEN Write(t, Done(c, p), row, Launched(eng[t], c, row, p.slot))
  ELSE Write(t, Unparked(c), row, eng[t])

\* Held for the wrap; the grid's bar line may or may not be known.
DeferLaunch(t, p, c, row) ==
  IF HasClip(row[p.slot])
  THEN \E barKnown \in BOOLEAN :
         Write(t, [Done(c, p) EXCEPT !.deferred = p.slot,
                                     !.gridWait = c.gridWait \/ barKnown],
               row, eng[t])
  ELSE Write(t, Unparked(c), row, eng[t])

Launch(t, p, c, row) ==
  \/ ~Sounding /\ LaunchNow(t, p, c, row)
  \/ Sounding /\ DeferLaunch(t, p, c, row)

\* Cancelling a queued launch stops the track; a queued switch leaves it alone.
Cancel(t, p, c, row) ==
  Write(t, Done(Unqueued(c), p), row,
        IF c.pending.kind = "switch" THEN eng[t] ELSE HitQuiet(eng[t]))

Clear(t, p, c, row) ==
  Write(t, [Abandoned(c) EXCEPT !.active = IF c.active = p.slot THEN None ELSE c.active],
        Deleted(row, p.slot), IF c.active = p.slot THEN IdleEngine ELSE eng[t])

Perform(t, p, c, row) ==
  \/ p.action = "noop" /\ Write(t, Done(c, p), row, eng[t])
  \/ p.action = "forward" /\ Forward(t, p, c, row)
  \/ p.action = "record" /\ Record(t, p, c, row)
  \/ p.action = "cancel" /\ Cancel(t, p, c, row)
  \/ p.action = "clear" /\ Clear(t, p, c, row)
  \/ p.action \in {"launch", "switch"} /\ Launch(t, p, c, row)

\* Mutant of MustFlush: only a switch waits for the save.
MustFlushToSwitch(t, p, c, row) == p.action \in {"launch", "switch"} /\ p.save

\* Whether the unsaved take in the buffer must reach disk before the plan goes on.
MustFlush(t, p, c, row) ==
  CASE p.action = "record" -> TakesOver(p, c, row) /\ (known[t] \in ActivePlay \/ p.save)
    [] p.action \in {"launch", "switch"} -> p.save
    [] OTHER -> FALSE

\* A plan waits behind the save (parked), is refused, or goes on.
CarryOut(t, p, c, row) ==
  \E v \in IF MustFlush(t, p, c, row)
           THEN EnsureFlushed(row, c.active, eng[t].buf)
           ELSE {[status |-> "clean", row |-> row]} :
    \/ /\ v.status = "pending"
       /\ Write(t, [c EXCEPT !.parked = [slot |-> p.slot, flush |-> c.active]], v.row, eng[t])
    \/ /\ v.status = "failed"
       /\ Write(t, Unparked(c), v.row, eng[t])
    \/ /\ v.status = "clean"
       /\ Perform(t, p, c, v.row)

-----------------------------------------------------------------------------
(* The bench's main loop. *)

\* No scene press is half way through.
MainIdle == \A t \in Tracks : scene[t] = NoPlan

\* The player finds the column settled, but for what they do not wait for.
Settled(t, s) ==
  /\ \/ "report" \in Hurry
     \/ known[t] = eng[t].st /\ eng[t].buf.id \in {0, lenSeen[t]}
  /\ \/ "queue" \in Hurry
     \/ col[t].pending.kind = "none"
     \/ PendingOwner(col[t].pending) = s
  /\ \/ "take" \in Hurry
     \/ s = col[t].active
     \/ eng[t].st \in {"off", "play", "stopped"}

\* A pad press, or the long press of a pad outside the active lane.
Press(t, s, hold) ==
  /\ MainIdle
  /\ Settled(t, s)
  /\ hold => ~ActiveLane(Shape(cells[t]), col[t].active, s)
  /\ CarryOut(t, PlanCellPress(Shape(cells[t]), col[t].active, col[t].pending, s, hold),
              col[t], cells[t])
  /\ asked' = [asked EXCEPT ![t] = TRUE]
  /\ UNCHANGED <<scene, heard, takes, own>>

\* The long press of the active lane: the gesture clears the engine, or cancels
\* an armed take; the runtime forgets the slot.
HoldClear(t) ==
  LET s == col[t].active
  IN /\ MainIdle
     /\ s # None
     /\ Settled(t, s)
     /\ "take" \in Hurry \/ eng[t].st # "waitstart"
     /\ \E e \in IF known[t] = "waitstart" THEN HitRecord(eng[t]) ELSE {IdleEngine} :
          Write(t, [Abandoned(col[t]) EXCEPT !.active = None, !.cleared = Unheard(t)],
                Deleted(cells[t], s), e)
     /\ UNCHANGED <<scene, heard, history>>

\* A scene press plans its whole row from one view of the tracks ...
ScenePress(s) ==
  LET tracks == SceneTracks([t \in Tracks |-> Shape(cells[t])],
                            [t \in Tracks |-> col[t].active],
                            [t \in Tracks |-> known[t] \in ActivePlay], s)
  IN /\ MainIdle
     /\ \A t \in tracks : Settled(t, s)
     /\ tracks # {}
     /\ scene' = [t \in Tracks |->
                    IF t \in tracks
                    THEN PlanCellPress(Shape(cells[t]), col[t].active,
                                       col[t].pending, s, FALSE)
                    ELSE NoPlan]
     /\ asked' = [t \in Tracks |-> asked[t] \/ t \in tracks]
     /\ UNCHANGED <<cells, col, eng, heard, takes, own>>

\* ... and dispatches the plans one track at a time.
SceneStep(t) ==
  /\ scene[t] # NoPlan
  /\ CarryOut(t, scene[t], col[t], cells[t])
  /\ scene' = [scene EXCEPT ![t] = NoPlan]
  /\ UNCHANGED <<heard, history>>

\* Mutant of StopAll: the queued launches are forgotten about.
StopAllButTheQueue ==
  /\ MainIdle
  /\ eng' = [t \in Tracks |-> HitQuiet(eng[t])]
  /\ asked' = [t \in Tracks |-> FALSE]
  /\ UNCHANGED <<cells, col, scene, heard, takes, own>>

\* Stop All: every loop is muted and paused and all queued intent is dropped.
StopAll ==
  /\ MainIdle
  /\ "report" \in Hurry \/ \A t \in Tracks : known[t] = eng[t].st
  /\ eng' = [t \in Tracks |-> HitQuiet(eng[t])]
  /\ col' = [t \in Tracks |-> Abandoned(col[t])]
  /\ asked' = [t \in Tracks |-> FALSE]
  /\ UNCHANGED <<cells, scene, heard, takes, own>>

\* Clear All: every loop emptied, the model born again; the clip files stay.
ClearAll ==
  /\ MainIdle
  /\ eng' = [t \in Tracks |-> IdleEngine]
  /\ col' = [t \in Tracks |-> [BlankColumn EXCEPT !.cleared = Unheard(t)]]
  /\ cells' = [t \in Tracks |-> [s \in Slots |-> BlankCell(cells[t][s].clip)]]
  /\ lenSeen' = [t \in Tracks |-> 0]
  /\ UNCHANGED <<scene, known, elsewhere, history>>

\* The launch held for the loop's wrap or the bar line reaches the engine.
LandPending(t, c, row) ==
  IF c.deferred = None \/ CanLaunch(c, row, c.deferred)
  THEN Write(t, Resolved(c), row,
             IF c.deferred = None THEN eng[t] ELSE Launched(eng[t], c, row, c.deferred))
  ELSE Write(t, [Unqueued(c) EXCEPT !.pending = NoPending], row, eng[t])

\* Mutant of MaybeResolve: a held launch waits for its wrap, come what may.
MaybeResolveByWrapOnly(t, c, row, k, e) ==
  \/ /\ c.deferred # None \/ c.pending.kind = "none" \/ k \notin ActivePlay
     /\ Write(t, c, row, e)
  \/ /\ c.deferred = None /\ c.pending.kind # "none" /\ k \in ActivePlay
     /\ LandPending(t, c, row)

\* Settle what is queued, seen in state k: a held launch is dropped in silence
\* unless the grid owns it, and forced once its grace has passed; one that went
\* out at the press is confirmed by the loop sounding.
MaybeResolve(t, c, row, k, e) ==
  \/ /\ \/ c.pending.kind = "none"
        \/ c.deferred # None /\ (k \in ActivePlay \/ c.gridWait)
        \/ c.deferred = None /\ k \notin ActivePlay
     /\ Write(t, c, row, e)
  \/ /\ c.pending.kind # "none"
     /\ c.deferred # None /\ k \notin ActivePlay /\ ~c.gridWait
     /\ Write(t, Abandoned(c), row, e)
  \/ /\ c.pending.kind # "none"
     /\ k \in ActivePlay
     /\ LandPending(t, c, row)

\* Mutant of Resume: a parked press is only ever released by a save that worked.
ResumeOnSuccess(t) ==
  /\ MainIdle
  /\ col[t].parked # NoPress
  /\ cells[t][col[t].parked.flush].job # "running"
  /\ \E v \in Polls(cells[t], col[t].parked.flush) :
       LET c == Unparked(col[t])
       IN CarryOut(t, PlanCellPress(Shape(v.row), c.active, c.pending,
                                    col[t].parked.slot, FALSE), c, v.row)
  /\ UNCHANGED <<scene, heard, history>>

\* The idle polls.  A parked press is replayed once its save is over, and
\* refused if the save failed.
Resume(t) ==
  LET parked == col[t].parked
  IN /\ MainIdle
     /\ parked # NoPress
     /\ \E v \in Polls(cells[t], parked.flush) :
          \/ /\ v.status = "failed"
             /\ Write(t, Unparked(col[t]), v.row, eng[t])
          \/ /\ v.status = "clean"
             /\ LET c == Unparked(col[t])
                IN CarryOut(t, PlanCellPress(Shape(v.row), c.active, c.pending,
                                             parked.slot, FALSE), c, v.row)
     /\ UNCHANGED <<scene, heard, history>>

PollGridWait(t) ==
  /\ MainIdle
  /\ col[t].gridWait
  /\ LandPending(t, col[t], cells[t])
  /\ UNCHANGED <<scene, heard, history>>

PollPending(t) ==
  /\ MainIdle
  /\ col[t].pending.kind # "none"
  /\ MaybeResolve(t, col[t], cells[t], known[t], eng[t])
  /\ UNCHANGED <<scene, heard, history>>

-----------------------------------------------------------------------------
(* The OSC threads: what the engine reports. *)

\* The take now in the buffer is written down on the active slot, if that is
\* still empty; a save in flight for the cell dies with the take it was about.
Registered(t, k, len) ==
  LET s == col[t].active
  IN IF s # None /\ ~Occupied(Shape(cells[t]), s) /\ k \in ActivePlay /\ len # 0
     THEN [cells[t] EXCEPT ![s] = [@ EXCEPT !.slot = "dirty", !.job = "none",
                                            !.saving = Silence]]
     ELSE cells[t]

\* A state report.  One that says RECORDING may find a stop queued by an earlier
\* tap, which is sent now.
ReportState(t) ==
  LET k == eng[t].st
  IN /\ known[t] # k
     /\ known' = [known EXCEPT ![t] = k]
     /\ \E e \in {eng[t]} \cup (IF k = "rec" THEN HitRecord(eng[t]) ELSE {}) :
          MaybeResolve(t, [col[t] EXCEPT !.cleared = @ /\ k # "off"],
                       Registered(t, k, lenSeen[t]), k, e)
     /\ UNCHANGED <<scene, lenSeen, elsewhere, history>>

\* A length report, sent when the length has changed; an empty loop's is ignored.
ReportLength(t) ==
  /\ eng[t].buf.id \notin {0, lenSeen[t]}
  /\ lenSeen' = [lenSeen EXCEPT ![t] = eng[t].buf.id]
  /\ cells' = [cells EXCEPT ![t] = Registered(t, known[t], eng[t].buf.id)]
  /\ UNCHANGED <<col, scene, eng, known, elsewhere, history>>

\* The position reports of a loop that holds audio show it wrapping.
Wrap(t) ==
  /\ eng[t].buf.id # 0
  /\ col[t].pending.kind # "none"
  /\ LandPending(t, col[t], cells[t])
  /\ UNCHANGED <<scene, heard, history>>

-----------------------------------------------------------------------------
(* The engine's own steps. *)

EngineMoves(t, e) ==
  /\ eng' = [eng EXCEPT ![t] = e]
  /\ UNCHANGED <<cells, col, scene, heard, asked>>

\* The boundary an armed take starts on.
TakeStarts(t) ==
  /\ eng[t].st = "waitstart"
  /\ EngineMoves(t, [st |-> "rec", buf |-> Silence])
  /\ UNCHANGED <<takes, own>>

\* The boundary a take closes on, into its ring-out or straight into playing.
TakeCloses(t) ==
  /\ eng[t].st = "waitstop"
  /\ takes < MaxTakes
  /\ takes' = takes + 1
  /\ \E st \in ActivePlay :
       EngineMoves(t, [st |-> st, buf |-> [id |-> takes + 1, whole |-> st = "play"]])
  /\ own' = IF col[t].active = None THEN own
            ELSE [own EXCEPT ![t] = [@ EXCEPT ![col[t].active] = takes + 1]]

\* The ring-out is over: TrackGesture's tail sends the closing overdub.
RingEnds(t) ==
  /\ eng[t].st = "ring"
  /\ EngineMoves(t, HitOverdub(eng[t]))
  /\ UNCHANGED <<takes, own>>

\* A loop this model leaves out starts or stops sounding.
NeighbourMoves ==
  /\ Neighbours
  /\ elsewhere' = ~elsewhere
  /\ UNCHANGED <<cells, col, scene, eng, known, lenSeen, history>>

-----------------------------------------------------------------------------
Player(t) == \/ \E s \in Slots, hold \in BOOLEAN : Press(t, s, hold)
             \/ HoldClear(t)
Main(t) == SceneStep(t) \/ Resume(t) \/ PollGridWait(t) \/ PollPending(t)
Reports(t) == ReportState(t) \/ ReportLength(t) \/ Wrap(t)
EngineSteps(t) == \/ TakeStarts(t) \/ TakeCloses(t) \/ RingEnds(t)
                  \/ \E s \in Slots : SaveLands(t, s)

Next ==
  \/ \E t \in Tracks : Player(t) \/ Main(t) \/ Reports(t) \/ EngineSteps(t)
  \/ \E s \in Slots : ScenePress(s)
  \/ StopAll
  \/ ClearAll
  \/ NeighbourMoves

Spec == Init /\ [][Next]_vars

\* The main loop carries a scene press through and then polls again, whatever the
\* player presses in between, so a poll that finds work over and over does it;
\* nothing is promised about the player, the reports, the engine or the disk.
Fairness == \A t \in Tracks : /\ WF_vars(SceneStep(t))
                              /\ SF_vars(Resume(t))
                              /\ SF_vars(PollGridWait(t))
                              /\ SF_vars(PollPending(t))
FairSpec == Spec /\ Fairness

-----------------------------------------------------------------------------
(* Properties. *)

\* The type invariant.
TypeOK ==
  /\ cells \in [Tracks -> [Slots -> Cell]]
  /\ col \in [Tracks -> Column]
  /\ scene \in [Tracks -> Plan \cup {NoPlan}]
  /\ eng \in [Tracks -> Engine]
  /\ known \in [Tracks -> EngineState]
  /\ lenSeen \in [Tracks -> 0..MaxTakes]
  /\ elsewhere \in BOOLEAN
  /\ takes \in 0..MaxTakes
  /\ own \in [Tracks -> [Slots -> 0..MaxTakes]]
  /\ asked \in [Tracks -> BOOLEAN]

\* "A job dies with the audio it is about": a save is in flight only for a cell
\* that still holds the unsaved take, and what landed is a real recording.
JobsAreForUnsavedTakes ==
  \A t \in Tracks, s \in Slots :
    LET cell == cells[t][s]
    IN /\ cell.job # "none" => cell.slot = "dirty"
       /\ cell.job = "landed" => cell.saving.id # 0

\* A pad the model calls saved can be launched: its file exists.
SavedClipsExist ==
  \A t \in Tracks, s \in Slots : cells[t][s].slot = "clean" => HasClip(cells[t][s])

\* A press parked behind a save can only be released by that save: the ledger
\* answers "clean" for a cell it knows no save of, which would release it on
\* nothing.
ParkedOnItsSave ==
  \A t \in Tracks :
    col[t].parked # NoPress => cells[t][col[t].parked.flush].job # "none"

\* The three places a queued launch is kept agree: a bar line is awaited only
\* for a held launch, a held launch is a queued action, and what is held or
\* queued is a clip that can still be loaded.
QueueConsistent ==
  \A t \in Tracks :
    LET c == col[t]
    IN /\ c.gridWait => c.deferred # None
       /\ c.deferred # None => c.pending.kind # "none" /\ HasClip(cells[t][c.deferred])
       /\ c.pending.kind # "none" => c.pending.to # None
                                     /\ Occupied(Shape(cells[t]), c.pending.to)

\* With a patient player: audio that is not on disk is in the engine's buffer,
\* which is bound to its slot.
UnsavedTakeIsInBuffer ==
  \A t \in Tracks, s \in Slots :
    cells[t][s].slot = "dirty" => col[t].active = s /\ eng[t].buf.id = own[t][s]

\* With a patient player: a clip called saved is the whole of the slot's own
\* last take, ring-out included.
SavedClipIsTheTake ==
  \A t \in Tracks, s \in Slots :
    cells[t][s].slot = "clean" => cells[t][s].clip = [id |-> own[t][s], whole |-> TRUE]

\* With a patient player: what sounds is the slot the surface shows as active.
HeardIsShown ==
  \A t \in Tracks :
    LET s == col[t].active
    IN s # None /\ eng[t].st \in ActivePlay /\ col[t].pending.kind = "none"
       => eng[t].buf.id = own[t][s]

\* After Stop All nothing starts a stopped loop until the player asks for it.
StopAllHolds ==
  [][\A t \in Tracks : ~asked'[t] /\ eng[t].st = "stopped" => eng'[t].st # "play"]_vars

\* A pad never goes deaf: a parked press is replayed or refused in the end.
ParkedResolves ==
  \A t \in Tracks, s \in Slots :
    col[t].parked.flush = s ~> col[t].parked.flush # s

\* A held launch is never stranded: it lands or is dropped, although no wrap
\* and no report may ever come.
HeldLaunchResolves == \A t \in Tracks : col[t].deferred # None ~> col[t].deferred = None

=============================================================================
