----------------------------- MODULE TrackGrid ------------------------------
(***************************************************************************)
(* One pad per loop (the bench without the clip matrix) and the grid its    *)
(* loops share: TrackGesture (track_gesture.py) with the plans of           *)
(* loop_model.py, GridState (sl_grid_state.py), and what sl_grid_sync.py    *)
(* tells the engine of the grid.                                            *)
(*                                                                         *)
(* There is no grid until a take defines one: the first press arms its loop *)
(* as the defining one, and the grid takes the length of that take when the *)
(* engine reports both that the loop plays and how long it is.  The grid    *)
(* goes when the last loop with audio is reported empty, and at Clear All.  *)
(* GridState lives in the bench; the engine is only told, so its tempo, its *)
(* quantize controls and its bar line have to be kept in step.              *)
(*                                                                         *)
(* A handler is one step.  A ring-out may end at any poll once it is under  *)
(* way (decay, silence, cap or wrap; the inbox the OSC threads fill is      *)
(* drained within 2 ms of a report and is not kept here); a queued mute or  *)
(* launch may land at once.  Re-anchoring the phase sends the same grid     *)
(* again and changes nothing kept here.                                     *)
(***************************************************************************)
EXTENDS Naturals

CONSTANTS Loops,       \* the loops the bench drives
          Lengths,     \* the lengths a take may have
          MinDefining, \* a shorter take may not define the grid (MIN_DEFINING_TAKE_S)
          ArmedRecordCancels, \* what `record` does to an armed take, see HitRecord
          MaxCrashes   \* bound: engine restarts in one behaviour

ASSUME LengthsAssumption == Lengths \subseteq Nat \ {0}
ASSUME MinDefiningAssumption == MinDefining \in Nat
ASSUME ArmedRecordAssumption == ArmedRecordCancels \in BOOLEAN
ASSUME MaxCrashesAssumption == MaxCrashes \in Nat

None == "none"
ASSUME NoneAssumption == None \notin Loops

\* the engine
VARIABLES
  eng,      \* eng[l]: state of the loop, length of its audio, what a queued close leads to
  told,     \* what the engine was last told of the grid
  restarts, \* the restarts the bench has not heard of yet (0 or 1), and all of them

\* the bench
  heard,    \* heard[l]: the last reported state and length (sl_state, loop_len)
  intent,   \* intent[l]: what the last command should lead to (TrackGesture._pending)
  stopDue,  \* stopDue[l]: the take is to be stopped as soon as it runs (_stop_queued)
  owed,     \* owed[l]: the last gesture moved the engine and no report has caught up
  tail,     \* tail[l]: a ring-out is being watched (_tail)
  grid,     \* GridState
  settle    \* a Stop All is to be checked and corrected (stop_all_verify_at)

vars == <<eng, told, restarts, heard, intent, stopDue, owed, tail, grid, settle>>

-----------------------------------------------------------------------------
(* The engine, as far as the bench can tell. *)

\* OFF or OFF_MUTED, WAIT_START, RECORDING, WAIT_STOP, OVERDUBBING, PLAYING,
\* MUTE or PAUSED.
EngineState == {"off", "waitstart", "rec", "waitstop", "ring", "play", "quiet"}
Engine == [st : EngineState, len : Lengths \cup {0}, ringing : BOOLEAN]
ActivePlay == {"ring", "play"}

Into(st, len) == [st |-> st, len |-> len, ringing |-> FALSE]
Blank == Into("off", 0)
Landings(st) == {Into(st, len) : len \in Lengths}

\* `record` starts a take, at once or at the boundary, and closes a running one.
\* The repository holds two readings of a `record` sent to an armed loop: it is
\* ignored (measured, tests/engine/test_engine_claims.py:161), or it cancels the
\* take (tests/fake_sl_engine.py).
HitRecord(e) ==
  CASE e.st = "waitstart" /\ ~ArmedRecordCancels -> {e}
    [] e.st = "waitstart" /\ ArmedRecordCancels ->
         {IF e.len = 0 THEN Blank ELSE Into("play", e.len)}
    [] e.st = "rec" -> IF told.quant THEN {Into("waitstop", 0)} ELSE Landings("play")
    [] e.st = "waitstop" -> {Into("rec", 0)}
    [] OTHER -> {IF told.quant THEN Into("waitstart", e.len) ELSE Into("rec", 0)}

\* `overdub` closes a take into its ring-out, and toggles overdubbing on a loop.
HitOverdub(e) ==
  CASE e.st = "rec" -> IF told.quant THEN {[Into("waitstop", 0) EXCEPT !.ringing = TRUE]}
                       ELSE Landings("ring")
    [] e.st = "ring" -> {Into("play", e.len)}
    [] e.st = "play" -> {Into("ring", e.len)}
    [] OTHER -> {e}

HitQuiet(e) == {IF e.st \in ActivePlay THEN Into("quiet", e.len) ELSE e}    \* mute_on, pause_on
HitTrigger(e) == {IF e.st = "quiet" THEN Into("play", e.len) ELSE e}        \* trigger, mute_off

Commands == {"record", "overdub", "quiet", "trigger", "undo_all", "nothing"}
Hit(cmd, e) ==
  CASE cmd = "record" -> HitRecord(e)
    [] cmd = "overdub" -> HitOverdub(e)
    [] cmd = "quiet" -> HitQuiet(e)
    [] cmd = "trigger" -> HitTrigger(e)
    [] cmd = "undo_all" -> {Blank}
    [] cmd = "nothing" -> {e}

-----------------------------------------------------------------------------
(* GridState, and what the engine is told of it. *)

Grid == [est : BOOLEAN, cycle : Lengths \cup {0}, pending : Loops \cup {None},
         occupied : SUBSET Loops]
NoGrid == [est |-> FALSE, cycle |-> 0, pending |-> None, occupied |-> {}]

Arm(g, l) == IF g.est \/ g.pending # None THEN g ELSE [g EXCEPT !.pending = l]
\* Mutant of Cancel: the grid goes on waiting for the take.
CancelNothing(g, l) == g
Cancel(g, l) == IF g.pending = l THEN [g EXCEPT !.pending = None] ELSE g

\* Mutant of Establish: a take that is too short is waited for.
EstablishWhenLong(g, l, len) ==
  IF g.est \/ g.pending # l \/ len < MinDefining THEN g
  ELSE [g EXCEPT !.est = TRUE, !.cycle = len, !.pending = None]
\* Mutant of Establish: a take that is too short makes a grid of the least length.
EstablishAtLeast(g, l, len) ==
  IF g.est \/ g.pending # l \/ len = 0 THEN g
  ELSE [g EXCEPT !.est = TRUE, !.pending = None,
                 !.cycle = IF len < MinDefining THEN MinDefining ELSE len]
Establish(g, l, len) ==
  IF g.est \/ g.pending # l \/ len = 0 THEN g
  ELSE IF len < MinDefining THEN [g EXCEPT !.pending = None]
  ELSE [g EXCEPT !.est = TRUE, !.cycle = len, !.pending = None]

\* Mutant of NoteLoopContent: only the loop noted last is counted.
NoteLastContent(g, l, holds) ==
  LET o == IF holds THEN {l} ELSE g.occupied \ {l}
  IN IF o = {} /\ g.est /\ g.pending = None THEN NoGrid ELSE [g EXCEPT !.occupied = o]
NoteLoopContent(g, l, holds) ==
  LET o == IF holds THEN g.occupied \cup {l} ELSE g.occupied \ {l}
  IN IF o = {} /\ g.est /\ g.pending = None THEN NoGrid ELSE [g EXCEPT !.occupied = o]

\* quant: the loops wait for the bar.  cycle: the bar, 0 for the start-up tempo.
\* shared: the bench's downbeat is the one of the last tempo sent.
Told == [quant : BOOLEAN, cycle : Lengths \cup {0}, shared : BOOLEAN]
Freeform == [quant |-> FALSE, cycle |-> 0, shared |-> FALSE]     \* apply_grid_sync
ApplyEstablishedGrid(t, g, arm) ==
  [quant |-> t.quant \/ arm, cycle |-> g.cycle, shared |-> TRUE]
\* Mutant of DropGrid: the loops go on waiting for the bar.
DropGridQuantized(t) == [t EXCEPT !.shared = FALSE]
DropGrid(t) == [t EXCEPT !.quant = FALSE, !.shared = FALSE]

\* What a report's handler tells the engine once it has turned g into h.
Tell(t, g, h) ==
  IF h.est /\ ~g.est THEN ApplyEstablishedGrid(t, h, TRUE)
  ELSE IF g.est /\ ~h.est THEN DropGrid(t)
  ELSE t

-----------------------------------------------------------------------------
Init ==
  /\ eng = [l \in Loops |-> Blank]
  /\ told = Freeform
  /\ restarts = [unheard |-> FALSE, total |-> 0]
  /\ heard = [l \in Loops |-> [st |-> "off", len |-> 0]]
  /\ intent = [l \in Loops |-> "none"]
  /\ stopDue = [l \in Loops |-> FALSE]
  /\ owed = [l \in Loops |-> FALSE]
  /\ tail = [l \in Loops |-> FALSE]
  /\ grid = NoGrid
  /\ settle = FALSE

\* The reports have caught up with the engine.
Current(l) == heard[l].st = eng[l].st /\ heard[l].len = eng[l].len

-----------------------------------------------------------------------------
(* What a press means (loop_model.py). *)

Intents == {"none", "idle", "recording", "playing", "stopped"}

DeriveState(st) ==
  CASE st = "off" -> "idle"
    [] st \in {"waitstart", "rec", "waitstop"} -> "recording"
    [] st \in ActivePlay -> "playing"
    [] st = "quiet" -> "stopped"

EffectiveState(st, i) == IF i = "none" THEN DeriveState(st) ELSE i

\* The intents that may be left of i in state st: it is dropped once it is met,
\* and, where it may have run out of time, unmet.
Expire(st, i, late) ==
  IF i = DeriveState(st) THEN {"none"} ELSE IF late THEN {i, "none"} ELSE {i}

NoPlan == [cmd |-> "nothing", intent |-> "none", arm |-> FALSE, queue |-> FALSE]
Plan(cmd, i) == [NoPlan EXCEPT !.cmd = cmd, !.intent = i]

PlanDown(l, st, i) ==
  CASE EffectiveState(st, i) = "idle" ->
         [Plan("record", "recording") EXCEPT !.arm = ~grid.est]
    [] EffectiveState(st, i) = "recording" ->
         IF st = "waitstop" THEN Plan("record", i)
         ELSE IF grid.pending = l
              THEN Plan(IF st = "rec" THEN "overdub" ELSE "record", "playing")
         ELSE IF st # "rec" THEN [Plan("nothing", "recording") EXCEPT !.queue = TRUE]
         ELSE IF grid.est THEN Plan("overdub", i)
         ELSE Plan("record", "playing")
    [] EffectiveState(st, i) \in {"playing", "stopped"} ->
         IF st = "ring" THEN Plan("overdub", "playing") ELSE Plan("nothing", i)

PlanUp(st, i) ==
  IF i = "stopped" /\ st \in ActivePlay THEN Plan("trigger", "none")
  ELSE IF i = "playing" /\ st = "quiet" THEN Plan("quiet", "none")
  ELSE IF EffectiveState(st, i) = "playing" /\ st # "ring" THEN Plan("quiet", "stopped")
  ELSE IF EffectiveState(st, i) = "stopped" /\ st # "ring" THEN Plan("trigger", "playing")
  ELSE Plan("nothing", i)

-----------------------------------------------------------------------------
(* The player's fingers.  A pad is debounced for longer than a report takes
   (200 ms against 100 ms), so its next gesture finds the report of what the
   last one did; whatever else moves the loop may be unreported.  The chords of
   Stop All and Clear All take longer than a report too.  An edge may be
   ignored (debounce, quantize wait), so the edges of a pad may take effect in
   any order and whether it is down is not kept.                            *)

MayAct(l) == owed[l] => Current(l)

\* Send the command and expect what the plan says.
Do(l, cmd, i) ==
  \E e \in Hit(cmd, eng[l]) :
    /\ eng' = [eng EXCEPT ![l] = e]
    /\ owed' = [owed EXCEPT ![l] = e # eng[l]]
    /\ intent' = [intent EXCEPT ![l] = i]

Carry(l, p) ==
  /\ Do(l, p.cmd, p.intent)
  /\ grid' = IF p.arm THEN Arm(grid, l) ELSE grid
  /\ stopDue' = [stopDue EXCEPT ![l] = @ \/ p.queue]

OnPadDown(l) ==
  /\ MayAct(l)
  /\ \E i \in Expire(heard[l].st, intent[l], Current(l)) :
       Carry(l, PlanDown(l, heard[l].st, i))
  /\ UNCHANGED <<told, restarts, heard, tail, settle>>

OnPadUp(l) ==
  /\ MayAct(l)
  /\ heard[l].st \notin {"rec", "waitstart", "waitstop"}
  /\ \E i \in Expire(heard[l].st, intent[l], Current(l)) :
       Carry(l, PlanUp(heard[l].st, i))
  /\ UNCHANGED <<told, restarts, heard, tail, settle>>

\* A long press cancels a take that is armed or running and clears a clip.
HoldTargetsCancel(l) ==
  heard[l].st \in {"rec", "waitstart", "waitstop"} \/ EffectiveState(heard[l].st, intent[l]) = "recording"

PollHold(l) ==
  /\ MayAct(l)
  /\ Do(l, IF HoldTargetsCancel(l) /\ heard[l].st = "waitstart" THEN "record" ELSE "undo_all", "idle")
  /\ grid' = Cancel(grid, l)
  /\ stopDue' = [stopDue EXCEPT ![l] = FALSE]
  /\ UNCHANGED <<told, restarts, heard, tail, settle>>

-----------------------------------------------------------------------------
(* What the engine reports, and what it does by itself. *)

\* A queued action lands at the boundary.
Boundary(l) ==
  /\ \/ eng[l].st = "waitstart" /\ eng' = [eng EXCEPT ![l] = Into("rec", 0)]
     \/ /\ eng[l].st = "waitstop"
        /\ \E e \in Landings(IF eng[l].ringing THEN "ring" ELSE "play") :
             eng' = [eng EXCEPT ![l] = e]
  /\ UNCHANGED <<told, restarts, heard, intent, stopDue, owed, tail, grid, settle>>

HoldsAudio(st, i) == st # "off" \/ i # "none"

\* The grid once state st of loop l is in, with intent i left.
GridAfterState(l, st, i) ==
  NoteLoopContent(IF st = "play" THEN Establish(grid, l, heard[l].len) ELSE grid,
                  l, HoldsAudio(st, i))

SyncFromSl(l) ==
  LET st == eng[l].st
      close == stopDue[l] /\ st = "rec"
  IN /\ heard[l].st # st
     /\ heard' = [heard EXCEPT ![l].st = st]
     /\ \E e \in (IF close THEN HitRecord(eng[l]) ELSE {eng[l]}) :
          /\ eng' = [eng EXCEPT ![l] = e]
          /\ owed' = [owed EXCEPT ![l] = @ /\ heard[l].len # eng[l].len]
     /\ stopDue' = [stopDue EXCEPT ![l] = @ /\ ~close]
     /\ tail' = [tail EXCEPT ![l] = st = "ring"]
     /\ \E i \in Expire(st, intent[l], TRUE) :
          /\ intent' = [intent EXCEPT ![l] = i]
          /\ grid' = GridAfterState(l, st, i)
          /\ told' = Tell(told, grid, GridAfterState(l, st, i))
     /\ UNCHANGED <<restarts, settle>>

SyncLoopLen(l) ==
  LET g == IF heard[l].st = "play" THEN Establish(grid, l, eng[l].len) ELSE grid
  IN /\ heard[l].len # eng[l].len
     /\ heard' = [heard EXCEPT ![l].len = eng[l].len]
     /\ owed' = [owed EXCEPT ![l] = @ /\ heard[l].st # eng[l].st]
     /\ grid' = g
     /\ told' = Tell(told, grid, g)
     /\ UNCHANGED <<eng, restarts, intent, stopDue, tail, settle>>

\* The ring-out has decayed, wrapped or run into its cap.
PollTail(l) ==
  /\ tail[l]
  /\ tail' = [tail EXCEPT ![l] = FALSE]
  /\ \E e \in (IF heard[l].st = "ring" THEN HitOverdub(eng[l]) ELSE {eng[l]}) :
       eng' = [eng EXCEPT ![l] = e]
  /\ UNCHANGED <<told, restarts, heard, intent, stopDue, owed, grid, settle>>

-----------------------------------------------------------------------------
(* Stop All, Clear All, and an engine that comes back. *)

\* `mute_on` and `pause_on`: what they do to a take under way is not known, so it
\* may go on or may be closed.
Silenced(e) ==
  IF e.st \in {"rec", "waitstop"} THEN {e} \cup Landings("quiet") ELSE HitQuiet(e)

StopAllLoops ==
  /\ \A l \in Loops : MayAct(l)
  /\ eng' \in {f \in [Loops -> UNION {Silenced(eng[l]) : l \in Loops}] :
                 \A l \in Loops : f[l] \in Silenced(eng[l])}
  /\ told' = IF grid.est THEN ApplyEstablishedGrid(Freeform, grid, FALSE)
             ELSE [told EXCEPT !.quant = FALSE]
  /\ intent' = [l \in Loops |-> IF heard[l].st = "off" THEN intent[l] ELSE "stopped"]
  /\ settle' = TRUE
  /\ UNCHANGED <<restarts, heard, stopDue, owed, tail, grid>>

\* A second later: pause again whatever is reported active, restore the quantize.
SettleStopAll ==
  /\ settle
  /\ settle' = FALSE
  /\ LET active == {l \in Loops : heard[l].st \notin {"off", "quiet"}}
     IN eng' \in {f \in [Loops -> UNION {Silenced(eng[l]) \cup {eng[l]} : l \in Loops}] :
                    \A l \in Loops : f[l] \in IF l \in active THEN Silenced(eng[l]) ELSE {eng[l]}}
  /\ told' = [told EXCEPT !.quant = grid.est]
  /\ UNCHANGED <<restarts, heard, intent, stopDue, owed, tail, grid>>

ResetAllLoops ==
  /\ \A l \in Loops : MayAct(l)
  /\ grid' = NoGrid
  /\ told' = DropGrid(told)
  /\ eng' = [l \in Loops |-> Blank]
  /\ intent' = [l \in Loops |-> "idle"]
  /\ stopDue' = [l \in Loops |-> FALSE]
  /\ owed' = [l \in Loops |-> heard[l] # [st |-> "off", len |-> 0]]
  /\ UNCHANGED <<restarts, heard, tail, settle>>

\* The engine comes back empty, with its own defaults; the player waits until
\* its reports are back.
EngineRestarts ==
  /\ restarts.total < MaxCrashes
  /\ restarts' = [unheard |-> TRUE, total |-> restarts.total + 1]
  /\ eng' = [l \in Loops |-> Blank]
  /\ told' = Freeform
  /\ owed' = [l \in Loops |-> heard[l] # [st |-> "off", len |-> 0]]
  /\ UNCHANGED <<heard, intent, stopDue, tail, grid, settle>>

OnLooperEngineStarted ==
  /\ restarts.unheard
  /\ restarts' = [restarts EXCEPT !.unheard = FALSE]
  /\ told' = IF grid.est THEN ApplyEstablishedGrid(Freeform, grid, TRUE) ELSE Freeform
  /\ UNCHANGED <<eng, heard, intent, stopDue, owed, tail, grid, settle>>

-----------------------------------------------------------------------------
Next ==
  \/ \E l \in Loops :
       \/ OnPadDown(l)
       \/ OnPadUp(l)
       \/ PollHold(l)
       \/ Boundary(l)
       \/ SyncFromSl(l)
       \/ SyncLoopLen(l)
       \/ PollTail(l)
  \/ StopAllLoops
  \/ SettleStopAll
  \/ ResetAllLoops
  \/ EngineRestarts
  \/ OnLooperEngineStarted

Spec == Init /\ [][Next]_vars

-----------------------------------------------------------------------------
(* Properties *)

\* The variables keep their types.
TypeOK ==
  /\ eng \in [Loops -> Engine]
  /\ told \in Told
  /\ restarts \in [unheard : BOOLEAN, total : Nat]
  /\ heard \in [Loops -> [st : EngineState, len : Lengths \cup {0}]]
  /\ intent \in [Loops -> Intents]
  /\ stopDue \in [Loops -> BOOLEAN]
  /\ owed \in [Loops -> BOOLEAN]
  /\ tail \in [Loops -> BOOLEAN]
  /\ grid \in Grid
  /\ settle \in BOOLEAN

\* The take the grid waits for exists: the pending loop records, is about to, or
\* holds audio.  A pending loop without a take would refuse every later one.
DefinerLives ==
  grid.pending # None /\ restarts.total = 0 => eng[grid.pending].st # "off"

\* A defining take that has landed, state and length both reported in either
\* order, no longer waits: it became the grid or was refused.
LandedTakeDefines ==
  \A l \in Loops : Current(l) /\ eng[l].st = "play" => grid.pending # l

\* Once a restart has been heard of, the engine counts the bench's cycle from the
\* bench's downbeat; outside the second after a Stop All its loops wait for the
\* bar exactly when there is a grid.
EngineKnowsGrid ==
  ~restarts.unheard =>
    /\ grid.est => told.cycle = grid.cycle /\ told.shared
    /\ ~settle => told.quant = grid.est

\* The grid is the length of the take that defines it, never that of an earlier
\* take in the same loop.
GridIsTheTake ==
  [][grid'.est /\ ~grid.est =>
       eng[grid.pending].len = grid'.cycle /\ grid'.cycle >= MinDefining]_vars

\* A grid is dropped only when no loop holds audio the bench has heard of and the engine
\* still has, or by clearing every loop: whatever armed, landed, cancelled and cleared
\* loops note of their audio, and in whatever order, one that sounds keeps the grid
\* (note_loop_content: "No clips playing, grid remains").
DropsWhenEmpty ==
  [][grid.est /\ ~grid'.est =>
       \A l \in Loops : heard'[l].st = "off" \/ eng'[l].st = "off"]_vars

=============================================================================
