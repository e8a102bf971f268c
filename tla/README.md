# MPE Sound Module: specification and proofs

TLA+ models of the MPE Sound Module (a Raspberry Pi instrument: Surge XT,
SooperLooper, a touch patch browser and an APC pad grid), the TLC
configurations that check them, and TLAPS proofs about them. The models cover
the clip matrix of the looper and its saving of takes to disk, where the
program can lose a player's recording; the pads of plain loops and the grid that
their first take defines, where bench and engine can come to count differently;
the translation of a classic keyboard to MPE, where it can leave a note
hanging; the wiring of the live signal through inserts that may die, where the
instrument can fall silent or sound twice; songs on a card whose power may go;
the levels of loops and of the live signal; the limit on sounding voices that
three processes share; the depth of the effects and the mod wheel, which a knob and a
screen move from two processes; and the move of the favourites to a new form, with its
undo. Paths below are relative to the
repository; `sl/` abbreviates `src/scripts/sooperlooper/`.

Everything runs in this directory:

    tlc -workers 2 -config SlotsHurried.cfg MCSlotRuntime.tla
    tlapm SlotRuntime_proofs.tla

## 1. The system

### Components, their state and their operations

| Component | Source | State | Operations |
|---|---|---|---|
| Clip matrix planner | `sl/slot_matrix.py` | none (pure) | plan a cell press, plan a scene row, apply and resolve a pending action |
| Clip matrix runtime | `sl/slot_runtime.py` | track model, held launches, awaited bar lines, parked presses | press, dispatch, land, expire, resume, abandon, reset, register a take, clear |
| Matrix surface | `sl/slot_surface.py` | last reports, pad held | note down/up, scene press, Stop All, reset, polls, report and wrap handlers |
| Save ledger | `sl/slot_flush.py` | one job per saving cell | begin, poll, drop, running |
| Pad gesture | `sl/track_gesture.py`, `sl/loop_model.py` | engine state as reported, unconfirmed intent, ring-out phase | tap, hold, engine reports, Stop All, Clear All |
| Ring-out detector | `sl/tail_phase.py` | decay of the level, samples waiting | push from OSC threads, drain from the main loop |
| Timing and grid | `sl/looper_timing.py`, `sl/sl_grid_state.py`, `sl/sl_grid_sync.py` | tempo, cycle, phase mark, who may define the grid | arm, establish, restore, release, next boundary |
| Engine link | `sl/sl_bench_listener.py`, `sl/sl_osc_session.py` | subscriptions, what was polled last | deliver state, length, position, level and peak reports on OSC threads |
| Bench | `src/scripts/sooperlooper-apc-bench.py` | devices, timers | the main loop: MIDI in, polls, transport buttons, engine restart |
| LEDs | `sl/led_compositor.py`, `sl/slot_leds.py`, ... | layers, what the panel was told | submit, replace, clear, invalidate |
| Levels | `sl/loop_mix.py`, `sl/remote_fader.py`, ... | gains, pickup | fader moves, level echoes |
| Live monitor | `sl/live_monitor.py`, `src/native/mpe-live-monitor` | which loop captures, open questions | reports, verification, send gain |
| Songs | `sl/looper_songs.py` | manifests and recordings on disk | save, load, prune |
| Supervision | `sl/sl-watchdog.py`, `sl/sl-health.py`, `sl/looper_engine_events.py` | probe history | probe, repair, alarm |
| Classic MIDI | `src/scripts/midi_translate.py`, `midi_router.py` | voices, per-channel values sent, bindings | translate, steal, panic, promote, unplug |
| MIDI devices | `src/scripts/midi_device.py` and the pressure shaping of the remapper | names, overrides, curves | discover, classify, shape |
| Poly governor | `src/patch_browser/surge_poly_governor.py`, `governor_v2.py`, `poly_voice_tracker.py` | limit, load history, note ledger, shed request | tick, step, emergency, recover, shed |
| Signal path | `src/patch_browser/audio_routing.py`, `src/native/mpe-fx-host`, `src/native/mpe-live-monitor`, `src/scripts/restore-direct-monitor-path.sh`, `src/scripts/lib/audio-engine.sh` | the JACK graph, what each insert believes of it | wire, detach, leave, restore, repair |
| Library and favourites | `src/patch_browser/favorites_migrate.py`, `favorites_index.py`, `library_ops.py` | files in git, index, settings stores, a run's manifest | plan, apply, verify, undo, heart |
| Effects and mod knob | `src/patch_browser/fx_policy.py`, `patch_fx.py`, `fader_pickup.py` | each patch's mask, depth and target; what the screen asked; the router's destination, depth and pickup | load, flip, toggle, drag, publish, follow; knob, refresh, restart |
| Patch browser | `src/touch_patch_browser.py`, `src/patch_browser/` | UI state, per-patch sidecars, library | load, hold, normalise, favourites, settings |
| Audio engines | `src/scripts/lib/`, `src/native/`, systemd units | processes | start, restart, meter |

### How they interact

The **main loop** of the bench handles one MIDI event or one poll at a time. A pad
press goes to the surface, which asks the planner, carries the plan out through
the runtime and, for the lane bound to the engine's buffer, hands the tap to the
track's gesture; the gesture sends OSC commands. **OSC threads** deliver what the
engine reports: state and length (registering takes, confirming launches) and
position (detecting the wrap where a held launch lands). **SooperLooper** runs by
itself: it starts and closes takes on its boundaries and writes the files it is
asked to save, without any reply. The runtime's dictionaries are shared between
the main loop and the OSC threads without a lock.

A track column has eight **slots** and one engine **buffer**. The active slot is bound
to the buffer, and a take just recorded (*dirty*) exists nowhere else. Every press on
another slot reuses the buffer, so the take must first reach a file; the press is
**parked** meanwhile. A launch made while the session sounds is **held** for the wrap or
for the bar line of the grid.

The **live signal** goes from Surge to the speakers and to the loop inputs through up to two
inserts, each a process that wires itself in; scripts wire it directly when an insert has gone.
All of them edit one JACK graph, one connection at a time. The **touch browser** saves and
loads songs through a worker thread and the engine, and tells the **governor** of a patch load
through a file; the governor asks the **remapper** through another file to release notes. For the effects the browser writes what
it wants into the route file, the remapper, which the mod knob passes through, applies it and writes what the knob did
into the levels file; each looks at the other's file some ten to twenty times a second.

### What is hard here

- A report, a wrap or a landing may come between any two presses, and a report may be
  applied after the binding it was about has moved.
- A decision made at the press (is a save needed, is the track sounding) is used at the
  bar line, seconds later.
- A save is a datagram and a deadline; its only answer is a file that grows, and both kinds of save take the first
  bytes of it for the whole.
- The power may go between flush, rename and directory flush.
- State and length of a loop are reported apart and in either order, and the length reported may
  still be that of the take before; the grid is set from both.
- The engine restarts empty and unquantized, while the bench still has its grid.
- Stop All and Clear All have to reach every piece of queued intent.
- A note-off must reach the channel its note was given, after any steal, panic or change of
  binding; and Surge keeps bend, pressure and timbre per channel for ever, so what the translator
  believes of a channel must not go stale.
- The graph changes between the reading of it and the connection made from that reading; an insert may
  die at any call, and the direct path must come back, once.
- An echo of a level the bench sent and a level a song load wrote look the same.
- A belief is kept of a level or a limit that is only sent when it moves, to a process that restarts
  with its own.
- A capture whose end is lost must be given up, one that goes on must not.
- Saving over a song removes recordings before the new ones are there; a list, a dialog and the load are
  moments apart.
- The move of the favourites is cut off between a file, git's index, the commit, the stores and the index,
  and so is its undo.
- Knob and screen move the same depth and the same mod wheel from two processes, across patch loads.
- A parked press or a held launch has to end although no report may ever come.

`PROJECT.json` lists these hazards with the line where each bites and the property that
covers it, or why none does yet.

### What makes each component correct

- Clip matrix: no take is lost or stored under another slot; what sounds is what the
  surface shows as active; queued intent is one thing, ends, and never survives Stop All.
- Save ledger: a pad that reads saved survives a power cut with its own take; a failed
  or abandoned save costs nothing.
- Gesture and ring-out: the closing toggle is sent once; an intent that the engine ignores
  is given up.
- Grid: one take defines it, with its own length; a take that is cancelled or too short does not
  stop a later one from defining it; it is released exactly when no loop holds audio; bench and
  engine count the same bar from the same downbeat.
- LEDs: after any sequence of layer changes and reconnects the panel shows the top
  layer's value.
- Classic MIDI: every note-on that reached the synthesiser gets its note-off on the
  same channel; a note starts with the zone's bend, pressure and controllers.
- Governor: the limit the synthesiser has follows the load, and the voices above a lowered limit are released.
- Signal path: every channel reaches the speakers and the loops once, in the end, whatever died.
- Levels: the engine ends at the level of the fader, and only levels written by somebody else are adopted.
- Live monitor: it plays at the level of the take opened last.
- Effects: the faders end at what sounds; a patch comes back as it last sounded, with nothing of another patch's; the
  knob never makes a value jump.
- Songs: a manifest on disk names recordings that can be loaded after any failure or power cut; a song has every loop that
  had audio; a load takes away only what the player agreed to.
- Favourites: a cut-off move can be undone and the undo puts everything back; after a move every favourite reads
  the settings it read before; nothing saved since is lost.

## 2. The modules

| Module | What it is |
|---|---|
| `SlotMatrix` | the planner as operators on (row of slots, active slot, pending action) |
| `SlotRuntime` | the state machine of columns, saves, engine loops and reports |
| `FlushLedger` | one track's saves, its files and the device, with power cuts |
| `ClipStore` | the abstract promise about clip files |
| `TrackGrid` | one pad per loop, the engine's loops, and the grid the loops share |
| `ClassicToMpe` | a classic keyboard, its translator and port, and Surge's channels |
| `LivePath` | the JACK graph, the two inserts that wire themselves, the scripts that repair |
| `SongFiles` | the song pane, its worker, the songs' directory and its files, with power cuts |
| `LoopLevels` | levels of loops between faders, sender, engine and song loads |
| `MonitorLevel` | the level of the live signal between reports, questions and the gain stage |
| `VoiceLimit` | governor, patch load and remapper around Surge's voice limit |
| `FavoritesMove` | the move of the favourites and its undo, step by step |
| `ModKnob` | the effects policy of the browser, the remapper's router, their two files, effects host and Surge |
| `MCSlotRuntime`, `MCFlushLedger`, `MCTrackGrid`, `MCClassicToMpe`, `MCLivePath`, `MCSongFiles`, `MCFavoritesMove` | initial states, symmetry and view definitions for TLC |
| `SlotRuntime_proofs`, `FlushLedger_proofs`, `TrackGrid_proofs`, `ClassicToMpe_proofs`, `LivePath_proofs`, `SongFiles_proofs`, `LoopLevels_proofs`, `ModKnob_proofs` | the theorems; `LivePath_proofs` also has those of `MonitorLevel`, `ClassicToMpe_proofs` those of `VoiceLimit`, `LoopLevels_proofs` those of `FavoritesMove`, whose names are kept apart for it |

Definitions whose comment begins "Mutant of" are wrong variants of the definition that
follows them. No action uses one; they are kept to show that each property can fail:
with the variant in place of the definition, TLC reports that property violated.

### SlotMatrix and SlotRuntime

`cells[t][s]` joins the cell's `Slot` (empty, clean, dirty), the ledger's job for it and
its clip file. `col[t]` joins the track's binding and pending action with the three
dictionaries of `SlotRuntime` (`_deferred`, `_grid_wait`, `_awaiting`) and the one bit of
gesture state that matters here: an idle loop is expected but not yet reported. `eng[t]` is
SooperLooper's loop: its state and what audio is in the buffer. `known[t]` and
`lenSeen[t]` are the last reports. `takes`, `own` and `asked` are history, read by
properties only (`takes` also numbers the takes).

| Action | Code |
|---|---|
| `Press`, `CarryOut`, `Perform` | `note_down`/`note_up`/`press` on the surface, `press` and `_execute_slot_ops` in the runtime, to the last command sent |
| `HoldClear` | the long press: the gesture clears or cancels, the runtime forgets the slot |
| `ScenePress`, `SceneStep` | `scene_press`: all plans from one view, then one dispatch per track |
| `StopAll`, `ClearAll` | the transport buttons: `stop_all_loops` and `on_stop_all`; `reset_all_loops` and `reset` |
| `Resume`, `PollGridWait`, `PollPending` | the idle polls of the surface |
| `ReportState`, `ReportLength`, `Wrap` | the OSC handlers |
| `TakeStarts`, `TakeCloses`, `SaveLands`, `NeighbourMoves` | the engine |
| `RingEnds` | the end of the ring-out (`_end_tail`) |

Abstractions. Audio is a take number and whether its ring-out is complete. Clocks are left
out: at any poll a deadline, the five-second grace or a bar line may have passed. So a save
may be reported failed at the very poll after it began. A tap on the active lane sends one of
the commands the gesture's plan allows in the state the bench knows; the gesture's other
state is in `TrackGrid`. A `record` sent to an armed loop cancels the take or is ignored: the repository
holds both readings (section 5), so both may happen. Handlers are atomic except a scene press. Bank scrolling and lights
are left out.

`Hurry` says what the player does not wait for: `report` (the reports of what they did
before), `queue` (a launch already queued on the track), `take` (a take or ring-out under way
before pressing another slot, or armed while holding its pad), `bounce` (taps the gesture drops as too fast). With `Hurry` empty
the player lets a column settle first, and the strong properties hold; with any one of the
first three a different documented promise breaks (section 5).

### FlushLedger and ClipStore

`FlushLedger` takes one poll apart (`PollFinds`, `PollReplaces`, `PollCommits`) because the
engine and the power do not wait for it. A file is identified by the save request that
created it and carries its size and how much of it is on the device; `tmp` and `clip` are the
two names of a cell; `durable[c]` is the set of files a power cut may leave under the clip's
name, made a single one by the directory flush. Requests are a queue whose members can be
lost or taken up late; the engine ignores one whose file exists already.
`ClearCell` and `MarkRecorded` drop a save in flight; `Reset` (Clear All) forgets the ledger but
not the files. The buffer is given to other audio only when its take is saved or cleared: that
is what `SlotRuntime` establishes for a patient player (`UnsavedIsBuffered`, section 4), and the module says so.
`poll` takes a file of 512 bytes for the save; the constant `Early` says whether it may so meet a file the engine is still
writing. In the code it may (section 5), and the run has it TRUE; FALSE is for the theorems, which hold for both.

`ClipStore` says it without files: `survives[c]` is what a power cut may leave, each time a take that is whole or cut
short, or nothing. What a save keeps (`Kept`) is its own take, whole if polls are not early, and possibly cut short if
they are; never another's. `Save` may make other cells surer too, because the directory is shared.
`FlushLedger` implements it under `survives[c] = {contents of file i : i in durable[c]}`, where a file's contents are whole
only if all of it was flushed (`Contents`).

### TrackGrid

The bench without the clip matrix: one pad per loop. `eng[l]` is SooperLooper's loop (state, length of its audio,
whether a queued close leads to a ring-out); `told` is what the engine was last told of the grid: whether
its loops wait for the bar (`quantize`), the bar's length, and whether the bench's downbeat is the one of the
last tempo it was sent. On the bench, `heard[l]` is `sl_state` and `loop_len`; `intent[l]` the unconfirmed
intent (`_pending`); `stopDue[l]` `_stop_queued`; `tail[l]` whether a ring-out is watched; `grid` the fields of
`GridState` that decide (established, cycle, who is to define it, which loops hold audio).

| Action | Code |
|---|---|
| `OnPadDown`, `OnPadUp` with `PlanDown`, `PlanUp` | `on_pad_down`, `on_pad_up` and the plans of `loop_model.py` |
| `PollHold` | the long press: cancel an armed or running take, clear a clip |
| `SyncFromSl`, `SyncLoopLen` | the report handlers, with `establish`, `note_loop_content` and the calls of `sl_grid_sync.py` |
| `PollTail` | the end of the ring-out |
| `StopAllLoops`, `SettleStopAll` | Stop All, and its check a second later |
| `ResetAllLoops` | Clear All |
| `OnLooperEngineStarted` | `on_looper_engine_started`: the grid is sent again |
| `Boundary`, `EngineRestarts` | the engine |

`Arm`, `Cancel`, `Establish` and `NoteLoopContent` are the methods of `GridState`;
`ApplyEstablishedGrid` and `DropGrid` what `sl_grid_sync.py` sends. `Hit` is how the engine takes a command.

Assumptions. A pad is debounced for 200 ms and a report takes at most 100, so a pad's next gesture after one
that moved the engine finds the report of it (`owed`, `MayAct`); whatever else moves the loop (a bar line, the end
of a ring-out, another pad) may be unreported. The chords of Stop All and Clear All, and a player whose engine has
just restarted, take longer than a report too. An intent may run out of time at any press that
finds the reports current. Since a pad's edges may be ignored (debounce, waiting for the bar), whether it is
down is not kept. `ArmedRecordCancels` chooses between the two readings of `record` on an armed loop; the run
uses the measured one (ignored), the proofs hold for both, and both were checked. Audio is only a length: the
position in it, the phase mark and its re-anchoring are left out.

### ClassicToMpe

The state is in three parts. The **translator**: `voices` is `_active` in the order the notes
started, `free` the channels not in use in the order `_free_channel` takes them (so it stands for
`_released` too), `zone` what the keyboard last said for all its notes, `known[c]` what channel `c` was last
sent (`_chan_bend`, `_chan_pressure`, `_chan_cc`), `left` history: the timbre the last panic left on each channel. The **port**: `bus` (plugged in), `bound` (no binding,
or one of kind classic or MPE), `fingers` (the keys held). **Surge**: `chan[c]` is what a channel
holds, `keys` the notes that are down, `pedal` the master channel's hold, `ringing` whether a note
released under it still sounds.

| Action | Code |
|---|---|
| `NoteOn`, `NoteOnSteals`, `NoteOnDropped` | `_note_on`: a free channel, a stolen one, or none |
| `NoteOff` | `_release` |
| `PitchBend`, `ChannelPressure`, `Timbre`, `PolyAftertouch`, `DeclareRange`, `Sustain` | the other branches of `translate` and `_control_change` |
| `Panic` | `all_notes_off` on the panic controllers |
| `Promote`, `PassThrough` | `SourceBinding._promote` and the MPE path of `apply` |
| `Reopen`, `Close` | `_maybe_reconnect_inputs` with `_close_inputs`, `_open_inputs` and `zone_reset` |
| `Shed` | a note the poly governor has the remapper release |
| `PlugIn`, `Unplug` | the cable |

Abstractions. The wheel is an offset from the centre, scaled and rounded as `scale_bend` does. One of
the three timbre controllers stands for all. A range is declared in one step. Promotion may
come at any message, whether or not two channels were bent (`BehaviouralMpeDetector` decides that);
the notes of a promoted keyboard are its own and are not followed. There is one keyboard; quantising is off
and a message is handled when it arrives; a cable stays out for at least one reconnect poll. Those three
are planned (section 7).

### LivePath

`edges` is the JACK graph, a connection being an output, an input and a channel; `up` the clients with ports on
it. Of each insert `life` says whether it runs, is on its way out or was stopped, `wanted` whether the operator
wants it, `todo` the calls its wiring pass has still to make. The monitor has a belief of its own, `detached`,
and writes `file`, which the restore script reads. `script` is what each script read and has left to do; `due` are
starts that wiring has still to follow. `missed` is history: a restore script gave up on a connection, or the check of the
record path failed to list a graph in which Surge reaches no loop.

| Action | Code |
|---|---|
| `Pass`, `FxPass`, `MonPass`, `Decide`, `MonDetach`, `MonRestore` | a pass of the wiring threads: `wiring_pass` and `take_trunk` of the effects host, `ensure_wiring` of the monitor |
| `Leave`, `FxLeave`, `FxGiveBack`, `MonLeave`, `Exit` | what an insert does after SIGTERM, and its ports going away |
| `Operate` | the next call of a pass or a script, against the graph as it is then |
| `BeginScript`, `RunScript` | `audio_routing.py` under `restore-direct-monitor-path.sh`, the watchdog and the start of Surge or the looper: a plan from one listing, then its connections |
| `PassOver` with `NothingToDo` | the check after a start of Surge finds the loops fed, no looper, or, its listing failed, nothing: done without a plan |
| `Start`, `Crash`, `SwitchOff`, `SwitchOn`, `Die`, `Return` | systemd, the operator, and clients that die |

Abstractions. Calls that do the same on each channel are one step, each of which may fail; one loop input stands
for all; jackd stays up (when it goes everything is restarted with it); the watchdog's sensors read at once.
Surge's own connections at its start are made with it. Stems and the repair of the common output are left out. The
bound on failing calls is below the tries of the record-path script.

### SongFiles

The songs' directory is a journal: `dir` is what it is, `past` what a power cut may leave of it. `file[i]` is the
take in a file, how much of it is there (no more than a header, too little, enough, all) and how much is on the device; `writing` is the
file the engine is at. `job` is the worker thread, step by step; `result`, `busy`
and `ui` are the screen, whose dialogs hold what they were opened about. History are `touched` (songs whose last
save over them did not succeed), `short` of the job (loops it left out because little of their file was there) and `early` of a
file (it was flushed before all of it was there).

| Action | Code |
|---|---|
| `TapMenu`, `TapNew`, `TapOverwrite`, `TapLoad`, `TapBack`, `EnterName`, `Confirm`, `PollResults` | `touch_browser_looper_songs.py`: taps, dialogs, the queue of results |
| `Check`, `BeginSave`, `SaveLoop`, `LoopSaved`, `LoopNotSaved`, `WriteManifest`, `SyncDir`, `Prune`, `BeginLoad`, `ClearAllLoops`, `LoadLoops`, `Finish` | the worker: `session_has_content`, `save_song`, `load_song`, `clear_all_loops` |
| `EngineSaves`, `EngineWrites`, `Record`, `Clear`, `PowerCut` | the engine, the player on the pads, the power |

The save looks at a file at any time: more than the header counts as saved (`Landed`); what then is too small to be loaded is thrown
away and the save goes on without the loop (`LoopSaved`); anything else is flushed as far as it is there. After a power cut a file has
at least what was flushed of it.

Abstractions. The engine writes one recording after another, each of the audio its loop held when it opened the file; a full card
and a flush that fails are left out; songs use slot 0 only, as the code does; the fallback to version 1 names and the restoring of the grid are left out; the check for
content reads the loops at once. `Trouble` names what the run leaves out because the property does not survive it
in the code: unanswered questions, requests carried out after they were given up, a player who plays on while a
song is saved or loaded (section 5).

### LoopLevels

`user`, `master`, `offset` and `anchor` are the store and the pickup of the faders; `target`, `current`, `sent` and
`since` the sender (`_target_wet`, `_current_wet`, `_emitted`, the interval); `noted` whether what went on the wire
is in `sent` already. `wet` is the engine's level and who wrote it, `reported` and `flight` its reports.

| Action | Code |
|---|---|
| `MoveMaster`, `MoveFader`, `SetView` | `messages_for` and `set_view`, through relative pickup |
| `Tick`, `Note` | `CoalescingSender.tick` and the bookkeeping after the send |
| `LoadSong`, `ReportLevel` | a song load in another process; the engine |
| `TakeReport` | `seed_from_engine`: echo, or adopted |

Abstractions. A level is the product of two integer positions; the taper bends it and keeps its ends and its order.
The automatic gain law is off unless configured, and left out. A tick without time passed is left out. A report
comes back before `History` further levels were sent (`EchoesInTime`). The system may stop: deadlock is not checked.

### MonitorLevel

`open` are the engine's captures in order; `known` is `_capturing`, `asked` the questions put since a loop was
heard of, `level` the mix; each `thread` holds a level it computed and has still to send; `last` is the level
thought to be in force, `error` what the socket holds back, `stage` the gain stage. The other variables are history.

| Action | Code |
|---|---|
| `OpenTake`, `CloseTake`, `Answer`, `EngineDies`, `EngineReturns` | SooperLooper, and reports that may be lost |
| `TakeReport`, `Compute` | `note_state` and `push_monitor` on the report's thread |
| `Ask`, `Poll`, `MoveFader` | `poll_monitor_capture` and `handle_cc` on the main loop |
| `Send` | `LiveMonitorSender.send` |
| `StageDies`, `StageStarts` | `mpe-live-monitor` |

What is removed from a list leaves the rest in its order (`Without`). Reports are taken up in the order they were sent; an answer comes in time or never. Lost are reports of an end,
questions and answers.

### VoiceLimit

`limit` and `sounding` are Surge's; `loading` a patch load that has sent its limit and not yet written the state
file `state`; `gov` what the governor believes (`_effective_poly`, `_pre_engaged_bootstrapped`); `sending` a limit
decided on and not yet sent. `request` is the shed request in its file, `pending` the one the remapper holds;
`ledger`, `sustained` and `pedals` the note ledger. `adrift` and `excused` are history, what the properties leave out: a belief of
the governor set apart by a patch load, one whose own limit was not sent among them, or by its restart, and voices too many that no request covers or that came of such a belief.

| Action | Code |
|---|---|
| `Tick` with `Overrun`, `Engage`, `Recover`, `StepDown` | `_tick_v2_always_on`, `_xrun_emergency`, `_maybe_bootstrap_pre_engaged`, `_apply_v2_step` |
| `SendLimit` | the send of `_apply_limit`, which may fail |
| `GovernorRestarts` | a fresh governor that reads the state file again |
| `LoadPatch`, `TellGovernor` | `_apply_playback_policy`: the limit, sent or not, then the file in either case |
| `ShedPass` | `_process_shed_request` and `plan_shed` |
| `Strike`, `LetGo`, `PressPedal`, `LiftPedal` | `observe_message`, and Surge |

Abstractions. Clocks are left out: the step interval and the recovery hold may have passed at any tick, and a note
is young until `Age`. The curve between rest and floor is any value between them. Notes are interchangeable and
come on one channel with the pedal of the master channel. Left out: the other modes of the governor, the load
tracker and its baseline, shedding switched off, a restart of Surge.

### FavoritesMove

`files` has the bytes of every patch, `saved` the settings store, the index and the remembered last patch; `git` HEAD, what is
staged, and the bytes in the history; `run` the manifest of the last run; `job` the command under way: its next step, what it has
still to put into files, the labels it has still to write and what it writes there, gone when it was cut off or ended.
`undo`, `before` and `edited` are history.

| Definition | Code |
|---|---|
| `Found`, `OldKey`, `Klass`, `Target`, `FileRows`, `IndexRows`, `Errors` | `build_plan`, classification |
| `Rekey`, `Merged`, `Rekeyed`, `NewIndex`, `NewLast` | `build_plan`, the settings row by row and the index |
| `Run` with `Command`, `Move`, `Op` | `apply_plan`: refusals, the manifest, and what is then to be done |
| `Undo` with `Command`, `Back` | `undo` after its refusals |
| `FilesChanged`, `SettingsChanged` | `_undo_refusals` |
| `ChangeFile`, `StageFile`, `CommitStaged`, `SayWriting`, `Write`, `SayWrote`, `RestoreLast`, `SayState` | one step of a command each |
| `CutOff` | the power, or a kill |
| `SaveFile`, `Choose`, `Heart`, `Play` | the player between commands |

The settings of a plan are computed by a recursive function over the sets of rows, `Rekeyed`, which takes the last row off; so the proofs
can speak of it.

Abstractions. The four stores are one, whose entries have two fields: what the player chose and what was captured
from the sound. Folders, dates, orders and imports are left out; the stock roots are one. git changes a file first and
its index after it; its lock file after a power cut is not modelled. The commands refuse while the browser runs,
so the player acts only between commands; the browser started in the middle of one is left out. A library begins with
all its files committed. Two cases, both in section 5, are modelled but not spoken of by a property: what follows a run begun on a
half-undone library (`before.half`, in `UndoneIsAsBefore`), and a run that moves away a file another favourite
comes to point at (`Spares`, in `FavoritesStay`).

### ModKnob

`ui` is `FxPolicy` with the browser around it: the setup in force, `req` and `asked` the depth asked for and when,
`wheel`, `wreq` and `set` likewise for the Patch mod fader, `own` the loaded patch's entry and `due` whether it waits to be saved, `held`
a fader under the finger, `todo` what a touch has still to publish and send. `store` has the saved entries. `route` and
`levels` are the two files, each with `unread`. `router` is `Cc1Router`: `ref` the value of Surge's wheel it scales from, `anchor`
where the knob was last seen, `said` and `dirty` what it has to publish. `host` and `wheel` are what the effects host and Surge have.
A request's stamp is the time it was made, which tells requests apart as the code's counter does. The `patch` in
`route`, `router` and `said` is history for `KnobStaysWithPatch`.

| Action | Code |
|---|---|
| `LoadPatch`, `Loaded`, `Publish`, `Resend`, `Send` | `load_patch` in its steps: Surge loads, `on_patch_loaded`, `publish`, `_resend_patch_mod` |
| `FlipTarget`, `SetGlobalDefault`, `ToggleEffect` | the switch on the play screen, Settings, the effect picker |
| `SetDepth`, `SetPatchMod`, `Release` | the two faders dragged, reset and let go, a publication held back or not |
| `PollLevels` with `FollowDepth`, `FollowPatchMod` | `poll_levels`, the save that is due first |
| `Knob` with `KnobToSurge`, `KnobToEffects` | `consume` |
| `Refresh` with `RouteRead` | `refresh`: `_read_route`, the send to the host, `_flush_levels` |
| `Restart` | a fresh router and its first refresh |

Abstractions. Depths and wheel values are steps of the knob, fractions cut off. The mask stands for what goes its way unchanged (the
levels of single effects, the bass crossover), without their own sliders. Delays and throttles may have passed or not. The
screen has one finger. `Trouble` names four cases the run leaves out, because the code does not hold there what the
properties say (section 5). Left out: effects switched off, a patch whose file cannot be read, an effects host that refuses or restarts,
and a restart of the browser.

## 3. The runs

Every run passes. Sizes are distinct states.

| Run | Instance | What it shows |
|---|---|---|
| `SlotsHurried` | 1 track, 2 slots, 1 take, neighbours, every hurry, `FairSpec` | a parked press has its save; nothing restarts after Stop All; a parked press and a held launch always end (209,230) |
| `SlotsPatient` | 2 tracks, 3 slots, 2 takes, no hurry | an unsaved take is in the buffer and bound; a saved clip is the slot's whole last take; what sounds is the active slot (169,908) |
| `FlushPowerCut` | 2 cells, 3 takes, 3 saves, early polls | no stub survives a power cut; `FlushLedger` implements `ClipStore` (50,998) |
| `GridDefined` | 2 loops, lengths 1 and 2 of which 1 is too short to define, 1 engine restart | the grid is the length of the take that defines it and not of an earlier one; a pending definer has a take; a take that has landed no longer waits; the grid goes only with the last audio; the engine is told the bench's grid (1,932,251) |
| `KeyboardPlays` | 2 member channels, 3 notes, two values of each kind, stealing and not | no note hangs; a note starts from the zone, and where that has no timbre from what a panic left (446,816) |
| `LivePathHeals` | 2 channels, both inserts, the meter, 1 fault, 1 failing call | the instrument is in the end heard once on each channel, and recorded once unless a restore gave up on a connection or the record check could not list the graph (286,902) |
| `SongsSurvive` | 2 songs, 2 loops, 2 takes, 2 files, 1 power cut | a song left on the card has its recordings, whole or flushed too early; a finished save lacks only loops whose files were short; a load takes nothing else unsaved unasked (2,667,368) |
| `LevelsSettle` | 2 loops, 1 fader, 3 moves, 1 song | no echo of the bench's own levels is adopted; levels arrive (1,118,906) |
| `MonitorFollows` | 2 loops, 1 handler beside the main loop, 2 attempts, 2 takes, 1 move, 2 faults | a running take is not forgotten on a guess; the monitor ends on the level of the take played into (530,126) |
| `VoicesShed` | 2 keys, limits 1 to 3, 2 notes, 2 overruns, 1 fault | voices over a lowered limit are released; a limit follows the load again, unless the governor stays misinformed (184,725) |
| `FavoritesMoved` | 2 names in 4 places, one of a tuned patch, 2 runs, 2 cuts, 1 thing the player does between | a run cut off anywhere can be undone; undone means as before; no favourite is lost; undo does not overwrite newer saves (3,691,480) |
| `KnobSettles` | 2 patches, one of which routes the wheel, 1 effect, travel 0 to 2, 5 moves | screen, remapper, host and Surge come to agree; a patch keeps the setup it sounded with, and no other patch's; the knob never makes a value jump (1,215,330) |

Properties that are proved for every instance and rest on nothing a run could add are not
run again: section 4 names them. So it is with the type invariants of `SlotRuntime`, `FlushLedger`, `ClassicToMpe`, `TrackGrid`,
`LivePath` and `SongFiles`.

**Bounds.** The planner distinguishes at most three slots of a column: the pressed one, the
active one, and the one queued. Two suffice for the bookkeeping properties because each
relates one slot to its column; the properties about audio use three. Tracks share only the
test "is anything sounding" and the scene row, so two tracks, or one and `Neighbours`, give
every interaction. In `SlotsPatient` two takes (`MaxTakes`) let an old one be mistaken for a new one, and the
invariants never relate three; the safety properties of `SlotsHurried`, where one take is enough for every press to
park and to be held, are proved for any number. In `FlushPowerCut` three saves let a cell be saved, saved
again with an earlier request still on its way, while the other cell shares the buffer and the
directory. In `GridDefined` two loops let one define while another records, empties, or is sounding; the properties
relate the grid to one loop or ask whether any loop is left, and the third loop is left to the proofs. Two lengths
tell a stale length from the new one and a refused take from a defining one. One restart can fall before, during and
after the defining take; a second meets the states the first one leaves. `DefinerLives` is about
behaviours without a restart, because a restart during the defining take leaves the bench waiting for it
(section 5). In `KeyboardPlays` three notes on two channels fill them, steal, retrigger, and steal again what
was stolen; two values tell *written* from *left over*, and the range 0 (which a keyboard may declare)
makes a bend of the wheel that bends nothing. The policy "newest" and more channels are left to the
proofs.

In `LivePathHeals` two channels let one be wired and the other not, which is where the code's tests for
"wired" differ; one fault (a crash, a switch of an insert, a client that dies) is met by two inserts and four scripts in
any order, and every settled graph is an initial state, so a second fault meets what the first one left. One
call may fail unless both inserts run (`MCInit`), where the graph with a failure is too large to check for liveness.
In `SongsSurvive` two takes tell an old recording from the new one, two loops a half-written song from a
whole one, two songs the one shown from the one saved. Two files are one save of two loops, or one loop saved, and saved over while the old recording is
still named by what a power cut may leave; each may be of any of four sizes at each look. More files, which a second save of two
loops needs, are left to the theorems: with three TLC does not come to an end in time.
In `LevelsSettle` one fader and two loops give a level that moves alone and one only the master moves; three moves
turn the ramp round; the level 3 of a song is none the bench can send. In `MonitorFollows` two takes let a later one
end before the earlier, two faults let the engine or the stage die while another report is lost. In `VoicesShed` three limits are
the floor, the rest and the ceiling; two keys and two notes exceed a limit by one and leave a note beside it; two overruns engage and
then lower further; a third voice, which a limit sent on a mistaken belief takes, is left to the theorem `ShedsAreAsked` (its invariant
was checked apart with three keys, in three million states). In `FavoritesMoved` the two patches are a copy and its original, or two of one name in
different folders, all that two rows can be to each other; libraries in which both patches are favourites of
different kinds get every bound, the others start with one run and one cut left; a re-save, whose copy goes as a pointer's does, is left to the theorems. In `KnobSettles` five moves are a
patch loaded, an effect ticked, the knob touched and turned, and another load, or any others; travel 0 to 2 has both ends and a middle,
where the pickup scales; a finger puts a fader on 1 or resets it; the patch without the wheel sends the knob to the
effects by itself.

A run never deadlocks at a bound where the player can always go on; `CHECK_DEADLOCK FALSE` stands where the system may
rest: a healed graph, settled levels, released voices, a finished move.

**Symmetry and view.** Slots, tracks, cells, songs and loops of `TrackGrid` are only compared for equality, never ordered,
so their permutations are symmetries; runs with liveness use none. `KeyboardPlays` leaves `ringing` out of the
fingerprint: no action's guard or other update reads it, and none of that run's properties does. Notes are symmetric, channels are not, because they are used in order. The view of `SongsSurvive`
leaves out files that no manifest names nor the save under way, and what a closed dialog remembers: neither is read again.

**Fairness.** `FairSpec` of `SlotRuntime` assumes only the bench's own main loop: it carries a scene press through
(weak fairness of `SceneStep`) and polls again and again whatever is pressed in between,
so a poll that repeatedly finds work does it (strong fairness of `Resume`, `PollGridWait` and
`PollPending`; strong because another handler may disable the poll for a moment and the poll
comes round every few milliseconds). As clocks are left out, `PollPending` also stands for the
expiry of the grace and `PollGridWait` for the passing of the bar line; `Resume` for the expiry of
the save deadline. Nothing is assumed of the player, the engine, the reports or the disk.

- `LivePath`: the wiring threads wake at least every two seconds, systemd restarts what died, the watchdog
  comes round, and a script that was started runs to its end. Weak fairness, for each stays enabled until it is done.
- `LoopLevels`: the bench's main loop goes round, and the engine reports levels it was asked to report, which are taken up.
- `MonitorLevel`: the main loop goes round; a question due is put in the end (strong: the poll comes every two milliseconds, and a
  report may make the question needless for a moment); a question that is not lost is answered; handlers end; systemd
  starts the stage again. Nothing is assumed of reports of an end.
- `ModKnob`: the browser works off a touch and polls the levels file, and the remapper's loop goes round. Nothing is
  assumed of the player or of restarts.
- `VoiceLimit`: the governor ticks and its sends come to an end, the patch browser finishes a load, notes age, and the
  remapper polls for requests. Nothing is assumed of the load or the player.

## 4. What is proved

All theorems hold for any number of tracks, slots, cells, takes and saves, and for every
value of `Neighbours`; those of `SlotRuntime_proofs` for every value of `Hurry`, but for the four that say
`Hurry = {}`, the hypothesis of the run `SlotsPatient`. The assumptions used are the named ones of the modules:
`None` is not a slot, the bounds are naturals, `Neighbours` and `Early` are Boolean, `Hurry` is a set of the
four haste kinds. For `TrackGrid`: lengths are positive naturals,
`MinDefining` a natural, `ArmedRecordCancels` Boolean, `"none"` is not a loop. For `ClassicToMpe`: the member channels are a non-empty list of different naturals; the
values at rest are among the values; the wheel is an integer and a range a natural; `Unknown` is no value. For `LoopLevels`: loops are
natural numbers, 0 among them, and the faders are loops; the top of the travel and the levels remembered are positive.
For `ModKnob`: patches and effects are finite sets, the routed patches are patches, the top of the travel is positive, and `None` is
no patch, no number, no kind of target and no setup. For `FavoritesMove`: the names are finitely many naturals, no name is both
a tuned one and a re-save, the bounds are naturals, and `Nil` is no patch, byte, entry, store, index or label. For `LivePath`: the channels are a finite, non-empty set of naturals, the inserts
enabled are among the inserts, the bounds are naturals.

- `SlotRuntime_proofs`: `Typing`, `ParkedHasItsSave` and `StopAllIsFinal` (the last two properties of `SlotsHurried`), and three
  more: `JobsFollowTheirTakes` (saves in flight are about unsaved takes), `SavedMeansThere` (a saved slot has a
  file) and `QueueAgrees` (the records of a queued launch agree). The inductive invariant `IInv` is the conjunction of the five invariants with two kinds
  of additions: the plans a scene press still has to carry out are ones the planner can have
  made, and after Stop All, until the player asks for something on a track, that track has no
  queued launch, no awaited bar line, no parked press and no plan of a scene press, so that no step left can start its loop. None of
  the five is inductive alone: that a queued clip exists needs the save to have landed
  for a real take, and that a parked press has its save needs that clearing a cell abandons
  the column's press.
  The proof goes by lemmas about the operators (`EnsureFlushed`, `Polls`, `LandPending`,
  `CarryOut`, ...), each stating what it preserves for one column, and a lemma that
  lifts a step of one column to all of them.
  With a patient player (`Hurry = {}`) come the three properties of `SlotsPatient`: `UnsavedIsBuffered`, `SavedIsTheTake` and
  `HeardShown`. They rest on a second inductive invariant over the first, `PInv` (`PatientInvariance`), again stated of the values of
  one column (`Fits`). The buffer is the active slot's take but while a launch that was sent is unconfirmed (`BoundFits`,
  `UnboundFits`); only the active slot is unsaved, and a file or a save on its way is the whole of its slot's take (`SavesFit`); what
  is queued is saved and nothing unsaved stands behind it (`QueueFits`); a parked press waits on a take that is whole and heard
  of (`ParkedFits`). The heart is what the bench may be behind by: a take still unwritten although it sounds is the first of an empty
  column, or was heard recording (`BoundFits`), and an idle loop is expected only while the engine's word is outstanding
  (`ReportsFit`). A scene press adds that each of its plans can still be carried out when its turn comes, whatever was reported,
  landed or saved meanwhile (`SceneFits`).
- `FlushLedger_proofs`: `Typing`, `ClipsAreNeverStubs`, and `SavesCostNoClip` (a save never removes a clip). Here `IInv` adds: a poll past
  its first step still has its file under the temporary name, flushed beyond a stub
  (`PollHasItsFile`); what may survive as a clip was flushed that far (`KeepsEnough`: all of it, unless polls may be early); a
  temporary file is one pad's and no clip (`PartsAreApart`); requests on their way are for files not yet created (`RequestsAreNew`);
  a named file belongs to an older request (`NamedAreOld`); the file being written is not yet full
  (`WritingIsUnfinished`). The first is what makes the rename safe; the others keep the engine
  from reopening, and so truncating, a file already named as a clip.
  `LedgerImplementsStore` is the refinement, step by step: each action of the ledger is one action of `ClipStore` or a stutter
  under the mapping of `FlushLedger`, for early polls and for others. It says of a saved clip that it is whole only where polls are not early; of
  the code, where they may be, that it is its own take or the beginning of it. For it the invariant has to follow one take from the buffer to the disk: a pad's clip that may
  survive a cut is of the take the player was told (`ClipMaySurvive`), every file of a save has that save's take (`TakesAreTheirs`,
  `SavesItsTake`), an unsaved take is still in the buffer (`UnsavedIsInBuffer`), and a poll under way is about a job that runs
  (`PollIsAJobs`). `SavedClipsSurvive`, the promise of the abstract store, then holds of the ledger itself.
  That what a clip's name stands for never changes (`ContentsStay`) is why the store may forget the files.
- `TrackGrid_proofs`: `Typing`, `LandedTakesDefine`, `EngineKeepsTheGrid`, `GridDropsWhenEmpty` (the grid goes with the
  last audio the bench heard of), `DefinersLive` and `GridsAreTakes`, for any number
  of loops, any lengths and any number of restarts. `IInv` adds to the type: a loop that sounds or could has audio
  (`AudioHasLength`); a loop that is armed or records is known to the bench or its report is owed (`TakesAreKnown`);
  no take is waited for while there is a grid (`GridOrDefiner`); and a loop still heard playing, whose next
  take is to define the grid, was pressed just now and its take is not closed (`RearmedIsOwed`). The last is the
  heart: the length on the bench is then that of the earlier take, and only because the report is owed can no handler
  take it for the new one. `LandedTakeDefines` follows from it. `EngineKnowsGrid` is inductive over `IInv`; for
  `DropsWhenEmpty`, `UncountedIsEmpty` is added: a loop the grid does not count is heard empty, or is empty and
  about to be. `DefinersLive` and `GridsAreTakes`, the other two properties of `GridDefined`, need a third layer,
  `DefinerKnown`, because nothing else bounds how stale the bench may be: what is known of every loop (`Known`: whatever has
  emptied a loop, or started one heard empty, owes a report; only with a grid is a loop armed over its audio; a loop expected to
  be empty does not ring out) and of the one the grid waits for (`Defines`: a length not its own is heard only while the take has
  none yet; a queued close is for a take not heard of yet; before a restart there is a take). Both are stated of the values of one
  loop, so each command is one lemma about values, and a lemma (`OthersKnown`) carries what is known of the other loops through a
  grid that comes or goes.
- `ClassicToMpe_proofs`: `Typing`, `NothingStuck` and `NotesFromTheZone` (the properties of
  `KeyboardPlays`), `ChannelsKept` (a channel is free once or carries one note), `BeliefsAreTrue` (what the translator
  believes of a channel is what was sent last) and `BendKeepsPitch`, about `scale_bend`
  alone. `IInv` adds to the invariants: every note that is down is a voice of the translator on that channel
  (`KeysAreVoices`), every voice is under a finger or its cable is out (`VoicesAreHeld`), and without a
  translator nothing is held and nothing believed (`OnlyWhenBound`). The first two are what turns "the
  translator releases its voices" into "no note is stuck"; the last keeps an MPE keyboard's own writes
  from falsifying a belief. `TimbresAreLeft` says that while the zone has no timbre
  each channel has the one the last panic left on it, or the rest value: where nothing is written, `NotesFromTheZone` needs it. The books of channels (`Books`) are kept by four lemmas on sequences: a voice
  released, added, stolen, and all of them panicked away.
  Of `VoiceLimit` come `LimitTyping` and `ShedsAreAsked`, the safety behind `SheddingSettles`, for any keys and limits: voices over
  the limit, or over the one about to be sent, are covered by the newest request still to be dealt with (`VoicesCovered`), or excused.
  Two facts carry it. Where the governor's belief is not known to be astray it is true (`BeliefHolds`), so a new request replaces one
  only with a lower limit. And a request that is done with either released as many as were too many, or all it asked for: the ones released
  are the oldest, so when they are fewer than asked none is left (`OldestReleased`, by the least age of what would be left).
- `LivePath_proofs`: `Typing`, for any channels and faults, where the inductive invariant adds the types of what each insert and
  script still has to do; in it, that a connection never outlives a client at its ends is what every step that drops one must
  keep. `PlanReachesAll` and `PlanNeverDoubles`, about the plan of `audio_routing.py` for any number of channels: carried
  out on the graph it was made from, it gives each destination it lists at least one path, and never a second one beside
  a path that was there. That the graph may have changed in between is why the run is needed.
  Of `MonitorLevel` come `MonitorTyping` and `CapturesKept` (`KnownCaptureKept` of `MonitorFollows`), for any loops, handler threads,
  lost messages and deaths. The invariant is `Accounted`: an open capture of the engine either has a report about its loop on its
  way, or the policy has asked about it no oftener than messages about it were lost, but for the question under way; and a dead
  engine has no captures. The last attempt then cannot be used up unless each was lost. That taking a loop out of a list neither
  reorders nor loses the others needs no induction, because `Without` says it by positions.
- `SongFiles_proofs`: `Typing`, and for any songs, loops, takes and power cuts `SongsReload`, `SavesAreWhole` and
  `LoadsTakeNothing` (the other three properties of `SongsSurvive`). The first holds where requests given up are dropped and nobody plays
  during a save or load (`Steady`); the other two need the engine to answer, too (`Answering`). They say of a recording that it is of
  the take meant and flushed, whole or as far as it was there when the save looked; and they except the loops a save left out for a
  short file, exactly those (`Due`). Loops are a finite
  set of numbers. A song keeps loading because: what a save has noted is recorded so (`NotedIsRecorded`); the
  request under way is for a recording that is not there yet, so that none is ever written anew (`RequestIsAwaited`);
  a directory names only files that were made (`FilesAreMade`); a song saved over is known torn before its recording
  goes (`SaveStands`); and one worker runs at a time (`WorkIsAlone`). `NotedIsAll` adds that every loop
  passed has been noted, `NothingToLose` that a load nobody was asked about found nothing, or what a song has.
- `LoopLevels_proofs`: `Typing`, and for any loops, levels and bound on the ramp `EchoesAreKnown` (`OnlyForeignIsAdopted` of
  `LevelsSettle`), where a send is noted before its echo can be read (`Orderly`: no "early" in `Trouble`). The echo of a level still
  on its way is of a level the bench remembers to have sent (`EchoIsKnown`), because a level of the engine that the bench wrote is
  the last one sent, or is about to be noted (`LevelIsSent`); what is remembered forgets by its age only (`AgesInTime`), and what
  was sent is a level the ramp passed (`SentIsRamped`).
  Of `FavoritesMove` come all five properties of `FavoritesMoved`, for any names, library, settings and index, and any number of runs, cuts and
  things the player does: `MoveTyping`, `UndoIsTaken`, `UndoneIsBack`, `FavoritesFollow`, `NothingIsLost`. The invariant, `MoveIInv`, first says what a command
  under way is about: the operations of a manifest change places of their own (`OpsFit`), what is still to be put into files is of one of them and is
  what the command wants there (`PutsFit`), and whatever is not awaited any more is there, staged and, past the commit, in HEAD
  (`PutsDone`). So a cut leaves each place with the bytes of the run's base or the ones the manifest gives (`FilesKept`), and each store with what was
  found, what was noted as written, or under the label being written (`LabelsFit`, `SettingsKnown`). That an undo puts everything back needs, too, that what the
  manifest does not name is as the run found it (`FoundBefore`), and that HEAD holds nothing at the place a tuned patch moves to (`Clean`). That
  nothing is lost needs that a run makes up no setting (`NoneMadeUp`) and that git has what the run's base has (`HistoryKept`).
  `FavoritesFit` says of the settings still to be written that every favourite reads there as it did. The plan gives it by `NewFollows`: of the rows
  that go to one patch at least one has its settings there in the end (`RekeyedHas`), for a later row lays its own over them and no row takes
  away what is under another's file or under a bare name (`RekeyedLeaves`). These lemmas, and that the recursion over rows has a solution at
  all (`RowByRow`), go by a smallest set of rows that fails, which the library's theorem on finite sets gives without an induction rule.
- `ModKnob_proofs`: `Typing`, whatever goes wrong; the law of relative pickup alone (`ScaledMoves`: it stays in the travel and goes the
  hand's way); and the other three safety properties of `KnobSettles`, each under the hypothesis on `Trouble` its
  proof needs, for any patches, effects and travel. `KnobsPatch` needs that the knob waits while a touch is being published: then the
  policy file's stamps are in order (`StampsInOrder`), what the router has read is of the patch it names (`RouteIsRead`,
  `RouteIsOfPatch`), and so is what it has to report (`KnobOfPatch`). `SetupKept` also rules out a hand on the fader while the knob turns and a
  restart before the news is out: what is shown of the own setup is what is kept (`OwnIsShown`), a depth not yet
  told is on its way by a named channel (`DepthPending`, `RouterSays`), and the browser's depth follows the
  host's (`DepthFollows`). `NoJump` needs no trouble at all: the same books are kept of the wheel (`WheelPending`,
  `WheelSending`, `WheelTold`), so that the value the next turn starts from is the one that sounds (`WheelIsRef`), and the law does the rest.

Assumed of constants besides: the loops and handler threads of `MonitorLevel` are finite sets, no handler is the main loop, there is at
least one attempt and the stage's first level is one; the limits of `VoiceLimit` are positive with Emergency <= Floor <= Ceiling, patches
load with limits between the last two, and "no limit" is neither a limit nor a request. The code's constants meet them.

Model-checked only: liveness (`SlotsHurried`, `LivePathHeals`, `LevelsSettle`, `MonitorFollows`, `VoicesShed`, `KnobSettles`), which is
beyond the prover. Every other invariant and action property of the runs is a theorem.

## 5. Where the code and its documentation differ

Seen while modelling; the models keep what the code does, and the runs leave out the named trouble.

Clip matrix and grid (`sl/` is `scripts/sooperlooper/`):

- `slot_runtime.py:722` says a buffer is never reused until its take is on disk. A switch pressed while a take is closing is held
  without a save (`slot_runtime.py:186-208`) and loads over the unsaved take when the bar comes.
- A launch stays queued when a take is armed on the same track (`slot_runtime.py:462`, against `slot_matrix.py:210`).
- A save begun in the ring-out counts as the take being on disk although it lacks the ring-out's end
  (`slot_runtime.py:761`, against `slot_matrix.py:63`).
- A late length report registers a take on the slot bound since (`slot_surface.py:443`, against `slot_runtime.py:427`).
- 512 bytes are taken for a complete file (`slot_flush.py:128`, against "only once a complete file exists", `:168`): a pad may read saved
  over the beginning of its take, the engine still writing. `Early` is this case; with FALSE saved clips are whole.
- Stop All drops the pending action of a launch already sent (`slot_runtime.py:250`), and nobody polls a save in flight
  after it until a press needs it.
- Holding an armed pad sends `record` (`sl/track_gesture.py:885`), which the engine as measured in
  `tests/engine/test_engine_claims.py:161` ignores: the take still starts at the bar although the pad shows idle and
  the matrix has forgotten its slot. The patient player of `SlotsPatient` therefore does not hold an armed pad.
- A tap that ends a ring-out and the ring-out's own end within one report send `overdub` twice
  (`sl/track_gesture.py:518`), and the loop overdubs on, unwatched.
- A second after Stop All the bench pauses again what is reported active, also what the player started in that
  second; and a take started in that second does not wait for the bar.
- A restart during the defining take leaves the bench waiting for that take; the takes of other loops do not
  define the grid, although the bench announces that the next take does.
- The grid is dropped when the last reported clip is cleared while another loop's take runs but is not yet
  reported (`sl/track_gesture.py:356`).
- `_stop_queued` survives Stop All and an engine restart, so a later take on that pad may be closed as soon as it runs.
- The docstring of `GridState.reset` is stale about clearing clips, which `note_loop_content` follows now.
- The light compositor sends differences to what it believes the panel shows, also after a device came back (`led_compositor.py:295`).

Keyboards:

- When a cable is pulled with the pedal down, the notes are released but the pedal never is, and they sound on
  (`midi_router.py:112`, against `:108`).
- Quantised notes may start after their note-off (`mpe-pressure-remap.py:317`); a message queued for a binding that is then closed plays through
  the old translator; `reset` of an MPE binding releases nothing; a service stopped by SIGTERM does not run
  `_close_inputs`; two keyboards share the member channels.
- After a panic the comment at `midi_translate.py:305-308` says that the next note on each channel "writes its state rather than inheriting
  what panic left behind". `_prime` writes bend and pressure, but only the controllers the zone has, and `_cc_zone.clear()` has just emptied it: a
  note inherits the timbre its channel had, until the keyboard sends one. `StartTimbre` says so.

Live path:

- `audio_routing.py:48-50` says the path is never doubled; a plan made from a listing that is stale when it is carried out doubles
  it until the next pass.
- The effects host leaves a gap when it goes although `mpe-fx-host.c:441-442` says it leaves none.
- After a start of Surge the record path is checked with a listing of its own. When that listing fails, `audio_routing.py:257` sees no looper, the
  check exits 2, and `audio-engine.sh:1234-1236` takes this for "no looper to reach: nothing to do" and marks the start done: Surge reaches no
  loop and the pads record silence until Surge or the looper starts again. `RecordPathHeals` excepts it (`missed`).
- The watchdog skips its repair when the looper is orphaned or stopped; the meter calls Surge wired when any channel is,
  `live_path_ok` when each is.

Songs and levels:

- A song saves slot 0 of each track only, against `Documents/specs/multi-clip-per-track-spec.md:384-386`.
- `_save_loop_blocking` takes a file of more than 64 bytes for the recording (`looper_songs.py:146`), though the engine may still be writing it:
  what is flushed before the manifest names it may be its beginning, against "the difference between a save that worked and one that lied" (`:401`), which a size of 512 bytes is to tell. Below 512 bytes the save throws
  the file away and goes on (`:672-674`): the song is reported saved without that loop, and a load after it, agreed to as "save them first",
  loses it. The properties say exactly this much (`early`, `short`).
- Saving over a song unlinks each old recording before the new one is there; after a failure the old manifest names torn recordings.
- `load_song` clears the loops before it finds a manifest unusable; a question about a loop that goes unanswered lets a save skip it
  (`Trouble` "silence" breaks `SavedIsAll`, "late" and "hands" the others). Errors of fsync are swallowed (`looper_songs.py:112`).
- Back out of a dialog takes two taps (`touch_browser_looper_songs.py:193`).
- "Fader bottom is always silence": the last step of a ramp is never sent when it falls into the interval
  (`loop_mix.py:467-486`), and the engine is left at 0.0038.
- An echo that comes before the send is noted is adopted (`loop_mix.py:500-505`, `Trouble` "early").
- The level a song wrote is adopted "rather than fought" (`looper_songs.py:827`), but the ramp of another loop
  emits the old target over it before that (`loop_mix.py:495`).
- Rearming a fader can raise `KeyError` between the test and the read (`fader_pickup.py:76-85`); an adopted level above the master is clamped.
- `live_monitor.py:7-9` promises the level after a restart of the stage, which starts at 1.0 (`mpe-live-monitor.c:107`) while `_last` keeps
  the sender from sending the same again; the first datagram after the stage's death looks delivered.
- A loop taken again keeps its old place in the order when the report of its end was lost.

Governor:

- A shed request written while the notes of the one before are too young is unlinked unread
  (against `mpe-pressure-remap.py:251` and `docs/POLY-GOVERNOR.md:6`); a pedal down when a request is taken up drops it for good.
- Voices Surge denied are counted as shed; the ledger ignores CC 120 and 123.
- A patch load beside a tick, or a restart of the governor, leaves its belief unlike Surge's limit until the next step. A limit it
  then means to raise may lower Surge's, and because it compares with what it believes (`surge_poly_governor.py:590`) no voice is asked to be
  shed; a request still unread may be replaced by a higher one. The flag that it was
  bootstrapped is set before a send that may fail; a restart of Surge goes unnoticed.
- A patch load ignores that its send failed (`patch_loader.py:314`; `send_polylimit` returns False on an OSC error, `surge_playback.py:210-217`) and
  writes the state file all the same. The governor then believes a limit Surge never got and may send none until its belief changes: under lasting
  load Surge's limit can stay above the floor. `LimitFollowsLoad` excepts it (`adrift`).
- A patch load sends the on-load limit, not the ceiling its docs name, and a lower one sheds nothing.

Effects and mod knob (`fx_policy.py`, each a member of `Trouble`; with any of them TLC finds `FadersSettle` and `KnobNeverJumps`
violated, with "held", "overtake" and "revert" also `SetupIsKept`, and with "overtake" `KnobStaysWithPatch`):

- "held": `poll_levels` notes the levels file as read also while a fader is held (`:1032`), so what the knob did to that fader
  meanwhile is never shown; and the last position of a drag, published on release, overrides a knob turned after it was asked for,
  against "whichever moved last" (`:633`).
- "overtake": between the time a request carries and its publication the knob may move. Its report, later than the
  request, is then taken for the new patch's (`:1050`) though it was made on the old one, and an OSC wheel sent after it wins although the
  knob is shown.
- "forget": should Surge lose its mod wheel at a load before the screen has read a knob move, nothing sends it again
  (`patch_loader.py:279`).
- "revert": a remapper that restarts applies the depth in the route file, and scales from the fader's last wheel value, whatever the knob did since the last
  publication; the comment at `:1058` sees only the publications after it. The patch's entry keeps the knob's depth.

Favourites:

- An undo cut off leaves the manifest at "done", so `favorites_migrate.py:222-246`, which refuses a new run on a half-moved library, lets one
  start on a half-undone one; a favourite may then dangle, and a second undo restores the wrong commit. `UndoneIsAsBefore`
  says nothing once that has happened (`before.half`).
- A tuned patch outside the favourites folder that has an identical copy in it becomes a pointer to a file the same run moves away. `FavoritesStay`
  says nothing of such a run (`Spares`).
- Two copies of one patch with different settings become one, and the settings of the later win.
- The verification reports a dropped hit for a user's patch filed under a stock key.
- The last patch caught in the middle of its write is not restored by the undo, which a comment near line 796 expects; the label of a
  write under way is passed over by the refusal (`:903`), so settings made after the cut are discarded without `--force`.
- That the browser does not run is checked once, at the start.

## 6. What is not modelled, and why

- Threads inside a handler of the clip matrix: its handlers are atomic here, so the unlocked sharing between OSC
  threads and the main loop is visible only between handlers. `MonitorLevel` and `LoopLevels` do take their handlers apart.
- The gesture's timings, the position in a loop and the phase mark, the detector of the ring-out
  (`tail_phase.py`) with its inbox, the MUTED variants of the states: `TrackGrid` leaves them out. Engine restarts
  in the clip matrix: planned.
- The engine's subscriptions and their renewal (`sl_osc_session.py`): a report here always comes in the end, or
  never, which no property but the liveness ones can tell apart.
- Device discovery and pressure shaping (`midi_device.py`): names and curves, without state to protect.
- File-system errors: a flush that fails is swallowed by the code and leaves no trace in its
  state; a rename that fails is retried until the save's deadline and then counts as failed.
- Several keyboards at once, quantised and queued messages, the CC1 effects route, naming and
  overrides of devices: `ClassicToMpe` follows one keyboard; planned. `ModKnob` takes the knob's messages where they enter the remapper.
- The panel's lights and the bench's transport buttons: they show state and hold little of their own; planned (section 7).
- Restoring a backup and re-keying the library (`library_ops`), the session record: files written whole by one
  process; the session record has no reader in the system that could be misled.
- The touch browser's screens, settings, Wi-Fi, deployment, calibration and measurement scripts: user interface and
  wrappers around external commands, the larger half of the repository's lines.
- Signal processing in `src/native`.

## 7. Plan

Done: `SlotMatrix`, `SlotRuntime`, `FlushLedger` with `ClipStore`, `ClassicToMpe`, `TrackGrid`, `LivePath`, `SongFiles`,
`LoopLevels`, `MonitorLevel`, `VoiceLimit`, `FavoritesMove`, `ModKnob`. What is left, most important first:

1. `RouterQueue`: the remapper's queue and heap between keyboards and translators, with
   two bindings (two classic, classic and MPE) on the same member channels, quantised notes, a
   cable out for less than a poll, and SIGTERM. It composes two instances of `ClassicToMpe`'s translator.
2. `SlotThreads`: `land_pending`, `abandon` and `press` split at their reads and writes, for the OSC
   thread against the main loop; and engine restart.
3. The pads and the grid together: one column of `SlotRuntime` with the gesture of `TrackGrid` in place of
   `TapOutcomes`, and the inbox of the ring-out detector.
4. `LedCompositor`: the panel shows the top layer's value whenever it is connected. Proof:
   belief equals panel.
5. The phase mark (re-anchoring, restore from a song) and the timing rules as operators, checked against the
   tables in their documents.
6. `library_ops`: restoring and re-keying, with the crash points of their writes, beside `FavoritesMove`.

Abstract specifications worth stating: a song store that `SongFiles` implements, and for (1) a keyboard whose every note ends. A theorem worth
proving: that the columns of a patient player give the buffer away as `FlushLedger` supposes, as a refinement.
