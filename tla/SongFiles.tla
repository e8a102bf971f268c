----------------------------- MODULE SongFiles -----------------------------
(***************************************************************************)
(* Saving and loading songs from the touch screen                          *)
(* (touch_browser_looper_songs.py) with the functions that do the work     *)
(* (looper_songs.py): a worker thread asks the engine to write one         *)
(* recording per loop, then puts a manifest naming them in place; a load   *)
(* empties every loop first.  The power may go between any two steps.      *)
(*                                                                         *)
(* The songs' directory is a journal: what a power cut leaves of it is one *)
(* of the states it has had since it was last flushed.  The bytes of a     *)
(* file survive only once they were flushed themselves.  The engine writes *)
(* a recording bit by bit, one after another, and the save looks only at   *)
(* how much of it is there: that it is there in full nobody tells it.      *)
(***************************************************************************)
EXTENDS Integers, Sequences, FiniteSets

CONSTANTS
  Songs,      \* slugs
  Loops,      \* loop numbers
  None,       \* no song
  Trouble,    \* what may go wrong besides a lost request and the power:
              \* "silence": a question to the engine stays unanswered;
              \* "late": a request given up by the save is carried out after all;
              \* "hands": the player plays on while a song is saved or loaded
  MaxTakes,   \* bound: takes recorded in one behaviour
  MaxFiles,   \* bound: files the engine creates
  MaxCuts     \* bound: power cuts

ASSUME SongAssumption ==
  /\ None \notin Songs
  /\ Loops \subseteq Nat /\ Loops # {} /\ IsFiniteSet(Loops)
  /\ Trouble \subseteq {"silence", "late", "hands"}
  /\ MaxTakes \in Nat /\ MaxFiles \in Nat /\ MaxCuts \in Nat

VARIABLES
  buffer,     \* the take in each loop of the engine, 0: none, -t: part of take t
  takes,      \* takes so far, which numbers them
  requests,   \* save requests on their way to the engine, oldest first
  dir,        \* the directory: which file has a recording's name, and each
              \* song's manifest: the loops it names (with the take meant)
  past,       \* what a power cut may leave of the directory
  file,       \* each file: its take, how much of it is there and is on the device
  files,      \* files so far, which numbers them
  writing,    \* the file the engine is writing, 0: none
  touched,    \* history: songs whose last save over them did not succeed
  job,        \* the worker thread
  result,     \* what it has put in the queue
  busy,       \* _looper_busy
  ui,         \* the screen: what is open and what it is about
  cuts

vars == <<buffer, takes, requests, dir, past, file, files, writing, touched, job, result,
          busy, ui, cuts>>
engine  == <<buffer, takes, requests>>
disk    == <<dir, past, file, files, writing>>
screen  == <<busy, ui>>

-----------------------------------------------------------------------------
Take == (-MaxTakes)..MaxTakes
Cut(t) == IF t > 0 THEN -t ELSE t

\* How much of a recording is there: at most 64 bytes, fewer than
\* MIN_LOOP_WAV_BYTES, as many though not all, all.
Header == 0
Short  == 1
Usable == 2
Full   == 3
Size   == Header..Full

Dir  == [wav : [Songs -> [Loops -> 0..MaxFiles]], song : [Songs -> [Loops -> Take]]]
Request == [song : Songs, loop : Loops]
\* early: history, flushed before it was there in full.
File == {x \in [take : Take, size : Size, synced : Size, early : BOOLEAN] : x.synced <= x.size}
Flushed(x) == [x EXCEPT !.synced = x.size, !.early = (x.size # Full)]
NewFile(t) == [take |-> t, size |-> Header, synced |-> Header, early |-> FALSE]

NoTakes == [l \in Loops |-> 0]
Exists(s) == dir.song[s] # NoTakes
Wav(s, l) == dir.wav[s][l]
Landed(s, l) == Wav(s, l) # 0 /\ file[Wav(s, l)].size > Header

Stage == {"start", "loop", "wait", "rename", "syncdir", "prune", "clear", "fill"}
\* over: an existing song may be replaced; next: the song to load after a save;
\* left: the loops not dealt with; meta: the recordings to be named; short:
\* history, the loops left out because little of them was there; chosen:
\* history, whether the player said that the loops may go.
Job == [kind : {"none", "check", "save", "load"}, song : Songs \cup {None}, over : BOOLEAN,
        next : Songs \cup {None}, at : Stage, left : SUBSET Loops,
        meta : [Loops -> Take], short : SUBSET Loops, chosen : BOOLEAN]
NoJob == [kind |-> "none", song |-> None, over |-> FALSE, next |-> None, at |-> "start",
          left |-> {}, meta |-> NoTakes, short |-> {}, chosen |-> FALSE]
NewJob(kind, s) == [NoJob EXCEPT !.kind = kind, !.song = s]

Result == [is : {"none", "ok", "failed", "confirm_load"}, song : Songs \cup {None}]
Say(is) == [is |-> is, song |-> None]

Ui == [screen : {"browser", "confirm", "name"}, view : {"menu", "save_list", "load_list"},
       kind : {"", "overwrite", "load_replace"}, selected : Songs \cup {None},
       pending : Songs \cup {None}, after : Songs \cup {None}]
Opening == [screen |-> "browser", view |-> "menu", kind |-> "", selected |-> None,
            pending |-> None, after |-> None]

Init ==
  /\ buffer = NoTakes /\ takes = 0 /\ requests = <<>>
  /\ dir = [wav |-> [s \in Songs |-> [l \in Loops |-> 0]], song |-> [s \in Songs |-> NoTakes]]
  /\ past = {dir}
  /\ file = [f \in 1..MaxFiles |-> NewFile(0)] /\ files = 0 /\ writing = 0
  /\ touched = {}
  /\ job = NoJob /\ result = Say("none") /\ busy = FALSE /\ ui = Opening
  /\ cuts = 0

-----------------------------------------------------------------------------
(* The screen.                                                              *)

\* _run_looper_save, _run_looper_load and the check before a load start a
\* worker, unless one is at work: then the tap is lost.
Run(j) == IF busy THEN UNCHANGED <<busy, job>> ELSE busy' = TRUE /\ job' = j

\* A dialog gone back on is about no song any more, though it is still shown.
RunFor(s, j) == IF s = None THEN UNCHANGED <<busy, job>> ELSE Run(j)

GoBack(u) ==
  CASE u.view \in {"save_list", "load_list"} -> [u EXCEPT !.view = "menu", !.selected = None]
    [] u.view = "menu" /\ u.screen = "name" ->
         [u EXCEPT !.screen = "browser", !.view = "save_list"]
    [] u.view = "menu" /\ u.screen = "confirm" ->
         [u EXCEPT !.screen = "browser", !.kind = "", !.pending = None,
                   !.view = CASE u.kind = "load_replace" -> "load_list"
                              [] u.kind = "overwrite"    -> "save_list"
                              [] OTHER                   -> @]
    [] OTHER -> u
Close(u) == [u EXCEPT !.screen = "browser", !.kind = ""]

OffScreen == UNCHANGED <<engine, disk, touched, result, cuts>>

TapMenu ==
  /\ ui.screen = "browser" /\ ui.view = "menu"
  /\ \E view \in {"save_list"} \cup {v \in {"load_list"} : \E s \in Songs : Exists(s)} :
       ui' = [ui EXCEPT !.view = view]
  /\ UNCHANGED <<busy, job>> /\ OffScreen

TapBack ==
  /\ \/ ui.screen = "browser" /\ ui.view # "menu" /\ ~busy
     \/ ui.screen = "name"
  /\ ui' = GoBack(ui)
  /\ UNCHANGED <<busy, job>> /\ OffScreen

\* "+ New song", or a song of the list.
TapNew ==
  /\ ui.screen = "browser" /\ ui.view = "save_list"
  /\ ui' = [ui EXCEPT !.screen = "name", !.after = None]
  /\ UNCHANGED <<busy, job>> /\ OffScreen
TapOverwrite(s) ==
  /\ ui.screen = "browser" /\ ui.view = "save_list" /\ Exists(s)
  /\ ui' = [ui EXCEPT !.screen = "confirm", !.kind = "overwrite", !.selected = s]
  /\ UNCHANGED <<busy, job>> /\ OffScreen
TapLoad(s) ==
  /\ ui.screen = "browser" /\ ui.view = "load_list" /\ Exists(s)
  /\ Run(NewJob("check", s))
  /\ UNCHANGED ui /\ OffScreen

\* The dialogs "Overwrite?" and "Save them first?".
Confirm(hit) ==
  /\ ui.screen = "confirm"
  /\ \/ /\ hit = "cancel" \/ (hit = "no" /\ ui.kind = "overwrite")
        /\ ui' = GoBack(ui) /\ UNCHANGED <<busy, job>>
     \/ /\ hit = "yes" /\ ui.kind = "overwrite"
        /\ ui' = Close(ui)
        /\ RunFor(ui.selected, [NewJob("save", ui.selected) EXCEPT !.over = TRUE])
     \/ /\ hit = "yes" /\ ui.kind = "load_replace"
        /\ ui' = [Close(ui) EXCEPT !.view = "save_list", !.screen = "name",
                                   !.after = ui.pending]
        /\ UNCHANGED <<busy, job>>
     \/ /\ hit = "no" /\ ui.kind = "load_replace"
        /\ ui' = Close(ui)
        /\ RunFor(ui.pending, [NewJob("load", ui.pending) EXCEPT !.chosen = TRUE])
  /\ OffScreen

EnterName(s) ==
  /\ ui.screen = "name"
  /\ ui' = [ui EXCEPT !.screen = "browser"]
  /\ Run([NewJob("save", s) EXCEPT !.next = ui.after])
  /\ OffScreen

PollResults ==
  /\ busy /\ result # Say("none")
  /\ busy' = FALSE /\ result' = Say("none")
  /\ ui' = IF result.is # "confirm_load" THEN [ui EXCEPT !.view = "menu", !.pending = None]
           ELSE [ui EXCEPT !.screen = "confirm", !.kind = "load_replace",
                           !.pending = result.song]
  /\ UNCHANGED <<engine, disk, touched, job, cuts>>

-----------------------------------------------------------------------------
(* The worker.                                                              *)

Answered == {TRUE} \cup (IF "silence" \in Trouble THEN {FALSE} ELSE {})
First(ls) == CHOOSE l \in ls : \A k \in ls : l <= k

Finish(is) == job' = NoJob /\ result' = Say(is)

\* session_has_content: a loop that does not answer counts as empty.
Check ==
  /\ job.kind = "check"
  /\ \E heard \in [Loops -> Answered] :
       IF \E l \in Loops : heard[l] /\ buffer[l] # 0
       THEN job' = NoJob /\ result' = [is |-> "confirm_load", song |-> job.song]
       ELSE job' = NewJob("load", job.song) /\ UNCHANGED result
  /\ UNCHANGED <<engine, disk, touched, screen, cuts>>

BeginSave ==
  /\ job.kind = "save" /\ job.at = "start"
  /\ \/ Exists(job.song) /\ ~job.over /\ Finish("failed")
     \/ FALSE \in Answered /\ Finish("failed")
     \/ /\ ~Exists(job.song) \/ job.over
        /\ job' = [job EXCEPT !.at = "loop", !.left = Loops]
        /\ UNCHANGED result
  /\ UNCHANGED <<engine, disk, touched, screen, cuts>>

\* One entry of the directory changes.
Rename(d) == dir' = d /\ past' = past \cup {d}
Named(s, l, f) == [dir EXCEPT !.wav[s][l] = f]

\* Ask for a loop with audio; one that does not answer is passed over.
SaveLoop ==
  /\ job.kind = "save" /\ job.at = "loop" /\ job.left # {}
  /\ LET l == First(job.left) IN
       \E heard \in Answered :
         \/ /\ ~heard \/ buffer[l] = 0
            /\ job' = [job EXCEPT !.left = @ \ {l}]
            /\ UNCHANGED <<requests, dir, past, touched>>
         \/ /\ heard /\ buffer[l] # 0
            /\ Rename(Named(job.song, l, 0))
            /\ requests' = Append(requests, [song |-> job.song, loop |-> l])
            /\ touched' = IF Exists(job.song) THEN touched \cup {job.song} ELSE touched
            /\ job' = [job EXCEPT !.at = "wait"]
  /\ UNCHANGED <<buffer, takes, file, files, writing, result, screen, cuts>>

\* Mutant of LoopSaved: the file that landed counts as written.
LoopSavedUnflushed ==
  /\ job.kind = "save" /\ job.at = "wait"
  /\ LET l == First(job.left) IN
       /\ Landed(job.song, l) /\ file[Wav(job.song, l)].size # Short
       /\ job' = [job EXCEPT !.at = "loop", !.left = @ \ {l}, !.meta[l] = buffer[l]]
  /\ UNCHANGED <<engine, disk, touched, result, screen, cuts>>

\* Something of the file is there.  If little, it is thrown away and the save goes
\* on without the loop; else it is flushed as it is, though the engine may still
\* be writing it.
LoopSaved ==
  /\ job.kind = "save" /\ job.at = "wait" /\ job.left # {}
  /\ LET l == First(job.left)
         f == Wav(job.song, l)
         went == [job EXCEPT !.at = "loop", !.left = @ \ {l}]
     IN /\ Landed(job.song, l)
        /\ \/ /\ file[f].size = Short
              /\ Rename(Named(job.song, l, 0))
              /\ job' = [went EXCEPT !.short = @ \cup {l}]
              /\ UNCHANGED file
           \/ /\ file[f].size # Short
              /\ file' = [file EXCEPT ![f] = Flushed(@)]
              /\ job' = [went EXCEPT !.meta[l] = buffer[l]]
              /\ UNCHANGED <<dir, past>>
  /\ UNCHANGED <<engine, files, writing, touched, result, screen, cuts>>

\* Mutants of LoopNotSaved: the save goes on without the loop; the song chosen
\* is loaded whatever became of the save.
LoopPassedOver ==
  /\ job.kind = "save" /\ job.at = "wait" /\ ~Landed(job.song, First(job.left))
  /\ requests' = <<>>
  /\ job' = [job EXCEPT !.at = "loop", !.left = @ \ {First(job.left)}]
  /\ UNCHANGED <<buffer, takes, disk, touched, result, screen, cuts>>
LoadAnyway ==
  /\ job.kind = "save" /\ job.at = "wait" /\ ~Landed(job.song, First(job.left))
  /\ requests' = <<>>
  /\ IF job.next = None THEN Finish("failed")
     ELSE job' = NewJob("load", job.next) /\ UNCHANGED result
  /\ UNCHANGED <<buffer, takes, disk, touched, screen, cuts>>

\* The deadline passes.  The request was lost, or is still to be carried out.
LoopNotSaved ==
  /\ job.kind = "save" /\ job.at = "wait" /\ ~Landed(job.song, First(job.left))
  /\ \E kept \in {<<>>} \cup (IF "late" \in Trouble THEN {requests} ELSE {}) : requests' = kept
  /\ Finish("failed")
  /\ UNCHANGED <<buffer, takes, disk, touched, screen, cuts>>

\* verify_slot_files, then the manifest: written and flushed under another
\* name, and renamed.
Verified(s, l) == Wav(s, l) # 0 /\ file[Wav(s, l)].size >= Usable
WriteManifest ==
  /\ job.kind = "save" /\ job.at = "loop" /\ job.left = {}
  /\ \/ /\ job.meta = NoTakes \/ \E l \in Loops : job.meta[l] # 0 /\ ~Verified(job.song, l)
        /\ Finish("failed") /\ UNCHANGED <<dir, past>>
     \/ /\ job.meta # NoTakes /\ \A l \in Loops : job.meta[l] # 0 => Verified(job.song, l)
        /\ Rename([dir EXCEPT !.song[job.song] = job.meta])
        /\ job' = [job EXCEPT !.at = "syncdir"] /\ UNCHANGED result
  /\ UNCHANGED <<engine, file, files, writing, touched, screen, cuts>>

\* What the song no longer names is removed only now.
SyncDir ==
  /\ job.kind = "save" /\ job.at = "syncdir"
  /\ past' = {dir}
  /\ touched' = touched \ {job.song}
  /\ job' = [job EXCEPT !.at = "prune"]
  /\ UNCHANGED <<engine, dir, file, files, writing, result, screen, cuts>>

Prune ==
  /\ job.kind = "save" /\ job.at = "prune"
  /\ LET s == job.song
         d == [dir EXCEPT !.wav[s] =
                 [l \in Loops |-> IF job.over /\ job.meta[l] = 0 THEN 0 ELSE @[l]]]
     IN /\ dir' = d
        /\ past' = IF d # dir THEN {d} ELSE past
  /\ IF job.next = None THEN Finish("ok")
     ELSE /\ job' = [NewJob("load", job.next) EXCEPT !.short = job.short]
          /\ UNCHANGED result
  /\ UNCHANGED <<engine, file, files, writing, touched, screen, cuts>>

\* load_song: all loops are emptied, then the ones the song names are filled.
BeginLoad ==
  /\ job.kind = "load" /\ job.at = "start"
  /\ \/ (~Exists(job.song) \/ FALSE \in Answered) /\ Finish("failed")
     \/ Exists(job.song) /\ job' = [job EXCEPT !.at = "clear"] /\ UNCHANGED result
  /\ UNCHANGED <<engine, disk, touched, screen, cuts>>

ClearAllLoops ==
  /\ job.kind = "load" /\ job.at = "clear"
  /\ buffer' = NoTakes
  /\ job' = [job EXCEPT !.at = "fill"]
  /\ UNCHANGED <<takes, requests, disk, touched, result, screen, cuts>>

\* What the engine makes of a file that is all there, in part, or not at all.
Heard(f) == CASE f.size = Full   -> f.take
              [] f.size = Header -> 0
              [] OTHER           -> Cut(f.take)
LoadLoops ==
  /\ job.kind = "load" /\ job.at = "fill"
  /\ LET s == job.song
         there == {l \in Loops : dir.song[s][l] # 0 /\ Wav(s, l) # 0}
     IN /\ buffer' = [l \in Loops |-> IF l \in there THEN Heard(file[Wav(s, l)]) ELSE buffer[l]]
        /\ Finish(IF there = {} THEN "failed" ELSE "ok")
  /\ UNCHANGED <<takes, requests, disk, touched, screen, cuts>>

-----------------------------------------------------------------------------
(* The engine, the player and the power.                                    *)

\* A new file, or the existing one written anew; the header comes first.
EngineSaves ==
  /\ requests # <<>> /\ writing = 0
  /\ LET r == Head(requests)
         f == Wav(r.song, r.loop)
     IN \/ /\ f = 0 /\ files < MaxFiles /\ files' = files + 1
           /\ writing' = files + 1
           /\ Rename(Named(r.song, r.loop, files + 1))
           /\ file' = [file EXCEPT ![files + 1] = NewFile(buffer[r.loop])]
        \/ /\ f # 0 /\ writing' = f
           /\ file' = [file EXCEPT ![f] = NewFile(buffer[r.loop])]
           /\ UNCHANGED <<dir, past, files>>
  /\ requests' = Tail(requests)
  /\ UNCHANGED <<buffer, takes, touched, job, result, screen, cuts>>

\* The file grows, under its name or without one.
EngineWrites ==
  /\ writing # 0
  /\ \E size \in Size :
       /\ size > file[writing].size
       /\ file' = [file EXCEPT ![writing].size = size]
       /\ writing' = IF size = Full THEN 0 ELSE writing
  /\ UNCHANGED <<engine, dir, past, files, touched, job, result, screen, cuts>>

Hands == job.kind = "none" \/ "hands" \in Trouble

Record(l) ==
  /\ Hands /\ takes < MaxTakes
  /\ takes' = takes + 1 /\ buffer' = [buffer EXCEPT ![l] = takes + 1]
  /\ UNCHANGED <<requests, disk, touched, job, result, screen, cuts>>
Clear(l) ==
  /\ Hands /\ buffer[l] # 0
  /\ buffer' = [buffer EXCEPT ![l] = 0]
  /\ UNCHANGED <<takes, requests, disk, touched, job, result, screen, cuts>>

PowerCut ==
  /\ cuts < MaxCuts /\ cuts' = cuts + 1
  /\ \E d \in past : dir' = d /\ past' = {d}
  /\ \E size \in [1..MaxFiles -> Size] :
       /\ \A f \in 1..MaxFiles : file[f].synced <= size[f] /\ size[f] <= file[f].size
       /\ file' = [f \in 1..MaxFiles |->
                     [file[f] EXCEPT !.size = size[f], !.synced = size[f]]]
  /\ buffer' = NoTakes /\ requests' = <<>> /\ writing' = 0
  /\ job' = NoJob /\ result' = Say("none") /\ busy' = FALSE /\ ui' = Opening
  /\ UNCHANGED <<takes, files, touched>>

Tap == \/ TapMenu \/ TapBack \/ TapNew \/ PollResults
       \/ \E s \in Songs : TapOverwrite(s) \/ TapLoad(s) \/ EnterName(s)
       \/ \E hit \in {"yes", "no", "cancel"} : Confirm(hit)
Work == \/ Check \/ BeginSave \/ SaveLoop \/ LoopSaved \/ LoopNotSaved \/ WriteManifest
        \/ SyncDir \/ Prune \/ BeginLoad \/ ClearAllLoops \/ LoadLoops
World == EngineSaves \/ EngineWrites \/ PowerCut \/ \E l \in Loops : Record(l) \/ Clear(l)

Next == Tap \/ Work \/ World

Spec == Init /\ [][Next]_vars

-----------------------------------------------------------------------------
\* The state variables have their types, and the worker works for a song.
TypeOK ==
  /\ buffer \in [Loops -> Take] /\ takes \in 0..MaxTakes
  /\ requests \in Seq(Request)
  /\ dir \in past /\ past \subseteq Dir
  /\ file \in [1..MaxFiles -> File] /\ files \in 0..MaxFiles
  /\ writing \in 0..MaxFiles
  /\ touched \subseteq Songs
  /\ job \in Job /\ (job.kind # "none" => job.song \in Songs)
  /\ result \in Result /\ busy \in BOOLEAN /\ ui \in Ui
  /\ cuts \in 0..MaxCuts

\* The recording a directory has for a loop is of the take meant, and on the
\* device: in full, but if it was flushed before the engine had finished it, which
\* the save cannot tell; then enough of it to be loaded.
Held(x, t) == x.take = t /\ x.synced >= IF x.early THEN Usable ELSE Full
Recorded(d, s, l) == d.wav[s][l] # 0 /\ Held(file[d.wav[s][l]], d.song[s][l])

\* Whatever the power cuts off, every song left has a recording of each loop it
\* names: of the take that was saved, and in full, unless it was flushed when more
\* than the header was there and not yet all (looper_songs.py:146 waits for no
\* more); what is left of that one is not too short to be loaded.  Only a song
\* that was being saved over, and was not finished, may be torn.
SavedSongsReload ==
  \A d \in past : \A s \in Songs \ touched : \A l \in Loops :
    d.song[s][l] # 0 => Recorded(d, s, l)

\* A load takes away no audio unless the player said so or a song has it; but for
\* a loop that the save before it left out and called the song saved all the same,
\* because the file was too short when it looked (looper_songs.py:672-674).
LossIsChosen ==
  [][job.kind = "load" /\ job.at = "clear" /\ ~job.chosen /\ cuts' = cuts
       => \A l \in Loops \ job.short : buffer[l] # 0 /\ buffer'[l] = 0 =>
            \E s \in Songs : dir.song[s][l] = buffer[l] /\ Recorded(dir, s, l)]_vars

\* A save that goes as far as its manifest names every loop with audio, but those
\* whose files were too short when it looked: these it leaves out without a word
\* (looper_songs.py:672-674), and names nothing else in their place.
SavedIsAll ==
  job.kind = "save" /\ job.at \in {"syncdir", "prune"} =>
    dir.song[job.song] = [l \in Loops |-> IF l \in job.short THEN 0 ELSE buffer[l]]
=============================================================================
