------------------------- MODULE SongFiles_proofs -------------------------
(***************************************************************************)
(* Proofs about SongFiles, for any songs, loops, takes, files and power    *)
(* cuts: the songs left on the card have what they name, a save that       *)
(* succeeds has every loop but those it found too short, and a load takes   *)
(* nothing else away unasked.                                              *)
(***************************************************************************)
EXTENDS SongFiles, TLAPS, FiniteSetTheorems, WellFoundedInduction

\* The engine keeps to requests that were not given up, and nobody plays
\* while a song is saved or loaded.
Steady == "late" \notin Trouble /\ "hands" \notin Trouble

-----------------------------------------------------------------------------
(* The inductive invariant.                                                 *)

\* A directory names only files the engine has made.
FilesAreMade == \A d \in past : \A s \in Songs : \A l \in Loops : d.wav[s][l] <= files

\* The request under way is the one the save waits for, and its recording
\* does not exist: no recording is ever written anew.
RequestIsAwaited ==
  requests # <<>> =>
    /\ job.kind = "save" /\ job.at = "wait"
    /\ requests = <<[song |-> job.song, loop |-> First(job.left)]>>
    /\ Wav(job.song, First(job.left)) = 0

\* What a save has noted so far is recorded.
NotedIsRecorded ==
  job.kind = "save" /\ job.at \in {"loop", "wait", "syncdir", "prune"} =>
    \A l \in Loops : job.meta[l] # 0 =>
      /\ Wav(job.song, l) # 0
      /\ Held(file[Wav(job.song, l)], job.meta[l])

\* Where a save stands.
SaveStands ==
  job.kind = "save" =>
    /\ job.at = "start" => job.meta = NoTakes
    /\ job.at \in {"loop", "wait"} => \A l \in job.left : job.meta[l] = 0
    /\ job.at = "wait" =>
         /\ job.left # {}
         /\ job.song \in touched \/ ~Exists(job.song)
         /\ LET l == First(job.left)
            IN Wav(job.song, l) # 0 => file[Wav(job.song, l)].take = buffer[l]
    /\ job.at \in {"syncdir", "prune"} => dir.song[job.song] = job.meta

\* The screen starts no second worker, and an answer is the end of the work.
WorkIsAlone ==
  /\ job.kind # "none" => busy
  /\ job.kind # "none" \/ ~busy => result = Say("none")

Kept == FilesAreMade /\ RequestIsAwaited /\ NotedIsRecorded /\ SaveStands
          /\ SavedSongsReload
IInv == TypeOK /\ WorkIsAlone /\ Kept

\* When every question is answered, a save notes each loop as it is, but the short
\* ones ...
Due == [l \in Loops |-> IF l \in job.short THEN 0 ELSE buffer[l]]
NotedIsAll ==
  job.kind = "save" =>
    /\ job.at = "start" => job.short = {}
    /\ job.at \in {"loop", "wait"} =>
         /\ job.short \cap job.left = {}
         /\ \A l \in Loops \ job.left : job.meta[l] = Due[l]
    /\ job.at \in {"syncdir", "prune"} => job.meta = Due

\* ... and a load nobody asked about follows a save, or finds nothing to lose.
NothingToLose ==
  job.kind = "load" /\ job.at \in {"start", "clear"} /\ ~job.chosen =>
    \A l \in Loops \ job.short : buffer[l] # 0 =>
      \E s \in Songs : dir.song[s][l] = buffer[l] /\ Recorded(dir, s, l)

-----------------------------------------------------------------------------
(* The least loop, and types. *)

\* Of a set of loops there is a least: the loops below one are fewer than those
\* below a greater one.
LEMMA LeastLoop ==
  ASSUME NEW ls \in SUBSET Loops, ls # {}
  PROVE  First(ls) \in ls
<1> DEFINE Below(l) == {k \in ls : k < l}
           Ordering == StrictSubsetOrdering(Loops)
<1>1. ls \subseteq Nat
  BY SongAssumption
<1>2. \A l \in ls : Below(l) \in FiniteSubsetsOf(Loops)
  BY SongAssumption, FS_Subset DEF FiniteSubsetsOf
<1>3. PICK x \in {Below(l) : l \in ls} : \A y \in {Below(l) : l \in ls} : ~ (<<y, x>> \in Ordering)
  <2>1. IsWellFoundedOn(Ordering, FiniteSubsetsOf(Loops))
    BY FS_StrictSubsetOrderingWellFounded
  <2>2. {Below(l) : l \in ls} \subseteq FiniteSubsetsOf(Loops) /\ {Below(l) : l \in ls} # {}
    BY <1>2
  <2>3. QED
    BY <2>1, <2>2, WFMin
<1>4. PICK l \in ls : x = Below(l)
  BY <1>3
<1>5. ASSUME NEW k \in Below(l) PROVE FALSE
  <2>0. k \in ls /\ k < l /\ k \in Nat /\ l \in Nat
    BY <1>1, <1>5
  <2>1. Below(k) \subseteq Below(l) /\ k \in Below(l) /\ k \notin Below(k)
    <3>1. ASSUME NEW i \in Below(k) PROVE i < l
      BY <1>1, <2>0, <3>1
    <3>2. k \notin Below(k)
      BY <2>0
    <3>3. Below(k) \subseteq Below(l)
      BY <3>1
    <3>4. QED
      BY <1>5, <3>2, <3>3
  <2>2. <<Below(k), Below(l)>> \in Ordering
    BY <2>1 DEF StrictSubsetOrdering
  <2>3. QED
    BY <1>3, <1>4, <2>2
<1>6. \A k \in ls : l <= k
  BY <1>1, <1>5
<1>7. QED
  BY <1>6 DEF First

\* What becomes of a file.
LEMMA SizeType == Size \subseteq Int /\ {Header, Short, Usable, Full} \subseteq Size
BY DEF Size, Header, Short, Usable, Full

LEMMA NewFileType ==
  ASSUME NEW t \in Take
  PROVE  NewFile(t) \in File /\ NewFile(t).take = t
BY DEF NewFile, File, Size, Header, Full

LEMMA Growing ==
  ASSUME NEW x \in File, NEW n \in Size, n > x.size
  PROVE  LET y == [x EXCEPT !.size = n]
         IN  y \in File /\ y.take = x.take /\ y.synced = x.synced /\ y.early = x.early
BY SizeType DEF File

LEMMA Flushing ==
  ASSUME NEW x \in File
  PROVE  /\ Flushed(x) \in File /\ Flushed(x).take = x.take
         /\ x.size \notin {Header, Short} => Held(Flushed(x), x.take)
<1>1. x.size \in Size /\ x.size \in Int /\ x.size <= x.size
  <2>1. x.size \in Size
    BY DEF File
  <2>2. QED
    BY <2>1 DEF Size, Header, Full
<1>2. (x.size # Full) = TRUE \/ (x.size # Full) = FALSE
  OBVIOUS
<1>3. \A b \in BOOLEAN :
        LET y == [x EXCEPT !.synced = x.size, !.early = b]
        IN  y \in File /\ y.take = x.take /\ y.synced = x.size /\ y.early = b
  BY <1>1 DEF File
<1>4. /\ Flushed(x) \in File /\ Flushed(x).take = x.take /\ Flushed(x).synced = x.size
      /\ Flushed(x).early = (x.size # Full)
  BY <1>2, <1>3 DEF Flushed
<1> DEFINE y == Flushed(x)
<1> HIDE DEF y
<1>5. x.size \notin {Header, Short} => y.synced >= IF y.early THEN Usable ELSE Full
  <2>1. y.synced = x.size /\ y.early = (x.size # Full)
    BY <1>4 DEF y
  <2>2. CASE x.size = Full
    <3>1. y.synced = 3 /\ y.early = FALSE
      BY <2>1, <2>2 DEF Full
    <3>2. QED
      BY <3>1 DEF Full
  <2>3. CASE x.size # Full
    <3>1. y.early = TRUE
      BY <2>1, <2>3
    <3>2. QED
      BY <1>1, <2>1, <3>1 DEF Size, Header, Short, Usable, Full
  <2>4. QED
    BY <2>2, <2>3
<1>6. QED
  BY <1>4, <1>5 DEF Held, y

LEMMA CuttingOff ==
  ASSUME NEW x \in File, NEW n \in Size, x.synced <= n, n <= x.size
  PROVE  LET y == [x EXCEPT !.size = n, !.synced = n]
         IN  y \in File /\ \A t : Held(x, t) => Held(y, t)
<1> DEFINE y == [x EXCEPT !.size = n, !.synced = n]
<1>1. x.synced \in Int /\ n \in Int /\ n <= n
  <2>1. x.synced \in Size
    BY DEF File
  <2>2. QED
    BY <2>1 DEF Size, Header, Full
<1>2. y \in File /\ y.take = x.take /\ y.synced = n /\ y.early = x.early
  BY <1>1 DEF File
<1> HIDE DEF y
<1>3. \A t : Held(x, t) => Held(y, t)
  BY <1>1, <1>2 DEF Held, Usable, Full
<1>4. QED
  BY <1>2, <1>3 DEF y

LEMMA NoJobType ==
  /\ NoJob \in Job /\ NoJob.kind = "none" /\ NoJob.at = "start" /\ NoJob.meta = NoTakes
  /\ NoJob.short = {}
BY SongAssumption DEF NoJob, Job, Stage, NoTakes, Take

LEMMA NewJobType ==
  ASSUME NEW kind \in {"check", "save", "load"}, NEW s \in Songs
  PROVE  /\ NewJob(kind, s) \in Job /\ NewJob(kind, s).kind = kind /\ NewJob(kind, s).song = s
         /\ NewJob(kind, s).at = "start" /\ NewJob(kind, s).meta = NoTakes
         /\ NewJob(kind, s).short = {}
BY NoJobType DEF NewJob, Job

\* A worker may be told more than what it is to do and for which song.
LEMMA ToldJobType ==
  ASSUME NEW kind \in {"check", "save", "load"}, NEW s \in Songs, NEW n \in Songs \cup {None},
         NEW j, j \in {[NewJob(kind, s) EXCEPT !.over = TRUE],
                       [NewJob(kind, s) EXCEPT !.chosen = TRUE],
                       [NewJob(kind, s) EXCEPT !.next = n]}
  PROVE  /\ j \in Job /\ j.kind = kind /\ j.song = s /\ j.at = "start" /\ j.meta = NoTakes
         /\ j.short = {}
<1> DEFINE new == NewJob(kind, s)
<1>1. /\ new \in Job /\ new.kind = kind /\ new.song = s /\ new.at = "start"
      /\ new.meta = NoTakes /\ new.short = {}
  BY NewJobType
<1> HIDE DEF new
<1>2. \A k \in {[new EXCEPT !.over = TRUE], [new EXCEPT !.chosen = TRUE], [new EXCEPT !.next = n]} :
        /\ k \in Job /\ k.kind = kind /\ k.song = s /\ k.at = "start" /\ k.meta = NoTakes
        /\ k.short = {}
  BY <1>1 DEF Job
<1>3. QED
  BY <1>2 DEF new

LEMMA GoBackType ==
  ASSUME NEW u \in Ui
  PROVE  GoBack(u) \in Ui
BY DEF GoBack, Ui

\* What the screen keeps its types for: it starts workers for songs.
TypedWork == /\ job \in Job /\ (job.kind # "none" => job.song \in Songs)
             /\ busy \in BOOLEAN

LEMMA RunType ==
  ASSUME TypedWork, NEW j \in Job, j.song \in Songs, Run(j)
  PROVE  TypedWork'
BY DEF TypedWork, Run

\* Every tap keeps the types.
LEMMA TapType ==
  ASSUME TypeOK, Tap
  PROVE  TypeOK'
<1>0. TypedWork /\ ui \in Ui
  BY DEF TypeOK, TypedWork
<1>1. CASE TapMenu \/ TapBack \/ TapNew
  <2>1. ui' \in Ui
    BY <1>0, <1>1, GoBackType DEF TapMenu, TapBack, TapNew, Ui
  <2>2. QED
    BY <1>1, <2>1 DEF TypeOK, TapMenu, TapBack, TapNew, OffScreen, engine, disk
<1>2. ASSUME NEW s \in Songs, TapOverwrite(s) PROVE TypeOK'
  <2>1. ui' \in Ui
    BY <1>0, <1>2 DEF TapOverwrite, Ui
  <2>2. QED
    BY <1>2, <2>1 DEF TypeOK, TapOverwrite, OffScreen, engine, disk
<1>3. ASSUME NEW s \in Songs, TapLoad(s) PROVE TypeOK'
  <2>1. TypedWork'
    BY <1>0, <1>3, RunType, NewJobType DEF TapLoad
  <2>2. QED
    BY <1>3, <2>1 DEF TypeOK, TypedWork, TapLoad, OffScreen, engine, disk
<1>4. ASSUME NEW s \in Songs, EnterName(s) PROVE TypeOK'
  <2>1. ui.after \in Songs \cup {None}
    BY <1>0 DEF Ui
  <2>2. Run([NewJob("save", s) EXCEPT !.next = ui.after])
    BY <1>4 DEF EnterName
  <2>3. TypedWork'
    BY <1>0, <2>1, <2>2, ToldJobType, RunType
  <2>4. ui' \in Ui
    BY <1>0, <1>4 DEF EnterName, Ui
  <2>5. QED
    BY <1>4, <2>3, <2>4 DEF TypeOK, TypedWork, EnterName, OffScreen, engine, disk
<1>5. CASE PollResults
  <2>1. ui' \in Ui
    BY <1>0, <1>5 DEF PollResults, TypeOK, Result, Ui
  <2>2. result' \in Result
    BY <1>5 DEF PollResults, Say, Result
  <2>3. QED
    BY <1>5, <2>1, <2>2 DEF TypeOK, PollResults, engine, disk
<1>6. ASSUME NEW hit \in {"yes", "no", "cancel"}, Confirm(hit) PROVE TypeOK'
  <2>1. ui' \in Ui
    <3>1. Close(ui) \in Ui /\ GoBack(ui) \in Ui
      BY <1>0, GoBackType DEF Close, Ui
    <3>2. [Close(ui) EXCEPT !.view = "save_list", !.screen = "name", !.after = ui.pending] \in Ui
      BY <1>0, <3>1 DEF Ui
    <3>3. QED
      BY <1>6, <3>1, <3>2 DEF Confirm
  <2>2. ASSUME NEW s \in Songs \cup {None}, RunFor(s, [NewJob("save", s) EXCEPT !.over = TRUE])
        PROVE  TypedWork'
    <3>1. CASE s = None
      BY <1>0, <2>2, <3>1 DEF RunFor, TypedWork
    <3>2. CASE s # None
      <4>1. Run([NewJob("save", s) EXCEPT !.over = TRUE])
        BY <2>2, <3>2 DEF RunFor
      <4>2. QED
        BY <1>0, <3>2, <4>1, ToldJobType, RunType
    <3>3. QED
      BY <3>1, <3>2
  <2>3. ASSUME NEW s \in Songs \cup {None}, RunFor(s, [NewJob("load", s) EXCEPT !.chosen = TRUE])
        PROVE  TypedWork'
    <3>1. CASE s = None
      BY <1>0, <2>3, <3>1 DEF RunFor, TypedWork
    <3>2. CASE s # None
      <4>1. Run([NewJob("load", s) EXCEPT !.chosen = TRUE])
        BY <2>3, <3>2 DEF RunFor
      <4>2. QED
        BY <1>0, <3>2, <4>1, ToldJobType, RunType
    <3>3. QED
      BY <3>1, <3>2
  <2>4. ui.selected \in Songs \cup {None} /\ ui.pending \in Songs \cup {None}
    BY <1>0 DEF Ui
  <2>5. TypedWork'
    BY <1>0, <1>6, <2>2, <2>3, <2>4 DEF Confirm, TypedWork
  <2>6. QED
    BY <1>6, <2>1, <2>5 DEF TypeOK, TypedWork, Confirm, OffScreen, engine, disk
<1>7. QED
  BY <1>1, <1>2, <1>3, <1>4, <1>5, <1>6 DEF Tap

LEMMA FinishType ==
  ASSUME TypeOK, NEW is \in {"ok", "failed"}, Finish(is)
  PROVE  job' \in Job /\ job'.kind = "none" /\ result' \in Result
BY NoJobType DEF Finish, Say, Result

\* Making a load of a save.
LEMMA LoadNextType ==
  ASSUME TypeOK, job.next # None,
         job' = [NewJob("load", job.next) EXCEPT !.short = job.short]
  PROVE  /\ job' \in Job /\ job'.song \in Songs /\ job'.kind = "load"
         /\ job'.short = job.short
<1>1. job.next \in Songs /\ job.short \in SUBSET Loops
  BY DEF TypeOK, Job
<1>2. NewJob("load", job.next) \in Job /\ NewJob("load", job.next).song = job.next
      /\ NewJob("load", job.next).kind = "load"
  BY <1>1, NewJobType
<1>3. QED
  BY <1>1, <1>2 DEF Job

\* Every step of the worker keeps the types.
LEMMA WorkType ==
  ASSUME TypeOK, Work
  PROVE  TypeOK'
<1>0. /\ job \in Job /\ dir \in Dir /\ past \subseteq Dir
      /\ 0 \in 0..MaxFiles /\ 0 \in Take /\ NoTakes \in [Loops -> Take]
      /\ buffer \in [Loops -> Take]
  BY SongAssumption DEF TypeOK, Take, NoTakes
<1>1. CASE Check
  <2>1. job.song \in Songs /\ job.song \in Songs \cup {None}
    BY <1>1 DEF Check, TypeOK
  <2>2. job' \in Job /\ (job'.kind # "none" => job'.song \in Songs) /\ result' \in Result
    BY <1>1, <2>1, NoJobType, NewJobType DEF Check, TypeOK, Result
  <2>3. QED
    BY <1>1, <2>2 DEF TypeOK, Check, engine, disk, screen
<1>2. CASE BeginSave
  <2>1. [job EXCEPT !.at = "loop", !.left = Loops] \in Job
    BY <1>0 DEF Job, Stage
  <2>2. job' \in Job /\ (job'.kind # "none" => job'.song \in Songs) /\ result' \in Result
    BY <1>0, <1>2, <2>1, FinishType DEF BeginSave, TypeOK, Job
  <2>3. QED
    BY <1>2, <2>2 DEF TypeOK, BeginSave, engine, disk, screen
<1>3. CASE SaveLoop
  <2> DEFINE l == First(job.left)
  <2>1. l \in Loops /\ job.song \in Songs
    BY <1>0, <1>3, LeastLoop DEF SaveLoop, TypeOK, Job
  <2> HIDE DEF l
  <2>2. Named(job.song, l, 0) \in Dir
    BY <1>0, <2>1 DEF Named, Dir
  <2>3. dir' \in past' /\ past' \subseteq Dir
    BY <1>0, <1>3, <2>2 DEF SaveLoop, TypeOK, Rename, l
  <2>4. requests' \in Seq(Request)
    <3>1. [song |-> job.song, loop |-> l] \in Request
      BY <2>1 DEF Request
    <3>2. requests' = requests \/ requests' = Append(requests, [song |-> job.song, loop |-> l])
      BY <1>3 DEF SaveLoop, l
    <3>3. QED
      BY <3>1, <3>2 DEF TypeOK
  <2>5. touched' \subseteq Songs
    BY <1>3, <2>1 DEF SaveLoop, TypeOK
  <2>6. job' \in Job /\ (job'.kind # "none" => job'.song \in Songs)
    BY <1>0, <1>3, <2>1 DEF SaveLoop, Job, Stage
  <2>7. QED
    BY <1>3, <2>3, <2>4, <2>5, <2>6 DEF TypeOK, SaveLoop, screen
<1>4. CASE LoopSaved
  <2> DEFINE l == First(job.left)
             f == Wav(job.song, l)
  <2>1. job.song \in Songs /\ l \in Loops
    BY <1>4, LeastLoop DEF LoopSaved, TypeOK, Job
  <2> HIDE DEF l
  <2>2. file' \in [1..MaxFiles -> File]
    <3>1. file' = file \/ file' = [file EXCEPT ![f] = Flushed(@)]
      BY <1>4 DEF LoopSaved, l
    <3>2. f \in 1..MaxFiles => Flushed(file[f]) \in File
      BY Flushing DEF TypeOK
    <3>3. QED
      BY <3>1, <3>2 DEF TypeOK
  <2>3. Named(job.song, l, 0) \in Dir
    BY <1>0, <2>1 DEF Named, Dir
  <2>4. dir' \in past' /\ past' \subseteq Dir
    BY <1>4, <2>3 DEF LoopSaved, TypeOK, Rename, l
  <2> DEFINE went == [job EXCEPT !.at = "loop", !.left = @ \ {l}]
  <2>5. went \in Job /\ went.song = job.song /\ went.meta \in [Loops -> Take]
        /\ went.short \subseteq Loops
    BY <1>0 DEF Job, Stage
  <2>6. job' = [went EXCEPT !.short = @ \cup {l}] \/ job' = [went EXCEPT !.meta[l] = buffer[l]]
    BY <1>4 DEF LoopSaved, l
  <2> HIDE DEF went
  <2>7. buffer[l] \in Take
    BY <1>0, <2>1
  <2>8. job' \in Job /\ job'.song = job.song
    <3>1. CASE job' = [went EXCEPT !.short = @ \cup {l}]
      BY <2>1, <2>5, <3>1 DEF Job
    <3>2. CASE job' = [went EXCEPT !.meta[l] = buffer[l]]
      <4>1. [went.meta EXCEPT ![l] = buffer[l]] \in [Loops -> Take]
        BY <2>5, <2>7
      <4>2. QED
        BY <2>5, <3>2, <4>1 DEF Job
    <3>3. QED
      BY <2>6, <3>1, <3>2
  <2>9. QED
    BY <1>4, <2>1, <2>2, <2>4, <2>8 DEF TypeOK, LoopSaved, engine, screen
<1>5. CASE LoopNotSaved
  <2>1. job' \in Job /\ job'.kind = "none" /\ result' \in Result
    BY <1>5, FinishType DEF LoopNotSaved
  <2>2. requests' \in Seq(Request)
    <3>1. requests' = <<>> \/ requests' = requests
      BY <1>5 DEF LoopNotSaved
    <3>2. <<>> \in Seq(Request)
      OBVIOUS
    <3>3. QED
      BY <3>1, <3>2 DEF TypeOK
  <2>3. QED
    BY <1>5, <2>1, <2>2 DEF TypeOK, LoopNotSaved, disk, screen
<1>6. CASE WriteManifest
  <2>1. job.song \in Songs
    BY <1>6 DEF WriteManifest, TypeOK
  <2>2. [dir EXCEPT !.song[job.song] = job.meta] \in Dir
    BY <1>0, <2>1 DEF Dir, Job
  <2>3. dir' \in past' /\ past' \subseteq Dir
    BY <1>0, <1>6, <2>2 DEF WriteManifest, TypeOK, Rename
  <2>4. [job EXCEPT !.at = "syncdir"] \in Job /\ [job EXCEPT !.at = "syncdir"].song = job.song
    BY <1>0 DEF Job, Stage
  <2>5. job' \in Job /\ (job'.kind # "none" => job'.song \in Songs) /\ result' \in Result
    BY <1>6, <2>1, <2>4, FinishType DEF WriteManifest, TypeOK
  <2>6. QED
    BY <1>6, <2>3, <2>5 DEF TypeOK, WriteManifest, engine, screen
<1>7. CASE SyncDir
  <2>1. job' \in Job /\ job'.song = job.song /\ job'.kind = job.kind
    BY <1>0, <1>7 DEF SyncDir, Job, Stage
  <2>2. QED
    BY <1>0, <1>7, <2>1 DEF TypeOK, SyncDir, engine, screen
<1>8. CASE Prune
  <2> DEFINE s == job.song
             d == [dir EXCEPT !.wav[s] =
                    [l \in Loops |-> IF job.over /\ job.meta[l] = 0 THEN 0 ELSE @[l]]]
  <2>1. s \in Songs
    BY <1>8 DEF Prune, TypeOK
  <2>2. [l \in Loops |-> IF job.over /\ job.meta[l] = 0 THEN 0 ELSE dir.wav[s][l]]
          \in [Loops -> 0..MaxFiles]
    BY <1>0, <2>1 DEF Dir
  <2>3. d \in Dir
    BY <1>0, <2>1, <2>2 DEF Dir
  <2>4. dir' = d /\ past' = IF d # dir THEN {d} ELSE past
    BY <1>8 DEF Prune
  <2> HIDE DEF d
  <2>5. dir' \in past' /\ past' \subseteq Dir
    BY <2>3, <2>4 DEF TypeOK
  <2>6. job' \in Job /\ (job'.kind # "none" => job'.song \in Songs) /\ result' \in Result
    BY <1>8, FinishType, LoadNextType DEF Prune, TypeOK
  <2>7. QED
    BY <1>8, <2>5, <2>6 DEF TypeOK, Prune, engine, screen
<1>9. CASE BeginLoad
  <2>1. [job EXCEPT !.at = "clear"] \in Job /\ [job EXCEPT !.at = "clear"].song = job.song
        /\ [job EXCEPT !.at = "clear"].kind = job.kind
    BY <1>0 DEF Job, Stage
  <2>2. job' \in Job /\ (job'.kind # "none" => job'.song \in Songs) /\ result' \in Result
    BY <1>9, <2>1, FinishType DEF BeginLoad, TypeOK
  <2>3. QED
    BY <1>9, <2>2 DEF TypeOK, BeginLoad, engine, disk, screen
<1>10. CASE ClearAllLoops
  <2>1. job' \in Job /\ job'.song = job.song /\ job'.kind = job.kind
    BY <1>0, <1>10 DEF ClearAllLoops, Job, Stage
  <2>2. QED
    BY <1>0, <1>10, <2>1 DEF TypeOK, ClearAllLoops, disk, screen
<1>11. CASE LoadLoops
  <2>1. job.song \in Songs
    BY <1>11 DEF LoadLoops, TypeOK
  <2>2. job' \in Job /\ job'.kind = "none" /\ result' \in Result
    BY <1>11, FinishType DEF LoadLoops
  <2>3. \A l \in Loops : Wav(job.song, l) # 0 => Heard(file[Wav(job.song, l)]) \in Take
    <3>1. \A t \in Take : Cut(t) \in Take
      BY SongAssumption DEF Take, Cut
    <3>2. \A x \in File : Heard(x) \in Take
      BY <1>0, <3>1 DEF File, Heard
    <3>3. \A l \in Loops : Wav(job.song, l) # 0 => file[Wav(job.song, l)] \in File
      BY <1>0, <2>1, SongAssumption DEF Wav, Dir, TypeOK
    <3>4. QED
      BY <3>2, <3>3
  <2>4. buffer' \in [Loops -> Take]
    BY <1>0, <1>11, <2>3 DEF LoadLoops
  <2>5. QED
    BY <1>11, <2>2, <2>4 DEF TypeOK, LoadLoops, disk, screen
<1>12. QED
  BY <1>1, <1>2, <1>3, <1>4, <1>5, <1>6, <1>7, <1>8, <1>9, <1>10, <1>11 DEF Work

\* So do the engine, the player and the power.
LEMMA WorldType ==
  ASSUME TypeOK, World
  PROVE  TypeOK'
<1>0. /\ MaxFiles \in Nat /\ MaxTakes \in Nat /\ MaxCuts \in Nat
      /\ 0 \in Take /\ NoTakes \in [Loops -> Take]
  BY SongAssumption DEF Take, NoTakes
<1>1. CASE EngineSaves
  <2>0. PICK r, f : r = Head(requests) /\ f = Wav(r.song, r.loop)
    OBVIOUS
  <2>1. r \in Request /\ Tail(requests) \in Seq(Request)
    BY <1>1, <2>0 DEF EngineSaves, TypeOK
  <2>2. buffer[r.loop] \in Take
    BY <2>1 DEF TypeOK, Request
  <2>3. CASE f = 0
    <3>1. files + 1 \in 1..MaxFiles /\ files + 1 \in 0..MaxFiles /\ files' = files + 1
      BY <1>0, <1>1, <2>0, <2>3 DEF EngineSaves, TypeOK
    <3>2. Named(r.song, r.loop, files + 1) \in Dir
      BY <2>1, <3>1 DEF Named, Dir, TypeOK, Request
    <3>3. dir' = Named(r.song, r.loop, files + 1) /\ past' = past \cup {dir'}
      BY <1>1, <2>0, <2>3 DEF EngineSaves, Rename
    <3>4. file' \in [1..MaxFiles -> File] /\ writing' = files + 1
      <4>1. /\ file' = [file EXCEPT ![files + 1] = NewFile(buffer[r.loop])]
            /\ writing' = files + 1
        BY <1>1, <2>0, <2>3 DEF EngineSaves
      <4>2. QED
        BY <2>2, <4>1, NewFileType DEF TypeOK
    <3>5. QED
      BY <1>1, <2>1, <3>1, <3>2, <3>3, <3>4 DEF EngineSaves, TypeOK, screen
  <2>4. CASE f # 0
    <3>1. /\ file' = [file EXCEPT ![f] = NewFile(buffer[r.loop])] /\ writing' = f
          /\ UNCHANGED <<dir, past, files>>
      BY <1>1, <2>0, <2>4 DEF EngineSaves
    <3>2. file' \in [1..MaxFiles -> File]
      BY <2>2, <3>1, NewFileType DEF TypeOK
    <3>3. f \in 0..MaxFiles
      BY <2>0, <2>1 DEF Wav, TypeOK, Dir, Request
    <3>4. QED
      BY <1>1, <2>1, <3>1, <3>2, <3>3 DEF EngineSaves, TypeOK, screen
  <2>5. QED
    BY <2>3, <2>4
<1>2. CASE PowerCut
  <2>1. dir' \in past' /\ past' \subseteq Dir
    BY <1>2 DEF PowerCut, TypeOK
  <2>2. file' \in [1..MaxFiles -> File]
    <3>1. PICK size \in [1..MaxFiles -> Size] :
            /\ \A f \in 1..MaxFiles : file[f].synced <= size[f] /\ size[f] <= file[f].size
            /\ file' = [f \in 1..MaxFiles |->
                          [file[f] EXCEPT !.size = size[f], !.synced = size[f]]]
      BY <1>2 DEF PowerCut
    <3>2. \A f \in 1..MaxFiles : [file[f] EXCEPT !.size = size[f], !.synced = size[f]] \in File
      <4>1. ASSUME NEW f \in 1..MaxFiles
            PROVE  [file[f] EXCEPT !.size = size[f], !.synced = size[f]] \in File
        <5>1. file[f] \in File /\ size[f] \in Size
          BY DEF TypeOK
        <5>2. QED
          BY <3>1, <5>1, CuttingOff
      <4>2. QED
        BY <4>1
    <3>3. QED
      BY <3>1, <3>2
  <2>3. job' \in Job /\ job'.kind = "none" /\ result' \in Result /\ ui' \in Ui
    BY <1>2, NoJobType DEF PowerCut, Say, Result, Opening, Ui
  <2>4. /\ cuts < MaxCuts /\ cuts' = cuts + 1 /\ UNCHANGED <<takes, files, touched>>
        /\ buffer' = NoTakes /\ requests' = <<>> /\ writing' = 0 /\ busy' = FALSE
    BY <1>2 DEF PowerCut
  <2>5. cuts' \in 0..MaxCuts
    BY <1>0, <2>4 DEF TypeOK
  <2>6. requests' \in Seq(Request) /\ 0 \in 0..MaxFiles
    BY <1>0, <2>4
  <2>7. QED
    BY <1>0, <2>1, <2>2, <2>3, <2>4, <2>5, <2>6 DEF TypeOK
<1>3. ASSUME NEW l \in Loops, Record(l) PROVE TypeOK'
  <2>1. takes + 1 \in Take /\ takes + 1 \in 0..MaxTakes
    BY <1>0, <1>3 DEF Record, TypeOK, Take
  <2>2. QED
    BY <1>3, <2>1 DEF Record, TypeOK, disk, screen
<1>4. ASSUME NEW l \in Loops, Clear(l) PROVE TypeOK'
  BY <1>0, <1>4 DEF Clear, TypeOK, disk, screen
<1>5. CASE EngineWrites
  <2>1. PICK size \in Size :
          /\ size > file[writing].size /\ file' = [file EXCEPT ![writing].size = size]
          /\ writing' = IF size = Full THEN 0 ELSE writing
    BY <1>5 DEF EngineWrites
  <2>2. writing \in 1..MaxFiles
    BY <1>0, <1>5 DEF EngineWrites, TypeOK
  <2>3. [file[writing] EXCEPT !.size = size] \in File
    BY <2>1, <2>2, Growing DEF TypeOK
  <2>4. file' \in [1..MaxFiles -> File] /\ writing' \in 0..MaxFiles
    BY <1>0, <2>1, <2>2, <2>3 DEF TypeOK
  <2>5. QED
    BY <1>5, <2>4 DEF EngineWrites, TypeOK, engine, screen
<1>6. QED
  BY <1>1, <1>2, <1>3, <1>4, <1>5 DEF World

LEMMA TypeKept ==
  ASSUME TypeOK, [Next]_vars
  PROVE  TypeOK'
<1>1. CASE UNCHANGED vars
  BY <1>1 DEF vars, TypeOK
<1>2. QED
  BY <1>1, TapType, WorkType, WorldType DEF Next

-----------------------------------------------------------------------------
(* One worker at a time.                                                    *)

LEMMA Alone ==
  ASSUME TypeOK, WorkIsAlone, [Next]_vars
  PROVE  WorkIsAlone'
<1>1. ASSUME NEW j, Run(j), UNCHANGED result PROVE WorkIsAlone'
  BY <1>1 DEF WorkIsAlone, Run
<1>2. ASSUME NEW s, NEW j, RunFor(s, j), UNCHANGED result PROVE WorkIsAlone'
  BY <1>1, <1>2 DEF WorkIsAlone, RunFor
<1>3. CASE Tap
  <2>1. CASE TapMenu \/ TapBack \/ TapNew \/ \E s \in Songs : TapOverwrite(s)
    BY <2>1 DEF WorkIsAlone, TapMenu, TapBack, TapNew, TapOverwrite, OffScreen
  <2>2. CASE PollResults
    BY <2>2 DEF WorkIsAlone, PollResults
  <2>3. ASSUME NEW s \in Songs, TapLoad(s) \/ EnterName(s) PROVE WorkIsAlone'
    BY <1>1, <2>3 DEF TapLoad, EnterName, OffScreen
  <2>4. ASSUME NEW hit \in {"yes", "no", "cancel"}, Confirm(hit) PROVE WorkIsAlone'
    <3>1. UNCHANGED result
      BY <2>4 DEF Confirm, OffScreen
    <3>2. CASE UNCHANGED <<busy, job>>
      BY <3>1, <3>2 DEF WorkIsAlone
    <3>3. CASE \E s, j : RunFor(s, j)
      BY <1>2, <3>1, <3>3
    <3>4. QED
      BY <2>4, <3>2, <3>3 DEF Confirm
  <2>5. QED
    BY <1>3, <2>1, <2>2, <2>3, <2>4 DEF Tap
<1>4. CASE Work
  <2>1. job.kind # "none" /\ UNCHANGED busy
    BY <1>4 DEF Work, Check, BeginSave, SaveLoop, LoopSaved, LoopNotSaved, WriteManifest,
      SyncDir, Prune, BeginLoad, ClearAllLoops, LoadLoops, screen
  <2>2. job'.kind = "none" \/ UNCHANGED result
    BY <1>4, NoJobType DEF Work, Check, BeginSave, SaveLoop, LoopSaved, LoopNotSaved,
      WriteManifest, SyncDir, Prune, BeginLoad, ClearAllLoops, LoadLoops, Finish
  <2>3. QED
    BY <2>1, <2>2 DEF WorkIsAlone
<1>5. CASE World
  BY <1>5, NoJobType DEF World, EngineSaves, EngineWrites, Record, Clear, PowerCut,
    WorkIsAlone, screen
<1>6. CASE UNCHANGED vars
  BY <1>6 DEF vars, WorkIsAlone
<1>7. QED
  BY <1>3, <1>4, <1>5, <1>6 DEF Next

-----------------------------------------------------------------------------
(* The songs on the card.                                                   *)

\* Recorded, with the files as they are at the time.
RecordedIn(fs, d, s, l) ==
  d.wav[s][l] # 0 /\ Held(fs[d.wav[s][l]], d.song[s][l])

LEMMA Reload ==
  /\ SavedSongsReload <=>
       \A d \in past : \A s \in Songs \ touched : \A l \in Loops :
         d.song[s][l] # 0 => RecordedIn(file, d, s, l)
  /\ SavedSongsReload' <=>
       \A d \in past' : \A s \in Songs \ touched' : \A l \in Loops :
         d.song[s][l] # 0 => RecordedIn(file', d, s, l)
BY DEF SavedSongsReload, Recorded, RecordedIn

\* Nothing is on its way while no save runs: new work starts clean.
LEMMA NewWork ==
  ASSUME IInv, job.kind \in {"none", "check"},
         job'.kind = "save" => job'.at = "start" /\ job'.meta = NoTakes,
         UNCHANGED <<requests, dir, past, file, files, touched>>
  PROVE  Kept'
<1>1. requests' = <<>>
  BY DEF IInv, Kept, RequestIsAwaited
<1>2. FilesAreMade' /\ SavedSongsReload'
  BY DEF IInv, Kept, FilesAreMade, SavedSongsReload, Recorded
<1>3. RequestIsAwaited' /\ NotedIsRecorded' /\ SaveStands'
  BY <1>1 DEF RequestIsAwaited, NotedIsRecorded, SaveStands
<1>4. QED
  BY <1>2, <1>3 DEF Kept

LEMMA TapKeeps ==
  ASSUME IInv, Tap
  PROVE  Kept'
<1>1. UNCHANGED <<engine, disk, touched>>
  BY DEF Tap, TapMenu, TapBack, TapNew, TapOverwrite, TapLoad, EnterName, PollResults, Confirm,
    OffScreen
<1>2. UNCHANGED <<buffer, requests, dir, past, file, files, touched>>
  BY <1>1 DEF engine, disk
<1>3. CASE UNCHANGED job
  BY <1>2, <1>3 DEF IInv, Kept, FilesAreMade, RequestIsAwaited, NotedIsRecorded, SaveStands,
    SavedSongsReload, Recorded, Wav, Exists
<1>4. ASSUME NEW j, Run(j), j.at = "start", j.meta = NoTakes PROVE Kept'
  <2>1. CASE busy
    BY <1>3, <1>4, <2>1 DEF Run
  <2>2. CASE ~busy
    <3>1. job.kind = "none" /\ job' = j
      BY <1>4, <2>2 DEF IInv, WorkIsAlone, Run
    <3>2. QED
      BY <1>2, <1>4, <3>1, NewWork
  <2>3. QED
    BY <2>1, <2>2
<1>5. CASE TapMenu \/ TapBack \/ TapNew \/ PollResults \/ \E s \in Songs : TapOverwrite(s)
  BY <1>3, <1>5 DEF TapMenu, TapBack, TapNew, PollResults, TapOverwrite
<1>6. ASSUME NEW s \in Songs, TapLoad(s) PROVE Kept'
  BY <1>4, <1>6, NewJobType DEF TapLoad
<1>7. ASSUME NEW s \in Songs, EnterName(s) PROVE Kept'
  <2>1. ui.after \in Songs \cup {None}
    BY DEF IInv, TypeOK, Ui
  <2>2. Run([NewJob("save", s) EXCEPT !.next = ui.after])
    BY <1>7 DEF EnterName
  <2>3. QED
    BY <1>4, <2>1, <2>2, ToldJobType
<1>8. ASSUME NEW hit \in {"yes", "no", "cancel"}, Confirm(hit) PROVE Kept'
  <2>1. ASSUME NEW s \in Songs \cup {None},
               RunFor(s, [NewJob("save", s) EXCEPT !.over = TRUE])
        PROVE  Kept'
    <3>1. CASE s = None
      BY <1>3, <2>1, <3>1 DEF RunFor
    <3>2. CASE s # None
      <4>1. Run([NewJob("save", s) EXCEPT !.over = TRUE])
        BY <2>1, <3>2 DEF RunFor
      <4>2. QED
        BY <1>4, <3>2, <4>1, ToldJobType
    <3>3. QED
      BY <3>1, <3>2
  <2>2. ASSUME NEW s \in Songs \cup {None},
               RunFor(s, [NewJob("load", s) EXCEPT !.chosen = TRUE])
        PROVE  Kept'
    <3>1. CASE s = None
      BY <1>3, <2>2, <3>1 DEF RunFor
    <3>2. CASE s # None
      <4>1. Run([NewJob("load", s) EXCEPT !.chosen = TRUE])
        BY <2>2, <3>2 DEF RunFor
      <4>2. QED
        BY <1>4, <3>2, <4>1, ToldJobType
    <3>3. QED
      BY <3>1, <3>2
  <2>3. ui.selected \in Songs \cup {None} /\ ui.pending \in Songs \cup {None}
    BY DEF IInv, TypeOK, Ui
  <2>4. QED
    BY <1>3, <1>8, <2>1, <2>2, <2>3 DEF Confirm
<1>9. QED
  BY <1>5, <1>6, <1>7, <1>8 DEF Tap

\* When the worker stops or turns to a load, only the disk is left to speak of.
LEMMA SaveOver ==
  ASSUME IInv, job'.kind # "save", requests' = <<>>,
         UNCHANGED <<dir, past, file, files>>, touched \subseteq touched'
  PROVE  Kept'
<1>1. FilesAreMade' /\ SavedSongsReload'
  BY DEF IInv, Kept, FilesAreMade, SavedSongsReload, Recorded
<1>2. RequestIsAwaited' /\ NotedIsRecorded' /\ SaveStands'
  BY DEF RequestIsAwaited, NotedIsRecorded, SaveStands
<1>3. QED
  BY <1>1, <1>2 DEF Kept

\* A name taken from a file of a song that is being saved over hurts no other.
LEMMA Unnaming ==
  ASSUME IInv, NEW s \in Songs, NEW l \in Loops, Rename(Named(s, l, 0)),
         UNCHANGED <<file, files>>, touched \subseteq touched', s \in touched' \/ ~Exists(s)
  PROVE  /\ dir'.song = dir.song /\ dir'.wav[s][l] = 0
         /\ \A t \in Songs, k \in Loops : <<t, k>> # <<s, l>> => dir'.wav[t][k] = dir.wav[t][k]
         /\ FilesAreMade' /\ SavedSongsReload'
<1>1. /\ dir'.song = dir.song /\ dir'.wav[s][l] = 0
      /\ \A t \in Songs, k \in Loops : <<t, k>> # <<s, l>> => dir'.wav[t][k] = dir.wav[t][k]
      /\ past' = past \cup {dir'}
  BY DEF Rename, Named, Dir, IInv, TypeOK
<1>2. FilesAreMade'
  <2>1. \A t \in Songs, k \in Loops : dir'.wav[t][k] <= files
    <3>1. \A t \in Songs, k \in Loops : dir.wav[t][k] <= files
      BY DEF IInv, Kept, FilesAreMade, TypeOK
    <3>2. 0 <= files
      BY SongAssumption DEF IInv, TypeOK
    <3>3. QED
      BY <1>1, <3>1, <3>2
  <2>2. QED
    BY <1>1, <2>1 DEF IInv, Kept, FilesAreMade
<1>3. SavedSongsReload'
  <2>1. s \in touched' \/ dir.song[s] = NoTakes
    BY DEF Exists
  <2>2. ASSUME NEW t \in Songs \ touched', NEW k \in Loops, dir'.song[t][k] # 0
        PROVE  RecordedIn(file', dir', t, k)
    <3>1. t # s
      BY <1>1, <2>1, <2>2 DEF NoTakes
    <3>2. dir'.wav[t][k] = dir.wav[t][k] /\ t \notin touched
      BY <1>1, <2>2, <3>1
    <3>3. RecordedIn(file, dir, t, k)
      BY <1>1, <2>2, <3>2, Reload DEF IInv, Kept, TypeOK
    <3>4. QED
      BY <1>1, <3>2, <3>3 DEF RecordedIn
  <2>3. ASSUME NEW d \in past, NEW t \in Songs \ touched', NEW k \in Loops, d.song[t][k] # 0
        PROVE  RecordedIn(file', d, t, k)
    BY <2>3, Reload DEF IInv, Kept
  <2>4. QED
    BY <1>1, <2>2, <2>3, Reload
<1>4. QED
  BY <1>1, <1>2, <1>3

LEMMA SaveLoopKeeps ==
  ASSUME IInv, SaveLoop
  PROVE  Kept'
<1> DEFINE l == First(job.left)
           s == job.song
<1>0. /\ job.kind = "save" /\ job.at = "loop" /\ job.left # {} /\ job \in Job
      /\ s \in Songs /\ l \in Loops /\ l \in job.left /\ dir \in Dir /\ past \subseteq Dir
  BY LeastLoop DEF SaveLoop, IInv, TypeOK, Job
<1>a. requests = <<>> /\ UNCHANGED <<buffer, file, files>>
  BY <1>0 DEF SaveLoop, IInv, Kept, RequestIsAwaited
<1>1. CASE /\ job' = [job EXCEPT !.left = @ \ {l}]
           /\ UNCHANGED <<requests, dir, past, touched>>
  <2>1. /\ job'.kind = "save" /\ job'.at = "loop" /\ job'.song = s /\ job'.meta = job.meta
        /\ job'.left \subseteq job.left
    BY <1>0, <1>1 DEF Job
  <2>2. FilesAreMade' /\ SavedSongsReload'
    BY <1>a, <1>1 DEF IInv, Kept, FilesAreMade, SavedSongsReload, Recorded
  <2>3. RequestIsAwaited'
    BY <1>a, <1>1 DEF RequestIsAwaited
  <2>4. NotedIsRecorded' /\ SaveStands'
    BY <1>0, <1>a, <1>1, <2>1 DEF IInv, Kept, NotedIsRecorded, SaveStands, Wav
  <2>5. QED
    BY <2>2, <2>3, <2>4 DEF Kept
<1>2. CASE /\ Rename(Named(s, l, 0))
           /\ requests' = Append(requests, [song |-> s, loop |-> l])
           /\ touched' = IF Exists(s) THEN touched \cup {s} ELSE touched
           /\ job' = [job EXCEPT !.at = "wait"]
  <2>1. /\ job'.kind = "save" /\ job'.at = "wait" /\ job'.song = s /\ job'.meta = job.meta
        /\ job'.left = job.left
    BY <1>0, <1>2 DEF Job
  <2> HIDE DEF s, l
  <2>2. /\ dir'.song = dir.song /\ dir'.wav[s][l] = 0
        /\ \A t \in Songs, k \in Loops : <<t, k>> # <<s, l>> => dir'.wav[t][k] = dir.wav[t][k]
        /\ FilesAreMade' /\ SavedSongsReload'
    <3>1. touched \subseteq touched' /\ (s \in touched' \/ ~Exists(s))
      BY <1>2
    <3>2. QED
      BY <1>0, <1>a, <1>2, <3>1, Unnaming
  <2>5. RequestIsAwaited'
    <3>1. requests' = <<[song |-> s, loop |-> l]>>
      BY <1>a, <1>2
    <3>2. QED
      BY <2>1, <2>2, <3>1 DEF RequestIsAwaited, Wav, l
  <2>6. NotedIsRecorded'
    <3>1. job.meta[l] = 0
      BY <1>0 DEF IInv, Kept, SaveStands
    <3>2. \A k \in Loops : job.meta[k] # 0 => dir'.wav[s][k] = dir.wav[s][k]
      BY <1>0, <2>2, <3>1
    <3>3. QED
      BY <1>0, <1>a, <2>1, <3>2 DEF IInv, Kept, NotedIsRecorded, Wav, s
  <2>7. SaveStands'
    <3>1. \A k \in job'.left : job'.meta[k] = 0
      BY <1>0, <2>1 DEF IInv, Kept, SaveStands
    <3>2. s \in touched' \/ dir'.song[s] = NoTakes
      BY <1>2, <2>2 DEF Exists
    <3>3. QED
      BY <1>0, <2>1, <2>2, <3>1, <3>2 DEF SaveStands, Wav, Exists, l
  <2>8. QED
    BY <2>2, <2>5, <2>6, <2>7 DEF Kept
<1>3. QED
  BY <1>1, <1>2 DEF SaveLoop

\* A loop whose file is too short is left out of the song being saved.
LEMMA LoopLeftOutKeeps ==
  ASSUME IInv, NEW l, l = First(job.left), job.kind = "save", job.at = "wait",
         Wav(job.song, l) # 0, Rename(Named(job.song, l, 0)),
         job'.kind = "save", job'.at = "loop", job'.song = job.song,
         job'.left \subseteq job.left, job'.meta = job.meta,
         UNCHANGED <<buffer, requests, file, files, touched>>
  PROVE  Kept'
<1> DEFINE s == job.song
<1>0. /\ s \in Songs /\ l \in Loops /\ l \in job.left /\ job.meta[l] = 0
      /\ s \in touched \/ ~Exists(s)
  BY LeastLoop DEF IInv, Kept, SaveStands, TypeOK, Job
<1>1. requests' = <<>>
  BY DEF IInv, Kept, RequestIsAwaited
<1> HIDE DEF s
<1>2. /\ \A t \in Songs, k \in Loops : <<t, k>> # <<s, l>> => dir'.wav[t][k] = dir.wav[t][k]
      /\ FilesAreMade' /\ SavedSongsReload'
  BY <1>0, Unnaming DEF s
<1>3. RequestIsAwaited'
  BY <1>1 DEF RequestIsAwaited
<1>4. NotedIsRecorded'
  <2>1. \A k \in Loops : job.meta[k] # 0 => dir'.wav[s][k] = dir.wav[s][k]
    BY <1>0, <1>2
  <2>2. QED
    BY <2>1 DEF IInv, Kept, NotedIsRecorded, Wav, s
<1>5. SaveStands'
  BY DEF IInv, Kept, SaveStands
<1>6. QED
  BY <1>2, <1>3, <1>4, <1>5 DEF Kept

\* Any other is flushed as it is, and noted.
LEMMA LoopNotedKeeps ==
  ASSUME IInv, NEW l, l = First(job.left), job.kind = "save", job.at = "wait",
         NEW f, f = Wav(job.song, l), f # 0, file[f].size \notin {Header, Short},
         file' = [file EXCEPT ![f] = Flushed(@)],
         job'.kind = "save", job'.at = "loop", job'.song = job.song,
         job'.meta = [job.meta EXCEPT ![l] = buffer[l]], job'.left = job.left \ {l},
         UNCHANGED <<buffer, requests, dir, past, files, touched>>
  PROVE  Kept'
<1> DEFINE s == job.song
<1>0. /\ s \in Songs /\ l \in Loops /\ l \in job.left /\ dir \in Dir
      /\ file \in [1..MaxFiles -> File] /\ job.meta \in [Loops -> Take]
  BY LeastLoop DEF IInv, Kept, SaveStands, TypeOK, Job
<1>1. requests' = <<>>
  BY DEF IInv, Kept, RequestIsAwaited
<1>2. f \in 1..MaxFiles /\ file[f] \in File /\ file[f].take = buffer[l]
  <2>0. \A t \in Songs, k \in Loops : Wav(t, k) \in 0..MaxFiles
    BY <1>0 DEF Wav, Dir
  <2>1. f \in 1..MaxFiles
    <3>1. \A w \in 0..MaxFiles : w # 0 => w \in 1..MaxFiles
      BY SongAssumption
    <3>2. QED
      BY <1>0, <2>0, <3>1
  <2>2. QED
    BY <1>0, <2>1 DEF IInv, Kept, SaveStands
<1>3. file'[f] = Flushed(file[f]) /\ \A g \in 1..MaxFiles : g # f => file'[g] = file[g]
  BY <1>0, <1>2
<1>4. Held(file'[f], buffer[l])
  BY <1>2, <1>3, Flushing
<1>5. \A g \in 1..MaxFiles : \A t : Held(file[g], t) => Held(file'[g], t)
  <2>1. \A t : Held(file[f], t) => t = buffer[l]
    BY <1>2 DEF Held
  <2>2. QED
    BY <1>3, <1>4, <2>1
<1>6. \A d \in past, t \in Songs, k \in Loops :
        RecordedIn(file, d, t, k) => RecordedIn(file', d, t, k)
  <2>1. ASSUME NEW d \in past, NEW t \in Songs, NEW k \in Loops, RecordedIn(file, d, t, k)
        PROVE  RecordedIn(file', d, t, k)
    <3>1. d.wav[t][k] \in 1..MaxFiles
      BY <2>1, SongAssumption DEF RecordedIn, IInv, TypeOK, Dir
    <3>2. QED
      BY <1>5, <2>1, <3>1 DEF RecordedIn
  <2>2. QED
    BY <2>1
<1> HIDE DEF s
<1>7. SavedSongsReload'
  BY <1>6, Reload DEF IInv, Kept
<1>8. FilesAreMade' /\ RequestIsAwaited'
  BY <1>1 DEF IInv, Kept, FilesAreMade, RequestIsAwaited
<1>9. NotedIsRecorded'
  <2>1. ASSUME NEW k \in Loops, job'.meta[k] # 0
        PROVE  dir.wav[s][k] # 0 /\ Held(file'[dir.wav[s][k]], job'.meta[k])
    <3>1. CASE k = l
      BY <1>0, <1>4, <3>1 DEF Wav, s
    <3>2. CASE k # l
      <4>1. job'.meta[k] = job.meta[k]
        BY <1>0, <3>2
      <4>2. dir.wav[s][k] # 0 /\ Held(file[dir.wav[s][k]], job.meta[k])
        BY <2>1, <4>1 DEF IInv, Kept, NotedIsRecorded, Wav, s
      <4>3. dir.wav[s][k] \in 1..MaxFiles
        BY <1>0, <4>2, SongAssumption DEF Dir
      <4>4. QED
        BY <1>5, <4>1, <4>2, <4>3
    <3>3. QED
      BY <3>1, <3>2
  <2>2. QED
    BY <2>1 DEF NotedIsRecorded, Wav, s
<1>10. SaveStands'
  <2>1. \A k \in job.left : job.meta[k] = 0
    BY DEF IInv, Kept, SaveStands
  <2>2. \A k \in job'.left : job'.meta[k] = 0
    BY <1>0, <2>1
  <2>3. QED
    BY <2>2 DEF SaveStands
<1>11. QED
  BY <1>7, <1>8, <1>9, <1>10 DEF Kept

\* What a file that landed makes of the worker.
LEMMA LoopSavedCases ==
  ASSUME IInv, LoopSaved, NEW l, l = First(job.left), NEW f, f = Wav(job.song, l)
  PROVE  /\ job.kind = "save" /\ job.at = "wait" /\ f # 0 /\ l \in Loops /\ l \in job.left
         /\ job'.kind = "save" /\ job'.at = "loop" /\ job'.song = job.song
         /\ job'.left = job.left \ {l}
         /\ UNCHANGED <<buffer, requests, files, touched>>
         /\ \/ /\ Rename(Named(job.song, l, 0)) /\ UNCHANGED file
               /\ job'.meta = job.meta /\ job'.short = job.short \cup {l}
            \/ /\ file[f].size \notin {Header, Short} /\ file' = [file EXCEPT ![f] = Flushed(@)]
               /\ UNCHANGED <<dir, past>>
               /\ job'.meta = [job.meta EXCEPT ![l] = buffer[l]] /\ job'.short = job.short
<1>1. /\ job.kind = "save" /\ job.at = "wait" /\ Landed(job.song, l) /\ job \in Job
      /\ UNCHANGED <<buffer, requests, files, touched>>
  BY DEF LoopSaved, engine, IInv, TypeOK
<1>2. l \in Loops /\ l \in job.left
  BY LeastLoop DEF LoopSaved, IInv, TypeOK, Job
<1>3. f # 0 /\ file[f].size # Header
  BY <1>1 DEF Landed, Header
<1> DEFINE went == [job EXCEPT !.at = "loop", !.left = @ \ {l}]
<1>4. /\ went \in Job /\ went.kind = "save" /\ went.at = "loop" /\ went.song = job.song
      /\ went.left = job.left \ {l} /\ went.meta = job.meta /\ went.short = job.short
  BY <1>1 DEF Job, Stage
<1>5. \/ /\ Rename(Named(job.song, l, 0)) /\ UNCHANGED file
         /\ job' = [went EXCEPT !.short = @ \cup {l}]
      \/ /\ file[f].size # Short /\ file' = [file EXCEPT ![f] = Flushed(@)]
         /\ UNCHANGED <<dir, past>>
         /\ job' = [went EXCEPT !.meta[l] = buffer[l]]
  BY DEF LoopSaved
<1> HIDE DEF went
<1>6. CASE /\ Rename(Named(job.song, l, 0)) /\ UNCHANGED file
           /\ job' = [went EXCEPT !.short = @ \cup {l}]
  <2>1. /\ job'.kind = "save" /\ job'.at = "loop" /\ job'.song = job.song
        /\ job'.left = job.left \ {l} /\ job'.meta = job.meta /\ job'.short = job.short \cup {l}
    BY <1>4, <1>6 DEF Job
  <2>2. QED
    BY <1>1, <1>2, <1>3, <1>6, <2>1
<1>7. CASE /\ file[f].size # Short /\ file' = [file EXCEPT ![f] = Flushed(@)]
           /\ UNCHANGED <<dir, past>>
           /\ job' = [went EXCEPT !.meta[l] = buffer[l]]
  <2>1. /\ job'.kind = "save" /\ job'.at = "loop" /\ job'.song = job.song
        /\ job'.left = job.left \ {l} /\ job'.short = job.short
        /\ job'.meta = [job.meta EXCEPT ![l] = buffer[l]]
    BY <1>4, <1>7 DEF Job
  <2>2. QED
    BY <1>1, <1>2, <1>3, <1>7, <2>1
<1>8. QED
  BY <1>5, <1>6, <1>7

LEMMA LoopSavedKeeps ==
  ASSUME IInv, LoopSaved
  PROVE  Kept'
<1> DEFINE l == First(job.left)
           f == Wav(job.song, l)
<1> HIDE DEF l, f
<1>1. /\ job.kind = "save" /\ job.at = "wait" /\ f # 0
      /\ job'.kind = "save" /\ job'.at = "loop" /\ job'.song = job.song
      /\ job'.left = job.left \ {l}
      /\ UNCHANGED <<buffer, requests, files, touched>>
      /\ \/ /\ Rename(Named(job.song, l, 0)) /\ UNCHANGED file
            /\ job'.meta = job.meta
         \/ /\ file[f].size \notin {Header, Short} /\ file' = [file EXCEPT ![f] = Flushed(@)]
            /\ UNCHANGED <<dir, past>>
            /\ job'.meta = [job.meta EXCEPT ![l] = buffer[l]]
  BY LoopSavedCases DEF l, f
<1>2. CASE Rename(Named(job.song, l, 0)) /\ UNCHANGED file /\ job'.meta = job.meta
  BY <1>1, <1>2, LoopLeftOutKeeps DEF l, f
<1>3. CASE /\ file[f].size \notin {Header, Short} /\ file' = [file EXCEPT ![f] = Flushed(@)]
           /\ UNCHANGED <<dir, past>>
           /\ job'.meta = [job.meta EXCEPT ![l] = buffer[l]]
  BY <1>1, <1>3, LoopNotedKeeps DEF l, f
<1>4. QED
  BY <1>1, <1>2, <1>3

LEMMA WriteManifestKeeps ==
  ASSUME IInv, WriteManifest
  PROVE  Kept'
<1> DEFINE s == job.song
<1>0. /\ job.kind = "save" /\ job.at = "loop" /\ job.left = {} /\ job \in Job
      /\ s \in Songs /\ dir \in Dir
  BY DEF WriteManifest, IInv, TypeOK
<1>1. requests = <<>> /\ UNCHANGED <<buffer, requests, file, files, touched>>
  BY <1>0 DEF WriteManifest, IInv, Kept, RequestIsAwaited, engine
<1>2. CASE Finish("failed") /\ UNCHANGED <<dir, past>>
  BY <1>1, <1>2, FinishType, SaveOver DEF IInv
<1>3. CASE /\ Rename([dir EXCEPT !.song[s] = job.meta])
           /\ job' = [job EXCEPT !.at = "syncdir"]
  <2>1. /\ job'.kind = "save" /\ job'.at = "syncdir" /\ job'.song = s /\ job'.meta = job.meta
    BY <1>0, <1>3 DEF Job
  <2>2. /\ dir'.wav = dir.wav /\ dir'.song[s] = job.meta
        /\ \A t \in Songs : t # s => dir'.song[t] = dir.song[t]
        /\ past' = past \cup {dir'}
    BY <1>0, <1>3 DEF Rename, Dir
  <2>3. \A k \in Loops : job.meta[k] # 0 => RecordedIn(file, dir', s, k)
    BY <1>0, <2>2 DEF IInv, Kept, NotedIsRecorded, Wav, RecordedIn
  <2> HIDE DEF s
  <2>4. FilesAreMade'
    BY <1>1, <2>2 DEF IInv, Kept, FilesAreMade, TypeOK
  <2>5. SavedSongsReload'
    <3>1. ASSUME NEW t \in Songs \ touched, NEW k \in Loops, dir'.song[t][k] # 0
          PROVE  RecordedIn(file, dir', t, k)
      <4>1. CASE t = s
        BY <2>2, <2>3, <3>1, <4>1
      <4>2. CASE t # s
        BY <2>2, <3>1, <4>2, Reload DEF IInv, Kept, TypeOK, RecordedIn
      <4>3. QED
        BY <4>1, <4>2
    <3>2. QED
      BY <1>1, <2>2, <3>1, Reload DEF IInv, Kept
  <2>6. RequestIsAwaited'
    BY <1>1 DEF RequestIsAwaited
  <2>7. NotedIsRecorded' /\ SaveStands'
    BY <1>1, <2>1, <2>2, <2>3 DEF NotedIsRecorded, SaveStands, Wav, RecordedIn
  <2>8. QED
    BY <2>4, <2>5, <2>6, <2>7 DEF Kept
<1>4. QED
  BY <1>2, <1>3 DEF WriteManifest

LEMMA SyncDirKeeps ==
  ASSUME IInv, SyncDir
  PROVE  Kept'
<1> DEFINE s == job.song
<1>0. /\ job.kind = "save" /\ job.at = "syncdir" /\ job \in Job
      /\ s \in Songs /\ dir \in Dir /\ dir.song[s] = job.meta
  BY DEF SyncDir, IInv, Kept, SaveStands, TypeOK
<1>1. /\ requests = <<>> /\ UNCHANGED <<buffer, requests, dir, file, files>>
      /\ past' = {dir} /\ touched' = touched \ {s}
  BY <1>0 DEF SyncDir, IInv, Kept, RequestIsAwaited, engine
<1>2. job'.kind = "save" /\ job'.at = "prune" /\ job'.song = s /\ job'.meta = job.meta
  BY <1>0 DEF SyncDir, Job
<1>3. \A k \in Loops : dir.song[s][k] # 0 => RecordedIn(file, dir, s, k)
  BY <1>0 DEF IInv, Kept, NotedIsRecorded, Wav, RecordedIn
<1>4. SavedSongsReload'
  BY <1>1, <1>3, Reload DEF IInv, Kept, TypeOK
<1>5. FilesAreMade' /\ RequestIsAwaited'
  BY <1>1 DEF IInv, Kept, FilesAreMade, RequestIsAwaited, TypeOK
<1>6. NotedIsRecorded' /\ SaveStands'
  BY <1>0, <1>1, <1>2 DEF IInv, Kept, NotedIsRecorded, SaveStands, Wav
<1>7. QED
  BY <1>4, <1>5, <1>6 DEF Kept

LEMMA PruneKeeps ==
  ASSUME IInv, Prune
  PROVE  Kept'
<1> DEFINE s == job.song
<1>0. /\ job.kind = "save" /\ job.at = "prune" /\ job \in Job
      /\ s \in Songs /\ dir \in Dir /\ dir.song[s] = job.meta
  BY DEF Prune, IInv, Kept, SaveStands, TypeOK
<1>1. requests = <<>> /\ UNCHANGED <<buffer, requests, file, files, touched>>
  BY <1>0 DEF Prune, IInv, Kept, RequestIsAwaited, engine
<1>2. /\ dir'.song = dir.song
      /\ \A t \in Songs : t # s => dir'.wav[t] = dir.wav[t]
      /\ \A k \in Loops : dir'.wav[s][k] \in {0, dir.wav[s][k]}
      /\ \A k \in Loops : job.meta[k] # 0 => dir'.wav[s][k] = dir.wav[s][k]
      /\ past' \subseteq past \cup {dir'}
  <2>1. /\ dir' = [dir EXCEPT !.wav[s] =
                 [l \in Loops |-> IF job.over /\ job.meta[l] = 0 THEN 0 ELSE @[l]]]
        /\ past' = IF dir' # dir THEN {dir'} ELSE past
    BY DEF Prune
  <2>2. dir'.song = dir.song /\ \A t \in Songs : t # s => dir'.wav[t] = dir.wav[t]
    BY <1>0, <2>1 DEF Dir
  <2>3. dir'.wav[s] = [l \in Loops |-> IF job.over /\ job.meta[l] = 0 THEN 0 ELSE dir.wav[s][l]]
    BY <1>0, <2>1 DEF Dir
  <2>4. QED
    BY <2>1, <2>2, <2>3
<1>3. SavedSongsReload'
  <2>1. ASSUME NEW t \in Songs \ touched, NEW k \in Loops, dir'.song[t][k] # 0
        PROVE  RecordedIn(file, dir', t, k)
    <3>1. RecordedIn(file, dir, t, k)
      BY <1>2, <2>1, Reload DEF IInv, Kept, TypeOK
    <3>2. dir'.wav[t][k] = dir.wav[t][k]
      BY <1>0, <1>2, <2>1
    <3>3. QED
      BY <1>2, <3>1, <3>2 DEF RecordedIn
  <2>2. QED
    BY <1>1, <1>2, <2>1, Reload DEF IInv, Kept
<1>4. FilesAreMade'
  <2>1. 0 <= files
    BY SongAssumption DEF IInv, TypeOK
  <2>2. \A t \in Songs, k \in Loops : dir.wav[t][k] <= files
    BY DEF IInv, Kept, FilesAreMade, TypeOK
  <2>3. \A t \in Songs, k \in Loops : dir'.wav[t][k] <= files
    BY <1>2, <2>1, <2>2
  <2>4. QED
    BY <1>1, <1>2, <2>3 DEF IInv, Kept, FilesAreMade
<1>5. RequestIsAwaited'
  BY <1>1 DEF RequestIsAwaited
<1>6. job'.kind # "save"
  BY NoJobType, LoadNextType, NewJobType DEF Prune, IInv, Finish, TypeOK, Job
<1>7. NotedIsRecorded' /\ SaveStands'
  BY <1>6 DEF NotedIsRecorded, SaveStands
<1>8. QED
  BY <1>3, <1>4, <1>5, <1>7 DEF Kept

LEMMA BeginSaveKeeps ==
  ASSUME IInv, BeginSave
  PROVE  Kept'
<1>0. job.kind = "save" /\ job.at = "start" /\ job \in Job /\ job.meta = NoTakes
  BY DEF BeginSave, IInv, Kept, SaveStands, TypeOK
<1>1. requests = <<>> /\ UNCHANGED <<buffer, requests, dir, past, file, files, touched>>
  BY <1>0 DEF BeginSave, IInv, Kept, RequestIsAwaited, engine, disk
<1>2. CASE Finish("failed")
  BY <1>1, <1>2, FinishType, SaveOver DEF IInv
<1>3. CASE job' = [job EXCEPT !.at = "loop", !.left = Loops]
  <2>1. job'.kind = "save" /\ job'.at = "loop" /\ job'.meta = NoTakes /\ job'.left = Loops
    BY <1>0, <1>3 DEF Job
  <2>2. FilesAreMade' /\ SavedSongsReload'
    BY <1>1 DEF IInv, Kept, FilesAreMade, SavedSongsReload, Recorded
  <2>3. RequestIsAwaited' /\ NotedIsRecorded' /\ SaveStands'
    BY <1>1, <2>1 DEF RequestIsAwaited, NotedIsRecorded, SaveStands, NoTakes
  <2>4. QED
    BY <2>2, <2>3 DEF Kept
<1>4. QED
  BY <1>2, <1>3 DEF BeginSave

LEMMA WorkKeeps ==
  ASSUME IInv, Steady, Work
  PROVE  Kept'
<1>1. CASE Check
  <2>1. job'.kind \in {"none", "load"}
    BY <1>1, NoJobType, NewJobType DEF Check, IInv, TypeOK
  <2>2. QED
    BY <1>1, <2>1, NewWork DEF Check, engine, disk
<1>2. CASE LoopNotSaved
  <2>1. requests' = <<>> /\ job'.kind = "none"
    BY <1>2, FinishType DEF LoopNotSaved, Steady, IInv
  <2>2. QED
    BY <1>2, <2>1, SaveOver DEF LoopNotSaved, disk
<1>3. CASE BeginLoad \/ ClearAllLoops \/ LoadLoops
  <2>1. job.kind = "load" /\ requests' = <<>> /\ UNCHANGED <<dir, past, file, files, touched>>
    BY <1>3 DEF IInv, Kept, RequestIsAwaited, BeginLoad, ClearAllLoops, LoadLoops, engine, disk
  <2>2. job'.kind \in {"none", "load"}
    <3>1. job \in Job
      BY DEF IInv, TypeOK
    <3>2. QED
      BY <1>3, <2>1, <3>1, NoJobType DEF BeginLoad, ClearAllLoops, LoadLoops, Finish, Job
  <2>3. QED
    BY <2>1, <2>2, SaveOver
<1>4. QED
  BY <1>1, <1>2, <1>3, BeginSaveKeeps, SaveLoopKeeps, LoopSavedKeeps, WriteManifestKeeps,
    SyncDirKeeps, PruneKeeps DEF Work

LEMMA EngineSavesKeeps ==
  ASSUME IInv, EngineSaves
  PROVE  Kept'
<1> DEFINE l == First(job.left)
           s == job.song
<1>0. /\ job.kind = "save" /\ job.at = "wait" /\ job.left # {} /\ job \in Job
      /\ s \in Songs /\ l \in Loops /\ l \in job.left /\ dir \in Dir /\ dir.wav[s][l] = 0
      /\ requests = <<[song |-> s, loop |-> l]>>
      /\ s \in touched \/ dir.song[s] = NoTakes
  BY LeastLoop DEF EngineSaves, IInv, Kept, RequestIsAwaited, SaveStands, TypeOK, Job, Wav, Exists
<1>a. job.meta[l] = 0
  BY <1>0 DEF IInv, Kept, SaveStands
<1> DEFINE n == files + 1
           new == NewFile(buffer[l])
<1>1. /\ files < MaxFiles /\ files' = n /\ file' = [file EXCEPT ![n] = new]
      /\ Rename(Named(s, l, n)) /\ requests' = <<>>
      /\ UNCHANGED <<buffer, touched, job>>
  <2> HIDE DEF s, l
  <2>1. PICK r : r = Head(requests) /\ r.song = s /\ r.loop = l /\ Tail(requests) = <<>>
    BY <1>0
  <2>2. Wav(r.song, r.loop) = 0
    BY <1>0, <2>1 DEF Wav
  <2>3. QED
    BY <2>1, <2>2 DEF EngineSaves, screen
<1>2. n \in 1..MaxFiles /\ files \in 0..MaxFiles /\ file \in [1..MaxFiles -> File]
  BY <1>1, SongAssumption DEF IInv, TypeOK
<1>3. file'[n] = new /\ \A g \in 1..MaxFiles : g # n => file'[g] = file[g]
  BY <1>1, <1>2
<1>4. /\ dir'.song = dir.song /\ dir'.wav[s][l] = n
      /\ \A t \in Songs, k \in Loops : <<t, k>> # <<s, l>> => dir'.wav[t][k] = dir.wav[t][k]
      /\ past' = past \cup {dir'}
  BY <1>0, <1>1 DEF Rename, Named, Dir
<1>5. \A d \in past, t \in Songs, k \in Loops : d.wav[t][k] \in 0..MaxFiles /\ d.wav[t][k] < n
  BY <1>2 DEF IInv, Kept, FilesAreMade, TypeOK, Dir
<1> HIDE DEF s, l, n, new
<1>6. \A d \in past, t \in Songs, k \in Loops :
        RecordedIn(file, d, t, k) => RecordedIn(file', d, t, k)
  <2>1. ASSUME NEW d \in past, NEW t \in Songs, NEW k \in Loops, RecordedIn(file, d, t, k)
        PROVE  RecordedIn(file', d, t, k)
    <3>1. d.wav[t][k] \in 1..MaxFiles /\ d.wav[t][k] # n
      BY <1>2, <1>5, <2>1, SongAssumption DEF RecordedIn
    <3>2. QED
      BY <1>3, <2>1, <3>1 DEF RecordedIn
  <2>2. QED
    BY <2>1
<1>7. FilesAreMade'
  <2>1. \A d \in past, t \in Songs, k \in Loops : d.wav[t][k] <= n
    BY <1>2, <1>5
  <2>2. \A t \in Songs, k \in Loops : dir'.wav[t][k] <= n
    <3>1. n <= n
      BY <1>2
    <3>2. dir \in past
      BY DEF IInv, TypeOK
    <3>3. QED
      BY <1>4, <2>1, <3>1, <3>2
  <2>3. QED
    BY <1>1, <1>4, <2>1, <2>2 DEF FilesAreMade, n
<1>8. SavedSongsReload'
  <2>1. ASSUME NEW t \in Songs \ touched, NEW k \in Loops, dir'.song[t][k] # 0
        PROVE  RecordedIn(file', dir', t, k)
    <3>1. t # s
      BY <1>0, <1>4, <2>1 DEF NoTakes
    <3>2. RecordedIn(file, dir, t, k)
      BY <1>4, <2>1, Reload DEF IInv, Kept, TypeOK
    <3>3. RecordedIn(file', dir, t, k)
      BY <1>6, <3>2 DEF IInv, TypeOK
    <3>4. QED
      BY <1>4, <3>1, <3>3 DEF RecordedIn
  <2>2. ASSUME NEW d \in past, NEW t \in Songs \ touched, NEW k \in Loops, d.song[t][k] # 0
        PROVE  RecordedIn(file', d, t, k)
    BY <1>6, <2>2, Reload DEF IInv, Kept
  <2>3. touched' = touched /\ past' = past \cup {dir'}
    BY <1>1, <1>4
  <2>4. QED
    BY <2>1, <2>2, <2>3, Reload
<1>9. RequestIsAwaited'
  BY <1>1 DEF RequestIsAwaited
<1>10. NotedIsRecorded'
  <2>1. ASSUME NEW k \in Loops, job.meta[k] # 0
        PROVE  dir'.wav[s][k] # 0 /\ Held(file'[dir'.wav[s][k]], job.meta[k])
    <3>1. k # l
      BY <1>a, <2>1
    <3>2. dir.wav[s][k] # 0 /\ Held(file[dir.wav[s][k]], job.meta[k])
      BY <1>0, <2>1 DEF IInv, Kept, NotedIsRecorded, Wav, s
    <3>3. dir.wav[s][k] \in 1..MaxFiles /\ dir.wav[s][k] # n
      BY <1>0, <1>2, <1>5, <3>2, SongAssumption DEF IInv, TypeOK
    <3>4. QED
      BY <1>0, <1>3, <1>4, <3>1, <3>2, <3>3
  <2>2. QED
    BY <1>1, <2>1 DEF NotedIsRecorded, Wav, s
<1>11. SaveStands'
  <2>1. \A k \in job.left : job.meta[k] = 0
    BY <1>0 DEF IInv, Kept, SaveStands
  <2>2. file'[dir'.wav[s][l]].take = buffer[l]
    BY <1>3, <1>4 DEF new, NewFile
  <2>3. QED
    BY <1>0, <1>1, <1>4, <2>1, <2>2 DEF SaveStands, Wav, Exists, s, l
<1>12. QED
  BY <1>7, <1>8, <1>9, <1>10, <1>11 DEF Kept

\* A file that grows is still of its take, and no less of it is on the device.
LEMMA EngineWritesHolds ==
  ASSUME IInv, EngineWrites
  PROVE  \A d \in past, t \in Songs, k \in Loops :
           /\ d.wav[t][k] # 0 => file'[d.wav[t][k]].take = file[d.wav[t][k]].take
           /\ d.wav[t][k] # 0 => \A x : Held(file[d.wav[t][k]], x) => Held(file'[d.wav[t][k]], x)
           /\ RecordedIn(file, d, t, k) => RecordedIn(file', d, t, k)
<1>1. \A g \in 1..MaxFiles : /\ file'[g].take = file[g].take
                             /\ \A t : Held(file[g], t) => Held(file'[g], t)
  <2>1. PICK size \in Size :
          size > file[writing].size /\ file' = [file EXCEPT ![writing].size = size]
    BY DEF EngineWrites
  <2>2. writing \in 1..MaxFiles /\ file \in [1..MaxFiles -> File]
    BY SongAssumption DEF EngineWrites, IInv, TypeOK
  <2>3. file'[writing] = [file[writing] EXCEPT !.size = size]
    BY <2>1, <2>2
  <2>4. /\ file'[writing].take = file[writing].take /\ file'[writing].synced = file[writing].synced
        /\ file'[writing].early = file[writing].early
    BY <2>1, <2>2, <2>3, Growing
  <2>5. \A g \in 1..MaxFiles : g # writing => file'[g] = file[g]
    BY <2>1, <2>2
  <2>6. QED
    BY <2>4, <2>5 DEF Held
<1>2. \A d \in past, t \in Songs, k \in Loops :
        /\ d.wav[t][k] # 0 => file'[d.wav[t][k]].take = file[d.wav[t][k]].take
        /\ d.wav[t][k] # 0 => \A x : Held(file[d.wav[t][k]], x) => Held(file'[d.wav[t][k]], x)
  <2>1. \A d \in past, t \in Songs, k \in Loops : d.wav[t][k] # 0 => d.wav[t][k] \in 1..MaxFiles
    BY SongAssumption DEF IInv, TypeOK, Dir
  <2>2. QED
    BY <1>1, <2>1
<1>3. QED
  BY <1>2 DEF RecordedIn

LEMMA EngineWritesKeeps ==
  ASSUME IInv, EngineWrites
  PROVE  Kept'
<1>1. UNCHANGED <<buffer, requests, dir, past, files, touched, job>>
  BY DEF EngineWrites, engine
<1>2. \A d \in past, t \in Songs, k \in Loops :
        /\ d.wav[t][k] # 0 => file'[d.wav[t][k]].take = file[d.wav[t][k]].take
        /\ d.wav[t][k] # 0 => \A x : Held(file[d.wav[t][k]], x) => Held(file'[d.wav[t][k]], x)
        /\ RecordedIn(file, d, t, k) => RecordedIn(file', d, t, k)
  BY EngineWritesHolds
<1>3. SavedSongsReload'
  BY <1>1, <1>2, Reload DEF IInv, Kept
<1>4. FilesAreMade' /\ RequestIsAwaited'
  BY <1>1 DEF IInv, Kept, FilesAreMade, RequestIsAwaited, Wav
<1>5. job.kind = "save" => job.song \in Songs /\ dir \in past /\ job.left \subseteq Loops
  BY DEF IInv, TypeOK, Job
<1>6. NotedIsRecorded'
  BY <1>1, <1>2, <1>5 DEF IInv, Kept, NotedIsRecorded, Wav
<1>7. SaveStands'
  <2>1. job.kind = "save" /\ job.left # {} => First(job.left) \in Loops
    BY <1>5, LeastLoop
  <2>2. QED
    BY <1>1, <1>2, <1>5, <2>1 DEF IInv, Kept, SaveStands, Wav, Exists
<1>8. QED
  BY <1>3, <1>4, <1>6, <1>7 DEF Kept

\* The power takes only what was not on the device: no recording of a song.
LEMMA PowerCutKeeps ==
  ASSUME IInv, PowerCut
  PROVE  Kept'
<1>1. /\ dir' \in past /\ past' \subseteq past /\ UNCHANGED <<files, touched>>
      /\ requests' = <<>> /\ job'.kind = "none"
  BY NoJobType DEF PowerCut
<1>2. \A f \in 1..MaxFiles : \A t : Held(file[f], t) => Held(file'[f], t)
  <2>1. PICK size \in [1..MaxFiles -> Size] :
          /\ \A f \in 1..MaxFiles : file[f].synced <= size[f] /\ size[f] <= file[f].size
          /\ file' = [f \in 1..MaxFiles |->
                        [file[f] EXCEPT !.size = size[f], !.synced = size[f]]]
    BY DEF PowerCut
  <2>2. ASSUME NEW f \in 1..MaxFiles PROVE \A t : Held(file[f], t) => Held(file'[f], t)
    <3>1. /\ file[f] \in File /\ size[f] \in Size /\ file[f].synced <= size[f]
          /\ size[f] <= file[f].size
      BY <2>1 DEF IInv, TypeOK
    <3>2. file'[f] = [file[f] EXCEPT !.size = size[f], !.synced = size[f]]
      BY <2>1
    <3>3. QED
      BY <3>1, <3>2, CuttingOff
  <2>3. QED
    BY <2>2
<1>3. \A d \in past, t \in Songs, k \in Loops :
        RecordedIn(file, d, t, k) => RecordedIn(file', d, t, k)
  <2>1. ASSUME NEW d \in past, NEW t \in Songs, NEW k \in Loops, RecordedIn(file, d, t, k)
        PROVE  RecordedIn(file', d, t, k)
    <3>1. d.wav[t][k] \in 1..MaxFiles
      BY <2>1, SongAssumption DEF RecordedIn, IInv, TypeOK, Dir
    <3>2. QED
      BY <1>2, <2>1, <3>1 DEF RecordedIn
  <2>2. QED
    BY <2>1
<1>4. SavedSongsReload'
  BY <1>1, <1>3, Reload DEF IInv, Kept
<1>5. FilesAreMade'
  BY <1>1 DEF IInv, Kept, FilesAreMade
<1>6. RequestIsAwaited' /\ NotedIsRecorded' /\ SaveStands'
  BY <1>1 DEF RequestIsAwaited, NotedIsRecorded, SaveStands
<1>7. QED
  BY <1>4, <1>5, <1>6 DEF Kept

LEMMA WorldKeeps ==
  ASSUME IInv, Steady, World
  PROVE  Kept'
<1>1. ASSUME NEW l \in Loops, Record(l) \/ Clear(l) PROVE Kept'
  <2>1. job.kind = "none" /\ UNCHANGED <<requests, dir, past, file, files, touched, job>>
    BY <1>1 DEF Record, Clear, Hands, Steady, disk
  <2>2. QED
    BY <2>1, NewWork
<1>2. QED
  BY <1>1, EngineSavesKeeps, EngineWritesKeeps, PowerCutKeeps DEF World

\* The initial states satisfy the invariant, and every step keeps it.
LEMMA Begins == Init => IInv
<1> SUFFICES ASSUME Init PROVE IInv
  OBVIOUS
<1>1. /\ 0 \in Take /\ 0 \in 0..MaxTakes /\ 0 \in 0..MaxFiles /\ 0 \in 0..MaxCuts
      /\ NoTakes \in [Loops -> Take]
  BY SongAssumption DEF Take, NoTakes
<1>2. dir \in Dir /\ past = {dir}
  BY <1>1 DEF Init, Dir
<1>3. file \in [1..MaxFiles -> File]
  BY <1>1, NewFileType DEF Init
<1>4. result \in Result /\ ui \in Ui /\ job \in Job /\ job.kind = "none"
  BY NoJobType DEF Init, Say, Result, Opening, Ui
<1>5. requests \in Seq(Request)
  BY DEF Init
<1>6. TypeOK
  BY <1>1, <1>2, <1>3, <1>4, <1>5 DEF Init, TypeOK
<1>7. WorkIsAlone
  BY <1>4 DEF Init, WorkIsAlone
<1>8. /\ \A s \in Songs, l \in Loops : dir.wav[s][l] = 0 /\ dir.song[s][l] = 0
      /\ past = {dir} /\ files = 0 /\ requests = <<>>
  BY DEF Init, NoTakes
<1>9. FilesAreMade /\ SavedSongsReload
  BY <1>8 DEF FilesAreMade, SavedSongsReload
<1>10. RequestIsAwaited /\ NotedIsRecorded /\ SaveStands
  BY <1>4, <1>8 DEF RequestIsAwaited, NotedIsRecorded, SaveStands
<1>11. QED
  BY <1>6, <1>7, <1>9, <1>10 DEF IInv, Kept

LEMMA Keeps ==
  ASSUME IInv, Steady, [Next]_vars
  PROVE  IInv'
<1>1. TypeOK' /\ WorkIsAlone'
  BY TypeKept, Alone DEF IInv
<1>2. CASE UNCHANGED vars
  <2>1. Kept'
    BY <1>2 DEF vars, IInv, Kept, FilesAreMade, RequestIsAwaited, NotedIsRecorded, SaveStands,
      SavedSongsReload, Recorded, Wav, Exists
  <2>2. QED
    BY <1>1, <2>1 DEF IInv
<1>3. CASE Next
  BY <1>1, <1>3, TapKeeps, WorkKeeps, WorldKeeps DEF Next, IInv
<1>4. QED
  BY <1>2, <1>3

\* The variables have their types, whatever the trouble.
THEOREM Typing == Spec => []TypeOK
<1>1. Init => TypeOK
  BY Begins DEF IInv
<1>2. TypeOK /\ [Next]_vars => TypeOK'
  BY TypeKept
<1>3. QED
  BY <1>1, <1>2, PTL DEF Spec

\* The inductive invariant holds throughout, when requests given up are dropped and
\* nobody plays during a save or load.
THEOREM Invariance ==
  ASSUME Steady
  PROVE  Spec => []IInv
<1>1. IInv /\ [Next]_vars => IInv'
  BY Keeps
<1>2. QED
  BY <1>1, Begins, PTL DEF Spec

\* Whatever songs are saved, over what, and wherever the power cuts it off: each
\* song that remains has a recording of every loop it names, of the take meant and
\* in full unless the save flushed it before the engine had finished it; as long as
\* requests the save gave up are dropped and nobody plays during a save.
THEOREM SongsReload ==
  ASSUME Steady
  PROVE  Spec => []SavedSongsReload
<1>1. IInv => SavedSongsReload
  BY DEF IInv, Kept
<1>2. QED
  BY <1>1, Invariance, PTL

-----------------------------------------------------------------------------
(* Saves are whole, and loads take nothing away: when every question to the *)
(* engine is answered.                                                      *)

Answering == Steady /\ "silence" \notin Trouble
Whole == NotedIsAll /\ NothingToLose

LEMMA AllAnswer ==
  ASSUME Answering
  PROVE  Answered = {TRUE}
BY DEF Answering, Answered

\* What is at stake: a step that leaves the loops, and the worker unless it starts
\* something that is no load or was chosen.
LEMMA WholeTap ==
  ASSUME IInv, Whole, Tap
  PROVE  Whole'
<1>1. UNCHANGED <<buffer, dir, file>>
  BY DEF Tap, TapMenu, TapBack, TapNew, TapOverwrite, TapLoad, EnterName, PollResults, Confirm,
    OffScreen, engine, disk
<1>2. CASE UNCHANGED job
  BY <1>1, <1>2 DEF Whole, NotedIsAll, Due, NothingToLose, Recorded
<1>3. ASSUME NEW j, Run(j), j.at = "start", j.short = {}, j.kind # "load" \/ j.chosen
      PROVE  Whole'
  <2>1. CASE busy
    BY <1>2, <1>3, <2>1 DEF Run
  <2>2. CASE ~busy
    <3>1. job' = j
      BY <1>3, <2>2 DEF Run
    <3>2. QED
      BY <1>3, <3>1 DEF Whole, NotedIsAll, NothingToLose
  <2>3. QED
    BY <2>1, <2>2
<1>4. CASE TapMenu \/ TapBack \/ TapNew \/ PollResults \/ \E s \in Songs : TapOverwrite(s)
  BY <1>2, <1>4 DEF TapMenu, TapBack, TapNew, PollResults, TapOverwrite
<1>5. ASSUME NEW s \in Songs, TapLoad(s) PROVE Whole'
  BY <1>3, <1>5, NewJobType DEF TapLoad
<1>6. ASSUME NEW s \in Songs, EnterName(s) PROVE Whole'
  <2>1. ui.after \in Songs \cup {None}
    BY DEF IInv, TypeOK, Ui
  <2>2. Run([NewJob("save", s) EXCEPT !.next = ui.after])
    BY <1>6 DEF EnterName
  <2>3. QED
    BY <1>3, <2>1, <2>2, ToldJobType
<1>7. ASSUME NEW hit \in {"yes", "no", "cancel"}, Confirm(hit) PROVE Whole'
  <2>1. ASSUME NEW s \in Songs \cup {None},
               RunFor(s, [NewJob("save", s) EXCEPT !.over = TRUE])
        PROVE  Whole'
    <3>1. CASE s = None
      BY <1>2, <2>1, <3>1 DEF RunFor
    <3>2. CASE s # None
      <4>1. Run([NewJob("save", s) EXCEPT !.over = TRUE])
        BY <2>1, <3>2 DEF RunFor
      <4>2. QED
        BY <1>3, <3>2, <4>1, ToldJobType
    <3>3. QED
      BY <3>1, <3>2
  <2>2. ASSUME NEW s \in Songs \cup {None},
               RunFor(s, [NewJob("load", s) EXCEPT !.chosen = TRUE])
        PROVE  Whole'
    <3>1. CASE s = None
      BY <1>2, <2>2, <3>1 DEF RunFor
    <3>2. CASE s # None
      <4>1. Run([NewJob("load", s) EXCEPT !.chosen = TRUE])
        BY <2>2, <3>2 DEF RunFor
      <4>2. [NewJob("load", s) EXCEPT !.chosen = TRUE].chosen
        BY <3>2, NewJobType DEF Job
      <4>3. /\ [NewJob("load", s) EXCEPT !.chosen = TRUE].at = "start"
            /\ [NewJob("load", s) EXCEPT !.chosen = TRUE].short = {}
        BY <3>2, ToldJobType
      <4>4. QED
        BY <1>3, <4>1, <4>2, <4>3, Zenon
    <3>3. QED
      BY <3>1, <3>2
  <2>3. ui.selected \in Songs \cup {None} /\ ui.pending \in Songs \cup {None}
    BY DEF IInv, TypeOK, Ui
  <2>4. QED
    BY <1>2, <1>7, <2>1, <2>2, <2>3 DEF Confirm
<1>8. QED
  BY <1>4, <1>5, <1>6, <1>7 DEF Tap

LEMMA WholeWork ==
  ASSUME IInv, Whole, Answering, Work
  PROVE  Whole'
<1>0. job \in Job /\ Answered = {TRUE} /\ buffer \in [Loops -> Take] /\ dir \in Dir
  BY AllAnswer DEF IInv, TypeOK
<1>1. CASE job'.kind \notin {"save", "load"}
  BY <1>1 DEF Whole, NotedIsAll, NothingToLose
<1>2. CASE Check
  <2>1. PICK heard \in [Loops -> Answered] :
          IF \E l \in Loops : heard[l] /\ buffer[l] # 0 THEN job' = NoJob
          ELSE job' = NewJob("load", job.song)
    BY <1>2 DEF Check
  <2>2. \A l \in Loops : heard[l]
    BY <1>0
  <2>3. CASE job' = NoJob
    BY <1>1, <2>3, NoJobType
  <2>4. CASE job' # NoJob
    <3>1. \A l \in Loops : buffer[l] = 0
      BY <2>1, <2>2, <2>4
    <3>2. buffer' = buffer /\ job'.kind = "load"
      BY <1>2, <2>1, <2>4, NewJobType DEF Check, engine, IInv, TypeOK
    <3>3. QED
      BY <3>1, <3>2 DEF Whole, NotedIsAll, NothingToLose
  <2>5. QED
    BY <2>3, <2>4
<1>3. CASE BeginSave
  <2>1. CASE job' = [job EXCEPT !.at = "loop", !.left = Loops]
    <3>1. job'.kind = "save" /\ job'.at = "loop" /\ job'.left = Loops /\ job'.short = {}
      BY <1>0, <1>3, <2>1 DEF BeginSave, Job, Whole, NotedIsAll
    <3>2. QED
      BY <3>1 DEF Whole, NotedIsAll, NothingToLose
  <2>2. CASE Finish("failed")
    BY <1>1, <2>2, FinishType DEF IInv
  <2>3. QED
    BY <1>3, <2>1, <2>2 DEF BeginSave
<1>4. CASE SaveLoop
  <2> DEFINE l == First(job.left)
  <2>1. job.kind = "save" /\ job.at = "loop" /\ l \in job.left /\ l \in Loops /\ job.meta[l] = 0
    BY <1>0, <1>4, LeastLoop DEF SaveLoop, IInv, Kept, SaveStands, Job
  <2>2. CASE job' = [job EXCEPT !.left = @ \ {l}] /\ buffer[l] = 0
    <3>1. /\ job'.kind = "save" /\ job'.at = "loop" /\ job'.meta = job.meta
          /\ job'.left = job.left \ {l} /\ buffer' = buffer /\ job'.short = job.short
      BY <1>0, <1>4, <2>1, <2>2 DEF SaveLoop, Job
    <3> HIDE DEF l
    <3>2. Due' = Due /\ Due[l] = 0
      BY <2>1, <2>2, <3>1 DEF Due
    <3>3. QED
      BY <2>1, <2>2, <3>1, <3>2 DEF Whole, NotedIsAll, NothingToLose
  <2>3. CASE job' = [job EXCEPT !.at = "wait"]
    <3>1. /\ job'.kind = "save" /\ job'.at = "wait" /\ job'.meta = job.meta
          /\ job'.left = job.left /\ buffer' = buffer /\ job'.short = job.short
      BY <1>0, <1>4, <2>1, <2>3 DEF SaveLoop, Job
    <3>2. QED
      BY <2>1, <3>1 DEF Whole, NotedIsAll, NothingToLose, Due
  <2>4. QED
    BY <1>0, <1>4, <2>2, <2>3 DEF SaveLoop
<1>5. CASE LoopSaved
  <2> DEFINE l == First(job.left)
  <2> HIDE DEF l
  <2>1. /\ job.kind = "save" /\ job.at = "wait" /\ l \in Loops /\ l \in job.left
        /\ job'.kind = "save" /\ job'.at = "loop" /\ job'.left = job.left \ {l}
        /\ buffer' = buffer
        /\ \/ job'.meta = job.meta /\ job'.short = job.short \cup {l}
           \/ job'.meta = [job.meta EXCEPT ![l] = buffer[l]] /\ job'.short = job.short
    BY <1>5, LoopSavedCases DEF l
  <2>2. /\ job.meta \in [Loops -> Take] /\ job.meta[l] = 0 /\ l \notin job.short
        /\ job.short \cap job.left = {}
        /\ \A k \in Loops \ job.left : job.meta[k] = Due[k]
    BY <1>0, <2>1 DEF IInv, Kept, SaveStands, Job, Whole, NotedIsAll
  <2>3. job'.short \cap job'.left = {}
    BY <2>1, <2>2
  <2>4. \A k \in Loops \ job'.left : job'.meta[k] = Due'[k]
    BY <2>1, <2>2 DEF Due
  <2>5. QED
    BY <2>1, <2>3, <2>4 DEF Whole, NotedIsAll, NothingToLose
<1>6. CASE LoopNotSaved \/ LoadLoops
  BY <1>1, <1>6, FinishType DEF LoopNotSaved, LoadLoops, IInv
<1>7. CASE WriteManifest
  <2>1. CASE job' = [job EXCEPT !.at = "syncdir"]
    <3>1. /\ job.kind = "save" /\ job.at = "loop" /\ job.left = {}
          /\ job'.kind = "save" /\ job'.at = "syncdir" /\ job'.meta = job.meta /\ buffer' = buffer
          /\ job'.short = job.short
      BY <1>0, <1>7, <2>1 DEF WriteManifest, Job, engine
    <3>2. job.meta = Due
      BY <1>0, <3>1 DEF Whole, NotedIsAll, Job, Due
    <3>3. Due' = Due
      BY <3>1 DEF Due
    <3>4. QED
      BY <3>1, <3>2, <3>3 DEF Whole, NotedIsAll, NothingToLose
  <2>2. CASE Finish("failed")
    BY <1>1, <2>2, FinishType DEF IInv
  <2>3. QED
    BY <1>7, <2>1, <2>2 DEF WriteManifest
<1>8. CASE SyncDir
  <2>1. /\ job.kind = "save" /\ job.at = "syncdir"
        /\ job'.kind = "save" /\ job'.at = "prune" /\ job'.meta = job.meta /\ buffer' = buffer
        /\ job'.short = job.short
    BY <1>0, <1>8 DEF SyncDir, Job, engine
  <2>2. Due' = Due
    BY <2>1 DEF Due
  <2>3. QED
    BY <2>1, <2>2 DEF Whole, NotedIsAll, NothingToLose
<1>9. CASE Prune
  <2> DEFINE s == job.song
  <2>1. /\ job.kind = "save" /\ job.at = "prune" /\ s \in Songs /\ buffer' = buffer
        /\ dir.song[s] = job.meta /\ job.meta = Due /\ file' = file
    BY <1>9 DEF Prune, IInv, Kept, SaveStands, TypeOK, Whole, NotedIsAll, engine
  <2>2. dir'.song = dir.song /\ \A k \in Loops : job.meta[k] # 0 => dir'.wav[s][k] = dir.wav[s][k]
    <3>1. dir' = [dir EXCEPT !.wav[s] =
                   [l \in Loops |-> IF job.over /\ job.meta[l] = 0 THEN 0 ELSE @[l]]]
      BY <1>9 DEF Prune
    <3>2. QED
      BY <1>0, <2>1, <3>1 DEF Dir
  <2>3. \A k \in Loops : job.meta[k] # 0 =>
          dir.wav[s][k] # 0 /\ Held(file[dir.wav[s][k]], job.meta[k])
    BY <2>1 DEF IInv, Kept, NotedIsRecorded, Wav
  <2>4. job'.kind = "none" \/ (job'.kind = "load" /\ job'.short = job.short)
    BY <1>9, NoJobType, LoadNextType DEF Prune, IInv, Finish
  <2>5. \A k \in Loops \ job.short : buffer[k] # 0 =>
          /\ dir'.song[s][k] = buffer[k] /\ dir'.wav[s][k] # 0
          /\ Held(file'[dir'.wav[s][k]], dir'.song[s][k])
    BY <2>1, <2>2, <2>3 DEF Due
  <2> HIDE DEF s
  <2>6. QED
    BY <2>1, <2>4, <2>5 DEF Whole, NotedIsAll, NothingToLose, Recorded
<1>10. CASE BeginLoad
  <2>1. CASE job' = [job EXCEPT !.at = "clear"]
    <3>1. /\ job.kind = "load" /\ job.at = "start" /\ job'.kind = "load" /\ job'.at = "clear"
          /\ job'.chosen = job.chosen /\ job'.short = job.short
          /\ UNCHANGED <<buffer, dir, file>>
      BY <1>0, <1>10, <2>1 DEF BeginLoad, Job, engine, disk
    <3>2. QED
      BY <3>1 DEF Whole, NotedIsAll, NothingToLose, Recorded
  <2>2. CASE Finish("failed")
    BY <1>1, <2>2, FinishType DEF IInv
  <2>3. QED
    BY <1>10, <2>1, <2>2 DEF BeginLoad
<1>11. CASE ClearAllLoops
  <2>1. job'.kind = "load" /\ job'.at = "fill"
    BY <1>0, <1>11 DEF ClearAllLoops, Job
  <2>2. QED
    BY <2>1 DEF Whole, NotedIsAll, NothingToLose
<1>12. QED
  BY <1>2, <1>3, <1>4, <1>5, <1>6, <1>7, <1>8, <1>9, <1>10, <1>11 DEF Work

LEMMA WholeWorld ==
  ASSUME IInv, Whole, Steady, World
  PROVE  Whole'
<1>1. ASSUME NEW l \in Loops, Record(l) \/ Clear(l) PROVE Whole'
  <2>1. job'.kind = "none"
    BY <1>1 DEF Record, Clear, Hands, Steady
  <2>2. QED
    BY <2>1 DEF Whole, NotedIsAll, NothingToLose
<1>2. CASE PowerCut
  <2>1. job'.kind = "none"
    BY <1>2, NoJobType DEF PowerCut
  <2>2. QED
    BY <2>1 DEF Whole, NotedIsAll, NothingToLose
<1>3. CASE EngineSaves
  <2>1. job.kind = "save" /\ UNCHANGED <<job, buffer>>
    BY <1>3 DEF EngineSaves, IInv, Kept, RequestIsAwaited
  <2>2. QED
    BY <2>1 DEF Whole, NotedIsAll, NothingToLose, Due
<1>4. CASE EngineWrites
  <2>1. UNCHANGED <<job, buffer, dir>>
    BY <1>4 DEF EngineWrites, engine
  <2>2. \A d \in past, t \in Songs, k \in Loops :
          RecordedIn(file, d, t, k) => RecordedIn(file', d, t, k)
    BY <1>4, EngineWritesHolds
  <2>3. \A t \in Songs, k \in Loops : Recorded(dir, t, k) => Recorded(dir, t, k)'
    BY <2>1, <2>2 DEF Recorded, RecordedIn, IInv, TypeOK
  <2>4. Due' = Due
    BY <2>1 DEF Due
  <2>5. QED
    BY <2>1, <2>3, <2>4 DEF Whole, NotedIsAll, NothingToLose
<1>5. QED
  BY <1>1, <1>2, <1>3, <1>4 DEF World

LEMMA WholeKeeps ==
  ASSUME IInv, Whole, Answering, [Next]_vars
  PROVE  Whole'
<1>1. CASE UNCHANGED vars
  BY <1>1 DEF vars, Whole, NotedIsAll, Due, NothingToLose, Recorded
<1>2. QED
  BY <1>1, WholeTap, WholeWork, WholeWorld DEF Next, Answering

LEMMA WholeInvariance ==
  ASSUME Answering
  PROVE  Spec => [](IInv /\ Whole)
<1>1. Init => Whole
  BY NoJobType DEF Init, Whole, NotedIsAll, NothingToLose
<1>2. IInv /\ Whole /\ [Next]_vars => (IInv /\ Whole)'
  BY Keeps, WholeKeeps DEF Answering
<1>3. QED
  BY <1>1, <1>2, Begins, PTL DEF Spec

\* When the manifest is in place it names every loop that had audio, however
\* the requests of the save fared, but the loops whose files were too short when
\* the save looked at them (looper_songs.py:672-674): of these it names none.
THEOREM SavesAreWhole ==
  ASSUME Answering
  PROVE  Spec => []SavedIsAll
<1>1. IInv /\ Whole => SavedIsAll
  BY DEF IInv, Kept, SaveStands, Whole, NotedIsAll, Due, SavedIsAll
<1>2. QED
  BY <1>1, WholeInvariance, PTL

\* A load empties a loop only when the player chose so, or a song on the card has a
\* recording of what is in it (as SongsReload has it), or the save just before,
\* reported as done, had left it out as too short.
THEOREM LoadsTakeNothing ==
  ASSUME Answering
  PROVE  Spec => LossIsChosen
<1>1. ASSUME IInv, Whole, [Next]_vars
      PROVE  [job.kind = "load" /\ job.at = "clear" /\ ~job.chosen /\ cuts' = cuts
                => \A l \in Loops \ job.short : buffer[l] # 0 /\ buffer'[l] = 0 =>
                     \E s \in Songs : dir.song[s][l] = buffer[l] /\ Recorded(dir, s, l)]_vars
  BY <1>1 DEF Whole, NothingToLose
<1>2. QED
  BY <1>1, WholeInvariance, PTL DEF Spec, LossIsChosen
=============================================================================
