--------------------------- MODULE FavoritesMove ---------------------------
(***************************************************************************)
(* The one-time move of the favourites from copies of patches to pointers  *)
(* at them (favorites_migrate.py): a plan made from the bytes of the files *)
(* and the old index, a run that carries it out step by step over a git    *)
(* checkout, the settings store, the index and the remembered last patch,  *)
(* with a manifest that says how far it came, and the undo that reads it.  *)
(*                                                                         *)
(* A command may be cut off between any two of its steps; between commands *)
(* the player plays, saves and commits.  A command under way is the next   *)
(* step and what is left to do: when it is cut off, that is gone.          *)
(*                                                                         *)
(* A patch, and the key its settings are under, is a place and a name.     *)
(* The four settings stores are one; a store entry has what the player     *)
(* chose and what was captured from the sound.  Folders, dates and orders  *)
(* of favourites are left out.                                             *)
(*                                                                         *)
(* Init, Next and the like carry the move's name, so that its proofs can   *)
(* share a module with another component's (LoopLevels_proofs).            *)
(***************************************************************************)
EXTENDS Naturals, FiniteSets, Functions

CONSTANTS
  Names,        \* file names, in their order
  TunedNames,   \* TUNED_NAMES
  ResaveNames,  \* RESAVE_NAMES
  Nil,          \* no file, entry, key or label
  MaxRuns,      \* bound: runs begun
  MaxCrashes,   \* bound: commands cut off
  MaxEdits      \* bound: things the player does in between

ASSUME MoveAssumption ==
  /\ IsFiniteSet(Names) /\ Names \subseteq Nat
  /\ TunedNames \cup ResaveNames \subseteq Names /\ TunedNames \cap ResaveNames = {}
  /\ {MaxRuns, MaxCrashes, MaxEdits} \subseteq Nat

VARIABLES
  files,   \* the bytes of every patch
  saved,   \* the settings store, the index, the remembered last patch
  git,     \* the checkout: HEAD, what is staged, and the bytes in its history
  run,     \* the last run's manifest
  job,     \* the command under way: its next step, what it has still to put
           \* into files, and the labels it has still to write
  undo,    \* history: the last undo of that run: none, plain, or forced
  before,  \* history: what the last run found; and whether a run was ever begun on
           \* what an undo had left half done
  edited,  \* history: the player did something since the last run began
  edits, runs, crashes

bounds  == <<edits, runs, crashes>>
past    == <<undo, before, edited>>
moveVars == <<files, saved, git, run, job, past, bounds>>

Places  == {"fav", "stock", "own", "tuned"}
Patches == Places \X Names
Stem(p) == <<"stem", p[2]>>
Keys    == Patches \cup {Stem(p) : p \in Patches}
Edits   == {"edit"} \X (1..MaxEdits)
Bytes   == Patches \cup Edits
Entry   == UNION {[S -> Keys \cup Edits] : S \in SUBSET {"chosen", "captured"}}
Store   == [Keys -> Entry \cup {Nil}]
Index   == [version : 1..2, copy : UNION {[S -> Names \cup {Nil}] : S \in SUBSET Patches}]
Saved   == [store : Store, index : Index, last : Patches]
Labels  == {"store", "index", "last"}
Library == [Patches -> Bytes \cup {Nil}]

ASSUME NilAssumption == Nil \notin Bytes \cup Labels \cup Store \cup Index \cup Entry

There(p) == files[p] # Nil
Favorites == DOMAIN saved.index.copy

\* f laid over g, and a function of one argument.
Over(f, g) == [x \in DOMAIN f \cup DOMAIN g |-> IF x \in DOMAIN f THEN f[x] ELSE g[x]]
Only(x, v) == [y \in {x} |-> v]

NoRun == [state |-> "none", base |-> files, ops |-> {}, found |-> saved,
          wrote |-> [l \in Labels |-> Nil], writing |-> Nil, favorites |-> {}]
NoJob == [cmd |-> "run", at |-> "none", puts |-> {}, labels |-> {}, new |-> Nil]

\* A library as the old code left it, all of the player's files committed.
Committed ==
  /\ git = [head |-> files, staged |-> files, kept |-> Range(files)]
  /\ run = NoRun /\ job = NoJob
  /\ undo = "none" /\ edited = FALSE
  /\ before = [files |-> files, saved |-> saved, head |-> files, half |-> FALSE]
  /\ edits = 0
MoveInit == files \in Library /\ saved \in Saved /\ Committed /\ runs = 0 /\ crashes = 0

-----------------------------------------------------------------------------
(* The plan.                                                                *)

\* The files of the favourites folder, then the tuned ones found elsewhere.
Found == {p \in Patches : There(p) /\ (p[1] = "fav" \/ (p[1] = "own" /\ p[2] \in TunedNames))}
Precedes(p, q) == IF p[1] = q[1] THEN p[2] < q[2] ELSE p[1] = "fav"

\* Library files with the same bytes.
Same(p) == {q \in Patches \ {p} : q[1] # "fav" /\ files[q] = files[p]}

\* The index entry that stands for a file.
OldKey(p) ==
  LET named == {k \in Favorites : p[1] = "fav" /\ saved.index.copy[k] = p[2]}
  IN CASE named # {}    -> CHOOSE k \in named : TRUE
       [] p \in Favorites -> p
       [] OTHER         -> Nil

Klass(p) ==
  CASE Same(p) # {}       -> "pointer"
    [] p[2] \in ResaveNames -> "resave"
    [] p[2] \in TunedNames  -> "tuned"
    [] OTHER              -> "user"

Pointed(p) ==
  LET namesake == {q \in Same(p) : q[2] = p[2]}
  IN CASE OldKey(p) \in Same(p) -> OldKey(p)
       [] namesake # {}         -> CHOOSE q \in namesake : TRUE
       [] OTHER                 -> CHOOSE q \in Same(p) : TRUE

Target(p) ==
  CASE Klass(p) = "pointer" -> Pointed(p)
    [] Klass(p) = "resave"  -> <<"stock", p[2]>>
    [] Klass(p) = "tuned"   -> <<"tuned", p[2]>>
    [] OTHER                -> p

FileRows == {[file |-> p, old |-> OldKey(p), klass |-> Klass(p), after |-> Target(p)] : p \in Found}
\* Entries no file explains stay as pointers.
IndexRows ==
  {[file |-> Nil, old |-> k, klass |-> "index-only", after |-> k] :
     k \in Favorites \ {r.old : r \in FileRows}}
Rows == FileRows \cup IndexRows
FileOps == {r \in FileRows : r.klass # "user"}

TrackedClean(p) == git.staged[p] # Nil /\ git.head[p] = files[p]
Errors ==
  \E r \in FileOps :
    \/ ~TrackedClean(r.file)
    \/ r.klass = "resave" /\ ~There(r.after)
    \/ r.klass = "tuned" /\ There(r.after)
    \/ r.klass = "tuned" /\ \E q \in FileOps \ {r} : q.klass = "tuned" /\ q.after = r.after

\* What was captured from a copy is kept only where the copy is a sound of its own.
Kept(klass, entry) ==
  IF klass = "tuned" THEN entry ELSE Restrict(entry, DOMAIN entry \ {"captured"})

\* Mutant of Merged: what the target has wins.
MergedByTarget(base, moved) ==
  CASE moved = Nil -> base [] base = Nil -> moved [] OTHER -> Over(base, moved)

\* _merge_entry: the favourite's fields over the target's.
Merged(base, moved) ==
  CASE moved = Nil -> base [] base = Nil -> moved [] OTHER -> Over(moved, base)

\* One favourite's settings, moved to the key of its target; those under the
\* bare name are shared and stay.
Rekey(store, row) ==
  LET hit   == IF store[row.file] # Nil THEN row.file ELSE Stem(row.file)
      moved == IF store[hit] = Nil THEN Nil ELSE Kept(row.klass, store[hit])
      left  == [store EXCEPT ![row.file] = Nil]
      base  == IF left[row.after] = Nil /\ row.klass = "tuned" /\ row.old # Nil
               THEN left[row.old] ELSE left[row.after]
      new   == Merged(base, moved)
  IN IF row.klass = "user" THEN store
     ELSE IF new = Nil \/ (base = Nil /\ DOMAIN new = {}) THEN left
     ELSE [left EXCEPT ![row.after] = new]

\* Row by row, in their order.
LastRow(rows) == CHOOSE r \in rows : \A q \in rows : ~Precedes(r.file, q.file)
Rekeyed[rows \in SUBSET FileRows] ==
  IF rows = {} THEN saved.store
  ELSE Rekey(Rekeyed[rows \ {LastRow(rows)}], LastRow(rows))
NewStore == Rekeyed[FileRows]
NewIndex == [version |-> 2, copy |-> [k \in {r.after : r \in Rows} |-> Nil]]
NewLast ==
  LET moved == {r \in FileOps : r.file = saved.last}
  IN IF moved = {} THEN saved.last ELSE (CHOOSE r \in moved : TRUE).after
New == [store |-> NewStore, index |-> NewIndex, last |-> NewLast]
Changed == {l \in Labels : New[l] # saved[l]}
Empty == FileOps = {} /\ Changed = {}

-----------------------------------------------------------------------------
(* The steps of a command.                                                  *)

\* What git is to put into files for one operation of the manifest: to carry it
\* out, in one step, and to take it back, in two.
Put(half, op, bytes) == [file |-> op.from, half |-> half, bytes |-> bytes]
Move(op) ==
  Put(1, op, IF op.to = Nil THEN Only(op.from, Nil)
             ELSE Over(Only(op.from, Nil), Only(op.to, op.bytes)))

\* Mutant of Back: a file is put back as HEAD has it.
BackFromHead(op) ==
  {Put(2, op, Only(op.from, git.head[op.from]))}
  \cup IF op.to = Nil THEN {} ELSE {Put(1, op, Only(op.to, Nil))}

Back(op) ==
  {Put(2, op, Only(op.from, run.base[op.from]))}
  \cup IF op.to = Nil THEN {} ELSE {Put(1, op, Only(op.to, Nil))}

PutBefore(u, v) == Precedes(u.file, v.file) \/ (u.file = v.file /\ u.half < v.half)
First(puts) == CHOOSE u \in puts : \A v \in puts : ~PutBefore(v, u)
FirstLabel(labels) ==
  IF "store" \in labels THEN "store" ELSE IF "index" \in labels THEN "index" ELSE "last"

\* Mutant of Opening: the manifest does not say first what is being written.
OpeningUnsaid(cmd) == "write"

\* A run says in its manifest what it is about to write, an undo does not.
Opening(cmd) == IF cmd = "run" THEN "writing" ELSE "write"
Closing(cmd) == IF cmd = "run" THEN "state" ELSE "last"
Then(cmd, labels) == IF labels = {} THEN Closing(cmd) ELSE Opening(cmd)
Command(cmd, puts, labels, new) ==
  [cmd |-> cmd, at |-> IF puts = {} THEN Then(cmd, labels) ELSE "file",
   puts |-> puts, labels |-> labels, new |-> new]

Doing(at)  == job.at = at
NextIs(at) == job' = [job EXCEPT !.at = at]
Label      == FirstLabel(job.labels)
LabelDone  ==
  job' = [job EXCEPT !.labels = job.labels \ {Label}, !.at = Then(job.cmd, job.labels \ {Label})]

\* git changes the file first and its index after it.
ChangeFile ==
  /\ Doing("file") /\ NextIs("stage")
  /\ files' = Over(First(job.puts).bytes, files)
  /\ UNCHANGED <<saved, git, run, past, bounds>>
StageFile ==
  /\ Doing("stage")
  /\ git' = [git EXCEPT !.staged = Over(First(job.puts).bytes, git.staged)]
  /\ LET left == job.puts \ {First(job.puts)}
     IN job' = [job EXCEPT !.puts = left, !.at = IF left = {} THEN "commit" ELSE "file"]
  /\ UNCHANGED <<files, saved, run, past, bounds>>
CommitStaged ==
  /\ Doing("commit") /\ NextIs(Then(job.cmd, job.labels))
  /\ git' = [git EXCEPT !.head = git.staged, !.kept = git.kept \cup Range(git.staged)]
  /\ UNCHANGED <<files, saved, run, past, bounds>>
SayWriting ==
  /\ Doing("writing") /\ NextIs("write")
  /\ run' = [run EXCEPT !.writing = Label]
  /\ UNCHANGED <<files, saved, git, past, bounds>>
Write ==
  /\ Doing("write") /\ IF job.cmd = "run" THEN NextIs("wrote") ELSE LabelDone
  /\ saved' = [saved EXCEPT ![Label] = job.new[Label]]
  /\ UNCHANGED <<files, git, run, past, bounds>>
SayWrote ==
  /\ Doing("wrote") /\ LabelDone
  /\ run' = [run EXCEPT !.wrote = [run.wrote EXCEPT ![Label] = saved[Label]], !.writing = Nil]
  /\ UNCHANGED <<files, saved, git, past, bounds>>
\* The last patch goes back only if it is still the one the run wrote.
RestoreLast ==
  /\ Doing("last") /\ NextIs("state")
  /\ saved' = [saved EXCEPT !.last = IF @ = run.wrote["last"] THEN run.found.last ELSE @]
  /\ UNCHANGED <<files, git, run, past, bounds>>
SayState ==
  /\ Doing("state") /\ job' = NoJob
  /\ run' = [run EXCEPT !.state = IF job.cmd = "run" THEN "done" ELSE "undone"]
  /\ UNCHANGED <<files, saved, git, past, bounds>>

Step == ChangeFile \/ StageFile \/ CommitStaged \/ SayWriting \/ Write \/ SayWrote
        \/ RestoreLast \/ SayState

-----------------------------------------------------------------------------
(* The commands.                                                            *)

\* What the browser reads for a patch: its key, then its bare name.
Reads(store, k) == IF store[k] # Nil THEN store[k] ELSE store[Stem(k)]

\* _before_snapshot: what it reads for a favourite, its copy first.
Snapshot(row) ==
  LET read == Reads(saved.store, IF row.file # Nil THEN row.file ELSE row.after)
  IN [after |-> row.after, read |-> IF read = Nil THEN <<>> ELSE Kept(row.klass, read)]

\* What the manifest says of a file that is to go.
Op(row) ==
  [from |-> row.file, bytes |-> files[row.file], to |-> IF row.klass = "tuned" THEN row.after ELSE Nil]

Idle == Doing("none")
HalfUndone == run.state = "done" /\ undo # "none"

\* apply_plan up to the manifest, before which nothing is changed.
Run ==
  /\ Idle /\ runs < MaxRuns /\ runs' = runs + 1
  /\ run.state # "started"
  /\ ~Errors /\ ~Empty /\ git.staged = git.head
  /\ run' = [state |-> "started", base |-> git.head, ops |-> {Op(r) : r \in FileOps},
             found |-> saved, wrote |-> [l \in Labels |-> Nil], writing |-> Nil,
             favorites |-> {Snapshot(r) : r \in Rows}]
  /\ job' = Command("run", {Move(Op(r)) : r \in FileOps}, Changed, New)
  /\ undo' = "none" /\ edited' = FALSE
  /\ before' = [files |-> files, saved |-> saved, head |-> git.head,
                half |-> before.half \/ HalfUndone]
  /\ UNCHANGED <<files, saved, git, edits, crashes>>

\* Mutant of SettingsChanged: only the index is looked at.
IndexChanged ==
  "index" # run.writing /\ saved.index \notin {run.found.index, run.wrote["index"]}

\* Reasons to refuse an undo: files saved since where the run moved one, and,
\* unless forced, settings changed since.
FilesChanged ==
  \E op \in run.ops :
    \/ There(op.from) /\ files[op.from] # op.bytes
    \/ op.to # Nil /\ There(op.to) /\ files[op.to] # op.bytes
SettingsChanged ==
  \E l \in {"store", "index"} \ {run.writing} : saved[l] \notin {run.found[l], run.wrote[l]}

\* Mutant of Undoable: a run is undone again.
UndoneAgain == run.state # "none"

Undoable == run.state \in {"started", "done"}
Undo(force) ==
  /\ Idle /\ Undoable
  /\ ~FilesChanged /\ (SettingsChanged => force)
  /\ job' = Command("undo", UNION {Back(op) : op \in run.ops}, {"store", "index"}, run.found)
  /\ undo' = IF force THEN "forced" ELSE "plain"
  /\ UNCHANGED <<files, saved, git, run, before, edited, bounds>>

CutOff ==
  /\ ~Idle /\ crashes < MaxCrashes /\ crashes' = crashes + 1
  /\ job' = NoJob
  /\ UNCHANGED <<files, saved, git, run, past, edits, runs>>

-----------------------------------------------------------------------------
(* The player, between commands: a command refuses while the browser runs.  *)
(* What was done before the first run is in the first state.                *)

Edit ==
  /\ Idle /\ run.state # "none"
  /\ edits < MaxEdits /\ edits' = edits + 1 /\ edited' = TRUE
  /\ UNCHANGED <<run, job, undo, before, runs, crashes>>
Mark == <<"edit", edits + 1>>

SaveFile(p) ==
  /\ Edit /\ p[1] # "stock" /\ UNCHANGED saved
  /\ files' = [files EXCEPT ![p] = Mark]
  /\ git' \in {git, [head |-> [git.head EXCEPT ![p] = Mark],
                     staged |-> [git.staged EXCEPT ![p] = Mark], kept |-> git.kept \cup {Mark}]}
Chosen(entry) == LET chosen == Only("chosen", Mark) IN IF entry = Nil THEN chosen ELSE Over(chosen, entry)
Choose(p) ==
  /\ Edit /\ There(p) /\ UNCHANGED <<files, git>>
  /\ saved' = [saved EXCEPT !.store = [saved.store EXCEPT ![p] = Chosen(saved.store[p])]]
\* In an old index a copy stands for the entry it was made for.
Aliases(p) == {k \in Favorites : saved.index.version = 1 /\ p[1] = "fav" /\ saved.index.copy[k] = p[2]}
Hearted(p) ==
  LET copy  == saved.index.copy
      known == Aliases(p) \cup ({p} \cap Favorites)
  IN IF known = {} THEN Over(copy, Only(p, Nil))
     ELSE Restrict(copy, Favorites \ {CHOOSE k \in known : TRUE})
Heart(p) ==
  /\ Edit /\ There(p) /\ UNCHANGED <<files, git>>
  /\ saved' = [saved EXCEPT !.index = [saved.index EXCEPT !.copy = Hearted(p)]]
Play(p) ==
  /\ Edit /\ There(p) /\ p # saved.last /\ UNCHANGED <<files, git>>
  /\ saved' = [saved EXCEPT !.last = p]

Player == \E p \in Patches : SaveFile(p) \/ Choose(p) \/ Heart(p) \/ Play(p)
MoveNext == Run \/ (\E force \in BOOLEAN : Undo(force)) \/ Step \/ CutOff \/ Player
MoveSpec == MoveInit /\ [][MoveNext]_moveVars

-----------------------------------------------------------------------------
Stages == {"none", "file", "stage", "commit", "writing", "write", "wrote", "last", "state"}

\* The state variables have their types; a command is about a run that is not
\* undone, and what it is to put into files is in that run's manifest.
MoveTypeOK ==
  /\ files \in Library /\ saved \in Saved
  /\ git.head \in Library /\ git.staged \in Library
  /\ run.state \in {"none", "started", "done", "undone"} /\ run.writing \in Labels \cup {Nil}
  /\ job.cmd \in {"run", "undo"} /\ job.at \in Stages /\ job.labels \subseteq Labels
  /\ ~Idle => run.state = "started" \/ (run.state = "done" /\ job.cmd = "undo")
  /\ \A u \in job.puts : u.file \in {op.from : op \in run.ops}

\* Between commands, with nothing done by the player since the last run began.
Resting(state) == Idle /\ run.state = state /\ ~edited

\* Wherever a run or an undo of it was cut off, and however often, the undo
\* takes what it left: no refusal sends the player to sort it out by hand.
UndoTakesIt ==
  \A state \in {"started", "done"} : Resting(state) => ~FilesChanged /\ ~SettingsChanged

\* An undo that reaches its end, after whatever was cut off before, has put
\* back every file, the checkout, the settings and the index.  A run begun on
\* what an undo left half done, and what came after it, is not spoken of: the
\* code does not refuse it.
UndoneIsAsBefore ==
  Resting("undone") /\ ~before.half =>
    /\ files = before.files
    /\ \A l \in {"store", "index"} : saved[l] = before.saved[l]
    /\ git.head = before.head /\ git.staged = before.head

\* In the settings s a favourite is one still, and unless another ends where it
\* does, what the browser reads for it is what it read before.
Follows(s, f) ==
  LET now == Reads(s.store, f.after)
  IN /\ f.after \in DOMAIN s.index.copy
     /\ \/ \E g \in run.favorites \ {f} : g.after = f.after
        \/ \A x \in DOMAIN f.read : now # Nil /\ x \in DOMAIN now /\ now[x] = f.read[x]

\* verify: after a run every favourite is one still, and reads as it did, and its
\* patch is there if it was there before or is a tuned one that was moved.  The
\* tuned patches found elsewhere are ones "the index never held": of a run that
\* moves away what a favourite ends at, nothing is said.
Had    == {p \in Patches : before.files[p] # Nil} \cup {op.to : op \in run.ops}
Spares == \A f \in run.favorites, op \in run.ops : f.after # op.from
FavoritesStay ==
  Resting("done") /\ undo = "none" /\ Spares =>
    \A f \in run.favorites : Follows(saved, f) /\ (f.after \in Had => There(f.after))

\* No command loses bytes of a patch that git does not have, and no undo loses
\* a setting made since the run unless it was forced, or the run was cut off
\* while it wrote the settings: those the undo does not look at.
Settings(store) == UNION {Range(store[k]) : k \in {k \in Keys : store[k] # Nil}}
CommandKeeps ==
  ~Idle =>
    /\ Range(files) \subseteq Range(files') \cup git'.kept \cup {Nil}
    /\ edited /\ undo = "plain" /\ run.writing # "store" =>
         Edits \cap Settings(saved.store) \subseteq Settings(saved'.store)
NothingSavedIsLost == [][CommandKeeps]_moveVars
=============================================================================
