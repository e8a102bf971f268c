---------------------------- MODULE FlushLedger -----------------------------
(***************************************************************************)
(* Whether a take has reached disk: FlushLedger (slot_flush.py), the steps   *)
(* of SlotRuntime that start, drop and believe its saves, the engine that   *)
(* writes the files, and the file system under a power cut.                 *)
(*                                                                         *)
(* The cells are the pads of one track: they share the engine's buffer.  A   *)
(* save asks the engine, by datagram, to write a temporary file; poll finds  *)
(* at least MIN_CLIP_BYTES in it, flushes the file, renames it over the clip *)
(* and flushes the directory.  The ledger's calls are made by the bench's    *)
(* main loop, so nothing of the bench runs inside a poll, but the engine     *)
(* writes on, and the power may go, between any two of its steps.           *)
(*                                                                         *)
(* A file is a save request's: the engine creates at most one for each.     *)
(* Its size is 0 (created), Usable (MIN_CLIP_BYTES or more) or Full.  poll   *)
(* does not wait for Full: the constant Early says whether it may meet a     *)
(* file the engine is still writing, of which it then flushes what is there. *)
(* Presumed of the bench: a buffer is given to other audio only when its    *)
(* take is saved or cleared (SlotRuntime says when that fails).             *)
(***************************************************************************)
EXTENDS Naturals, Sequences

CONSTANTS Cells,     \* the pads that share one engine buffer
          MaxTakes,  \* bound: takes recorded in one behaviour
          MaxSaves,  \* bound: saves begun in one behaviour
          Early      \* a poll may look before the engine has finished a file

ASSUME BoundsAssumption == MaxTakes \in Nat /\ MaxSaves \in Nat
ASSUME EarlyAssumption == Early \in BOOLEAN

VARIABLES
  slot,      \* slot[c]: empty, dirty (the take is only in the buffer) or clean
  take,      \* take[c]: history: the take the pad is about, 0: none
  takes,     \* takes recorded so far, which numbers them
  job,       \* job[c]: the ledger has a save in flight for the cell
  poll,      \* the cell a poll is in the middle of, and how far it has come
  buf,       \* the take in the engine's buffer, 0: none
  requests,  \* save requests on their way to the engine, oldest first
  writing,   \* the file the engine is writing, 0: none
  saves,     \* saves begun so far, which numbers requests and files
  file,      \* file[i]: whose audio, how much of it, how much of that on the device
  tmp,       \* tmp[c]: the file named .part, 0: none
  clip,      \* clip[c]: the file named as the clip, 0: none
  durable    \* durable[c]: the files a power cut may leave named as the clip

vars == <<slot, take, takes, job, poll, buf, requests, writing, saves, file, tmp,
          clip, durable>>
bench == <<slot, take, takes, job, poll>>
engine == <<buf, requests, writing>>
disk == <<file, tmp, clip, durable>>

-----------------------------------------------------------------------------
SlotState == {"empty", "dirty", "clean"}

Usable == 1
Full == 2
File == [take : 0..MaxTakes, size : 0..Full, synced : 0..Full]
Unwritten == [take |-> 0, size |-> 0, synced |-> 0]

PollStage == {"none", "replace", "syncdir"}
Poll == [cell : Cells, at : PollStage \ {"none"}] \cup {[at |-> "none"]}
NotPolling == [at |-> "none"]
MainIdle == poll = NotPolling

Request == [id : 1..MaxSaves, cell : Cells]

Init ==
  /\ slot = [c \in Cells |-> "empty"]
  /\ take = [c \in Cells |-> 0]
  /\ takes = 0
  /\ job = [c \in Cells |-> FALSE]
  /\ poll = NotPolling
  /\ buf = 0
  /\ requests = << >>
  /\ writing = 0
  /\ saves = 0
  /\ file = [i \in 1..MaxSaves |-> Unwritten]
  /\ tmp = [c \in Cells |-> 0]
  /\ clip = [c \in Cells |-> 0]
  /\ durable = [c \in Cells |-> {0}]

-----------------------------------------------------------------------------
(* What SlotRuntime does with its pads and the ledger. *)

\* Mutant of Drop: the save in flight is left to finish.
DropNothing(c) == UNCHANGED <<job, tmp>>

\* The ledger forgets a save in flight and unlinks its temporary file.
Drop(c) ==
  /\ job' = [job EXCEPT ![c] = FALSE]
  /\ tmp' = IF job[c] THEN [tmp EXCEPT ![c] = 0] ELSE tmp

\* A new take is written down on an empty pad.
MarkRecorded(c) ==
  /\ MainIdle
  /\ takes < MaxTakes
  /\ slot[c] = "empty"
  /\ \A d \in Cells : slot[d] # "dirty"
  /\ takes' = takes + 1
  /\ slot' = [slot EXCEPT ![c] = "dirty"]
  /\ take' = [take EXCEPT ![c] = takes + 1]
  /\ buf' = takes + 1
  /\ Drop(c)
  /\ UNCHANGED <<poll, requests, writing, saves, file, clip, durable>>

\* A saved clip is loaded from its file.
LoadClip(c) ==
  /\ MainIdle
  /\ slot[c] = "clean"
  /\ \A d \in Cells : slot[d] # "dirty"
  /\ clip[c] # 0
  /\ buf' = file[clip[c]].take
  /\ UNCHANGED <<bench, requests, writing, saves, disk>>

\* A pad is cleared: its save dropped, its clip unlinked, and the buffer emptied
\* when the pad was the loaded one.
ClearCell(c) ==
  /\ MainIdle
  /\ slot[c] # "empty"
  /\ slot' = [slot EXCEPT ![c] = "empty"]
  /\ take' = [take EXCEPT ![c] = 0]
  /\ Drop(c)
  /\ clip' = [clip EXCEPT ![c] = 0]
  /\ durable' = [durable EXCEPT ![c] = @ \cup {0}]
  /\ buf' = IF buf = take[c] THEN 0 ELSE buf
  /\ UNCHANGED <<takes, poll, requests, writing, saves, file>>

\* Clear All builds a new ledger; the old one's temporary files and the clips stay.
Reset ==
  /\ MainIdle
  /\ slot' = [c \in Cells |-> "empty"]
  /\ take' = [c \in Cells |-> 0]
  /\ job' = [c \in Cells |-> FALSE]
  /\ buf' = 0
  /\ UNCHANGED <<takes, poll, requests, writing, saves, disk>>

\* The unsaved take of a pad is to be saved: the temporary name is freed and the
\* request sent.  The clip already there is left alone.
Begin(c) ==
  /\ MainIdle
  /\ slot[c] = "dirty"
  /\ ~job[c]
  /\ saves < MaxSaves
  /\ saves' = saves + 1
  /\ tmp' = [tmp EXCEPT ![c] = 0]
  /\ requests' = Append(requests, [id |-> saves + 1, cell |-> c])
  /\ job' = [job EXCEPT ![c] = TRUE]
  /\ UNCHANGED <<slot, take, takes, poll, buf, writing, file, clip, durable>>

-----------------------------------------------------------------------------
(* One poll of a save in flight, step by step. *)

\* The temporary file is there and is more than a header.
Arrived(c) == tmp[c] # 0 /\ file[tmp[c]].size >= Usable

\* Not asked by poll: the engine has finished it, if it always does before poll looks.
InTime(c) == Early \/ file[tmp[c]].size = Full

\* Mutant of PollFinds: nothing is flushed before the rename.
PollFindsUnflushed(c) ==
  /\ MainIdle
  /\ job[c]
  /\ Arrived(c)
  /\ InTime(c)
  /\ poll' = [cell |-> c, at |-> "replace"]
  /\ UNCHANGED <<slot, take, takes, job, engine, saves, disk>>

\* Enough is written: what there is of the file is flushed to the device.
PollFinds(c) ==
  /\ MainIdle
  /\ job[c]
  /\ Arrived(c)
  /\ InTime(c)
  /\ file' = [file EXCEPT ![tmp[c]].synced = file[tmp[c]].size]
  /\ poll' = [cell |-> c, at |-> "replace"]
  /\ UNCHANGED <<slot, take, takes, job, engine, saves, tmp, clip, durable>>

\* The file is renamed over the clip.
PollReplaces(c) ==
  /\ poll = [cell |-> c, at |-> "replace"]
  /\ clip' = [clip EXCEPT ![c] = tmp[c]]
  /\ tmp' = [tmp EXCEPT ![c] = 0]
  /\ durable' = [durable EXCEPT ![c] = @ \cup {tmp[c]}]
  /\ poll' = [cell |-> c, at |-> "syncdir"]
  /\ UNCHANGED <<slot, take, takes, job, engine, saves, file>>

\* Mutant of PollCommits: the directory is not flushed.
PollCommitsUnflushed(c) ==
  /\ poll = [cell |-> c, at |-> "syncdir"]
  /\ job' = [job EXCEPT ![c] = FALSE]
  /\ slot' = [slot EXCEPT ![c] = "clean"]
  /\ poll' = NotPolling
  /\ UNCHANGED <<take, takes, engine, saves, disk>>

\* The directory, which every clip shares, is flushed; only then does the pad
\* read saved.
PollCommits(c) ==
  /\ poll = [cell |-> c, at |-> "syncdir"]
  /\ durable' = [d \in Cells |-> {clip[d]}]
  /\ job' = [job EXCEPT ![c] = FALSE]
  /\ slot' = [slot EXCEPT ![c] = "clean"]
  /\ poll' = NotPolling
  /\ UNCHANGED <<take, takes, engine, saves, file, tmp, clip>>

\* Nothing usable has arrived in time: the pad stays unsaved.
PollFails(c) ==
  /\ MainIdle
  /\ job[c]
  /\ ~Arrived(c)
  /\ Drop(c)
  /\ UNCHANGED <<slot, take, takes, poll, engine, saves, file, clip, durable>>

-----------------------------------------------------------------------------
(* The engine and the device. *)

\* The engine takes the next request up.  It creates the file with the buffer's
\* audio, unless there is nothing to save or a file of that name.
EngineOpens ==
  /\ requests # << >>
  /\ writing = 0
  /\ requests' = Tail(requests)
  /\ LET r == Head(requests)
     IN IF buf # 0 /\ tmp[r.cell] = 0
        THEN /\ file' = [file EXCEPT ![r.id] = [Unwritten EXCEPT !.take = buf]]
             /\ tmp' = [tmp EXCEPT ![r.cell] = r.id]
             /\ writing' = r.id
        ELSE UNCHANGED <<file, tmp, writing>>
  /\ UNCHANGED <<bench, buf, saves, clip, durable>>

\* The engine writes on, under whatever name the file has by now.
EngineWrites ==
  /\ writing # 0
  /\ file' = [file EXCEPT ![writing].size = @ + 1]
  /\ writing' = IF file[writing].size + 1 = Full THEN 0 ELSE writing
  /\ UNCHANGED <<bench, buf, requests, saves, tmp, clip, durable>>

\* A request is lost on the way.
RequestLost ==
  /\ requests # << >>
  /\ requests' = Tail(requests)
  /\ UNCHANGED <<bench, buf, writing, saves, disk>>

\* The power goes.  The bench and the engine start afresh; what was flushed is
\* there, and what was not may be.
PowerCut ==
  /\ slot' = [c \in Cells |-> "empty"]
  /\ take' = [c \in Cells |-> 0]
  /\ job' = [c \in Cells |-> FALSE]
  /\ poll' = NotPolling
  /\ buf' = 0
  /\ requests' = << >>
  /\ writing' = 0
  /\ clip' \in {f \in [Cells -> 0..MaxSaves] : \A c \in Cells : f[c] \in durable[c]}
  /\ durable' = [c \in Cells |-> {clip'[c]}]
  /\ tmp' \in {f \in [Cells -> 0..MaxSaves] : \A c \in Cells : f[c] \in {0, tmp[c]}}
  /\ file' = [i \in 1..MaxSaves |-> [file[i] EXCEPT !.size = file[i].synced]]
  /\ UNCHANGED <<takes, saves>>

-----------------------------------------------------------------------------
Ledger(c) == \/ MarkRecorded(c) \/ LoadClip(c) \/ ClearCell(c) \/ Begin(c)
             \/ PollFinds(c) \/ PollReplaces(c) \/ PollCommits(c) \/ PollFails(c)

Next ==
  \/ \E c \in Cells : Ledger(c)
  \/ Reset
  \/ EngineOpens \/ EngineWrites \/ RequestLost
  \/ PowerCut

Spec == Init /\ [][Next]_vars

-----------------------------------------------------------------------------
(* Properties. *)

\* The type invariant.
TypeOK ==
  /\ slot \in [Cells -> SlotState]
  /\ take \in [Cells -> 0..MaxTakes]
  /\ takes \in 0..MaxTakes
  /\ job \in [Cells -> BOOLEAN]
  /\ poll \in Poll
  /\ buf \in 0..MaxTakes
  /\ requests \in Seq(Request)
  /\ writing \in 0..MaxSaves
  /\ saves \in 0..MaxSaves
  /\ file \in [1..MaxSaves -> File]
  /\ tmp \in [Cells -> 0..MaxSaves]
  /\ clip \in [Cells -> 0..MaxSaves]
  /\ durable \in [Cells -> SUBSET (0..MaxSaves)]

\* "A rename that reaches the SD card before the bytes do leaves a manifest naming
\* a truncated file after a power cut": no clip a power cut may leave is a stub.
NeverAStub ==
  \A c \in Cells : \A i \in durable[c] \cup {clip[c]} : i # 0 => file[i].synced >= Usable

\* A save that fails costs nothing: while the power stays on, a clip on disk goes
\* only when its pad is cleared.
ClipKeptUntilCleared ==
  [][\A c \in Cells : clip[c] # 0 /\ clip'[c] = 0 => slot'[c] = "empty"]_vars

\* The promise to the player, without files (module ClipStore).  What a name may hold
\* after a power cut is what was flushed of its file: the whole take or its beginning.
Contents(i) == IF i = 0 THEN [take |-> 0, whole |-> TRUE]
               ELSE [take |-> file[i].take, whole |-> file[i].synced = Full]
Store == INSTANCE ClipStore WITH survives <- [c \in Cells |-> {Contents(i) : i \in durable[c]}]
ImplementsClipStore == Store!Spec
=============================================================================
