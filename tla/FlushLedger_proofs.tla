------------------------- MODULE FlushLedger_proofs --------------------------
(***************************************************************************)
(* Proofs about FlushLedger, for any pads, takes and saves, and for polls    *)
(* that may be early or not: no clip that a power cut may leave is a stub,  *)
(* a save that fails costs no clip, and the ledger implements ClipStore, so *)
(* that what reads saved stays: all of its take, or, if polls may be early, *)
(* at least the beginning of it.                                           *)
(***************************************************************************)
EXTENDS FlushLedger, TLAPS

-----------------------------------------------------------------------------
(* The inductive invariant. *)

\* The files that have a name, or may have one after a power cut.
Named(i) == \E c \in Cells : i \in durable[c] \cup {clip[c], tmp[c]}

\* How much of a file a poll flushes at the least: all of it, unless it may be early.
Enough == IF Early THEN Usable ELSE Full

\* What a power cut may leave as a clip has been flushed that far.
KeepsEnough ==
  \A c \in Cells : \A i \in durable[c] \cup {clip[c]} : i # 0 => file[i].synced >= Enough

\* A poll that has flushed its temporary file still has it: the engine creates a
\* file only under a free name, and the main loop does nothing else meanwhile.
PollHasItsFile ==
  poll # NotPolling /\ poll.at = "replace"
  => tmp[poll.cell] # 0 /\ file[tmp[poll.cell]].synced >= Enough

\* A request on its way is for a file that has never been: requests are numbered in
\* order and taken up in order, and no named file is as young as any of them.
RequestsAreNew ==
  \A n \in 1..Len(requests) :
    /\ requests[n].id <= saves
    /\ \A i \in 1..MaxSaves : Named(i) => i < requests[n].id
    /\ \A m \in 1..Len(requests) : m < n => requests[m].id < requests[n].id

NamedAreOld == \A i \in 1..MaxSaves : Named(i) => i <= saves

\* The engine stops writing once a file is full.
WritingIsUnfinished == writing # 0 => file[writing].size < Full

\* A temporary file is one pad's, and no clip: a poll that flushes it changes what no
\* clip holds.
PartsAreApart ==
  \A c, d \in Cells :
    tmp[c] # 0 => /\ tmp[c] \notin durable[d] \cup {clip[d]}
                  /\ d # c => tmp[d] # tmp[c]

IInv == /\ TypeOK /\ KeepsEnough
        /\ PollHasItsFile /\ RequestsAreNew /\ NamedAreOld /\ WritingIsUnfinished
        /\ PartsAreApart

-----------------------------------------------------------------------------
(* Types. *)

\* The ledger's temporary file, once found, is one of the files.
LEMMA DropType ==
  ASSUME TypeOK, NEW c \in Cells, Drop(c)
  PROVE  job' \in [Cells -> BOOLEAN] /\ tmp' \in [Cells -> 0..MaxSaves]
BY BoundsAssumption DEF TypeOK, Drop

\* Every step keeps the types.
LEMMA TypeKeeps ==
  ASSUME TypeOK, PollHasItsFile, WritingIsUnfinished, [Next]_vars
  PROVE  TypeOK'
<1>1. MaxTakes \in Nat /\ MaxSaves \in Nat
  BY BoundsAssumption
<1>2. ASSUME NEW c \in Cells, MarkRecorded(c) PROVE TypeOK'
  <2>1. takes + 1 \in 0..MaxTakes
    BY <1>1, <1>2 DEF TypeOK, MarkRecorded
  <2>2. job' \in [Cells -> BOOLEAN] /\ tmp' \in [Cells -> 0..MaxSaves]
    BY <1>2, DropType DEF MarkRecorded
  <2>3. QED
    BY <1>2, <2>1, <2>2 DEF TypeOK, MarkRecorded, SlotState
<1>3. ASSUME NEW c \in Cells, LoadClip(c) PROVE TypeOK'
  <2>1. clip[c] \in 1..MaxSaves
    BY <1>1, <1>3 DEF TypeOK, LoadClip
  <2>2. file[clip[c]].take \in 0..MaxTakes
    BY <2>1 DEF TypeOK, File
  <2>3. QED
    BY <1>3, <2>2 DEF TypeOK, LoadClip, bench, disk
<1>4. ASSUME NEW c \in Cells, ClearCell(c) PROVE TypeOK'
  <2>1. job' \in [Cells -> BOOLEAN] /\ tmp' \in [Cells -> 0..MaxSaves]
    BY <1>4, DropType DEF ClearCell
  <2>2. /\ slot' \in [Cells -> SlotState] /\ take' \in [Cells -> 0..MaxTakes]
        /\ clip' \in [Cells -> 0..MaxSaves] /\ buf' \in 0..MaxTakes
        /\ durable' \in [Cells -> SUBSET (0..MaxSaves)]
    BY <1>1, <1>4 DEF TypeOK, ClearCell, SlotState
  <2>3. QED
    BY <1>4, <2>1, <2>2 DEF TypeOK, ClearCell
<1>5. CASE Reset
  BY <1>1, <1>5 DEF TypeOK, Reset, SlotState, disk
<1>6. ASSUME NEW c \in Cells, Begin(c) PROVE TypeOK'
  <2>1. saves + 1 \in 1..MaxSaves
    BY <1>1, <1>6 DEF TypeOK, Begin
  <2>2. requests' \in Seq(Request)
    BY <1>6, <2>1 DEF TypeOK, Begin, Request
  <2>3. QED
    BY <1>1, <1>6, <2>1, <2>2 DEF TypeOK, Begin
<1>7. ASSUME NEW c \in Cells, PollFinds(c) PROVE TypeOK'
  <2>1. tmp[c] \in 1..MaxSaves
    BY <1>1, <1>7 DEF TypeOK, PollFinds, Arrived
  <2>2. file' \in [1..MaxSaves -> File]
    BY <1>7, <2>1 DEF TypeOK, PollFinds, File
  <2>3. poll' \in Poll
    BY <1>7 DEF PollFinds, Poll, PollStage
  <2>4. QED
    BY <1>7, <2>2, <2>3 DEF TypeOK, PollFinds, engine
<1>8. ASSUME NEW c \in Cells, PollReplaces(c) PROVE TypeOK'
  <2>1. poll' \in Poll
    BY <1>8 DEF PollReplaces, Poll, PollStage
  <2>2. QED
    BY <1>1, <1>8, <2>1 DEF TypeOK, PollReplaces, engine
<1>9. ASSUME NEW c \in Cells, PollCommits(c) PROVE TypeOK'
  <2>1. durable' = [d \in Cells |-> {clip[d]}] /\ poll' = NotPolling
    BY <1>9 DEF PollCommits
  <2>2. durable' \in [Cells -> SUBSET (0..MaxSaves)] /\ poll' \in Poll
    BY <2>1 DEF TypeOK, Poll, NotPolling
  <2>3. QED
    BY <1>9, <2>2 DEF TypeOK, PollCommits, engine, SlotState
<1>10. ASSUME NEW c \in Cells, PollFails(c) PROVE TypeOK'
  <2>1. job' \in [Cells -> BOOLEAN] /\ tmp' \in [Cells -> 0..MaxSaves]
    BY <1>10, DropType DEF PollFails
  <2>2. QED
    BY <1>10, <2>1 DEF TypeOK, PollFails, engine
<1>11. CASE EngineOpens
  <2>1. Head(requests) \in Request /\ Tail(requests) \in Seq(Request)
    BY <1>11 DEF TypeOK, EngineOpens
  <2>2. [Unwritten EXCEPT !.take = buf] \in File
    BY DEF TypeOK, Unwritten, File, Full
  <2>3. /\ file' \in [1..MaxSaves -> File] /\ tmp' \in [Cells -> 0..MaxSaves]
        /\ writing' \in 0..MaxSaves /\ requests' = Tail(requests)
    <3> DEFINE r == Head(requests)
               fresh == [Unwritten EXCEPT !.take = buf]
    <3>1. r.id \in 1..MaxSaves /\ r.cell \in Cells
      BY <2>1 DEF Request
    <3> HIDE DEF r
    <3>2. /\ requests' = Tail(requests)
          /\ \/ /\ file' = [file EXCEPT ![r.id] = fresh]
                /\ tmp' = [tmp EXCEPT ![r.cell] = r.id]
                /\ writing' = r.id
             \/ UNCHANGED <<file, tmp, writing>>
      BY <1>11 DEF EngineOpens, r
    <3>3. fresh \in File
      BY <2>2
    <3> HIDE DEF fresh
    <3>4. file' \in [1..MaxSaves -> File]
      BY <3>1, <3>2, <3>3 DEF TypeOK
    <3>5. tmp' \in [Cells -> 0..MaxSaves] /\ writing' \in 0..MaxSaves
      <4>1. r.id \in 0..MaxSaves
        BY <1>1, <3>1
      <4>2. CASE /\ tmp' = [tmp EXCEPT ![r.cell] = r.id]
                 /\ writing' = r.id
        BY <3>1, <4>1, <4>2 DEF TypeOK
      <4>3. CASE UNCHANGED <<file, tmp, writing>>
        BY <4>3 DEF TypeOK
      <4>4. QED
        BY <3>2, <4>2, <4>3
    <3>6. QED
      BY <3>2, <3>4, <3>5
  <2>4. QED
    BY <1>11, <2>1, <2>3 DEF TypeOK, EngineOpens, bench
<1>12. CASE EngineWrites
  <2>1. writing \in 1..MaxSaves
    BY <1>1, <1>12 DEF TypeOK, EngineWrites
  <2>2. file[writing].size + 1 \in 0..Full /\ file[writing] \in File
    BY <1>12, <2>1 DEF TypeOK, EngineWrites, File, Full, WritingIsUnfinished
  <2>3. file' = [file EXCEPT ![writing] = [file[writing] EXCEPT
                                             !.size = file[writing].size + 1]]
    BY <1>12 DEF EngineWrites
  <2>4. file' \in [1..MaxSaves -> File]
    BY <2>1, <2>2, <2>3 DEF TypeOK, File
  <2>5. QED
    BY <1>1, <1>12, <2>4 DEF TypeOK, EngineWrites, bench
<1>13. CASE RequestLost
  <2>1. Tail(requests) \in Seq(Request)
    BY <1>13 DEF TypeOK, RequestLost
  <2>2. QED
    BY <1>13, <2>1 DEF TypeOK, RequestLost, bench, disk
<1>14. CASE PowerCut
  <2>1. file' \in [1..MaxSaves -> File]
    BY <1>14 DEF TypeOK, PowerCut, File
  <2>2. /\ clip' \in [Cells -> 0..MaxSaves] /\ tmp' \in [Cells -> 0..MaxSaves]
        /\ durable' = [c \in Cells |-> {clip'[c]}]
    BY <1>14 DEF PowerCut
  <2>3. durable' \in [Cells -> SUBSET (0..MaxSaves)]
    BY <2>2
  <2>4. << >> \in Seq(Request)
    OBVIOUS
  <2>5. QED
    BY <1>1, <1>14, <2>1, <2>2, <2>3, <2>4
    DEF TypeOK, PowerCut, SlotState, Poll, NotPolling
<1>15. CASE UNCHANGED vars
  BY <1>15 DEF TypeOK, vars
<1>16. QED
  BY <1>2, <1>3, <1>4, <1>5, <1>6, <1>7, <1>8, <1>9, <1>10, <1>11, <1>12, <1>13, <1>14,
     <1>15 DEF Next, Ledger

-----------------------------------------------------------------------------
(* Names.  Only the engine names a file, and only for the oldest request.    *)

NamesShrink == \A i \in 1..MaxSaves : Named(i)' => Named(i)

\* A step that names no file and sends no request.
LEMMA NamesKeep ==
  ASSUME TypeOK, RequestsAreNew, NamedAreOld, NamesShrink, saves' = saves,
         requests' \in {requests, << >>} \/ (requests # << >> /\ requests' = Tail(requests))
  PROVE  RequestsAreNew' /\ NamedAreOld'
<1>1. requests \in Seq(Request)
  BY DEF TypeOK
<1>2. NamedAreOld'
  BY DEF NamesShrink, NamedAreOld
<1>3. CASE requests' = requests
  BY <1>2, <1>3 DEF RequestsAreNew, NamesShrink
<1>4. CASE requests' = << >>
  <2>1. 1..Len(requests') = {}
    BY <1>4
  <2>2. QED
    BY <1>2, <2>1 DEF RequestsAreNew
<1>5. CASE requests # << >> /\ requests' = Tail(requests)
  <2>1. /\ Len(requests') = Len(requests) - 1 /\ Len(requests) \in Nat \ {0}
        /\ \A n \in 1..Len(requests') : requests'[n] = requests[n + 1]
    BY <1>1, <1>5
  <2>2. ASSUME NEW n \in 1..Len(requests')
        PROVE  /\ requests'[n].id <= saves
               /\ \A i \in 1..MaxSaves : Named(i)' => i < requests'[n].id
               /\ \A m \in 1..Len(requests') : m < n => requests'[m].id < requests'[n].id
    <3>1. n + 1 \in 1..Len(requests) /\ requests'[n] = requests[n + 1]
      BY <2>1
    <3>2. requests[n + 1].id <= saves
          /\ \A i \in 1..MaxSaves : Named(i) => i < requests[n + 1].id
      BY <3>1 DEF RequestsAreNew
    <3>3. ASSUME NEW m \in 1..Len(requests'), m < n
          PROVE  requests'[m].id < requests'[n].id
      <4>1. m + 1 \in 1..Len(requests) /\ m + 1 < n + 1 /\ requests'[m] = requests[m + 1]
        BY <2>1, <3>3
      <4>2. QED
        BY <3>1, <4>1 DEF RequestsAreNew
    <3>4. QED
      BY <3>1, <3>2, <3>3 DEF NamesShrink
  <2>3. QED
    BY <1>2, <2>2 DEF RequestsAreNew
<1>6. QED
  BY <1>2, <1>3, <1>4, <1>5

\* A file keeps its clip safe as long as nothing unflushed is named or becomes so.
LEMMA EnoughKeeps ==
  ASSUME TypeOK, KeepsEnough,
         \A c \in Cells : durable'[c] \cup {clip'[c]} \subseteq durable[c] \cup {clip[c], 0},
         \A i \in 1..MaxSaves : file[i].synced >= Enough => file'[i].synced >= Enough
  PROVE  KeepsEnough'
<1> SUFFICES ASSUME NEW c \in Cells, NEW i \in durable'[c] \cup {clip'[c]}, i # 0
             PROVE  file'[i].synced >= Enough
  BY DEF KeepsEnough
<1>1. i \in durable[c] \cup {clip[c]} /\ i \in 1..MaxSaves
  BY BoundsAssumption DEF TypeOK
<1>2. QED
  BY <1>1 DEF KeepsEnough

\* The bench's own steps between polls, and the requests lost.
LEMMA BenchKeeps ==
  ASSUME IInv,
         \/ \E c \in Cells : MarkRecorded(c) \/ LoadClip(c) \/ ClearCell(c) \/ PollFails(c)
         \/ Reset \/ RequestLost \/ UNCHANGED vars
  PROVE  /\ KeepsEnough' /\ PollHasItsFile' /\ RequestsAreNew' /\ NamedAreOld'
         /\ WritingIsUnfinished'
<1>1. /\ TypeOK /\ KeepsEnough /\ PollHasItsFile /\ RequestsAreNew /\ NamedAreOld
      /\ WritingIsUnfinished
  BY DEF IInv
<1>2. /\ file' = file /\ poll' = poll /\ saves' = saves /\ writing' = writing
      /\ requests' = requests \/ (requests # << >> /\ requests' = Tail(requests))
      /\ tmp' = tmp \/ (poll = NotPolling /\ \A c \in Cells : tmp'[c] \in {tmp[c], 0})
      /\ \A c \in Cells : clip'[c] \in {clip[c], 0} /\ durable'[c] \subseteq durable[c] \cup {0}
  BY <1>1 DEF TypeOK, MarkRecorded, LoadClip, ClearCell, PollFails, Reset, RequestLost,
     vars, Drop, MainIdle, bench, engine, disk
<1>3. KeepsEnough'
  BY <1>1, <1>2, EnoughKeeps
<1>4. NamesShrink
  BY <1>2 DEF NamesShrink, Named
<1>5. RequestsAreNew' /\ NamedAreOld'
  BY <1>1, <1>2, <1>4, NamesKeep
<1>6. PollHasItsFile'
  BY <1>1, <1>2 DEF PollHasItsFile
<1>7. WritingIsUnfinished'
  BY <1>1, <1>2 DEF WritingIsUnfinished
<1>8. QED
  BY <1>3, <1>5, <1>6, <1>7

\* The ledger begins a save: its request is younger than every file and request.
LEMMA BeginKeeps ==
  ASSUME IInv, NEW c \in Cells, Begin(c)
  PROVE  /\ KeepsEnough' /\ PollHasItsFile' /\ RequestsAreNew' /\ NamedAreOld'
         /\ WritingIsUnfinished'
<1>1. /\ TypeOK /\ KeepsEnough /\ RequestsAreNew /\ NamedAreOld /\ WritingIsUnfinished
      /\ requests \in Seq(Request) /\ saves \in Nat /\ MaxSaves \in Nat
  BY BoundsAssumption DEF IInv, TypeOK
<1>2. /\ poll = NotPolling /\ poll' = poll /\ file' = file /\ writing' = writing
      /\ saves' = saves + 1 /\ clip' = clip /\ durable' = durable
      /\ requests' = Append(requests, [id |-> saves + 1, cell |-> c])
      /\ tmp' = [tmp EXCEPT ![c] = 0]
  BY DEF Begin, MainIdle
<1>3. NamesShrink
  BY <1>1, <1>2 DEF NamesShrink, Named, TypeOK
<1>4. NamedAreOld'
  BY <1>1, <1>2, <1>3 DEF NamesShrink, NamedAreOld
<1>5. RequestsAreNew'
  <2>1. /\ Len(requests') = Len(requests) + 1
        /\ \A n \in 1..Len(requests) : requests'[n] = requests[n]
        /\ requests'[Len(requests) + 1].id = saves + 1
    BY <1>1, <1>2
  <2>2. ASSUME NEW n \in 1..Len(requests')
        PROVE  /\ requests'[n].id <= saves'
               /\ \A i \in 1..MaxSaves : Named(i)' => i < requests'[n].id
               /\ \A m \in 1..Len(requests') : m < n => requests'[m].id < requests'[n].id
    <3>1. \A m \in 1..Len(requests) : requests[m].id \in Nat /\ requests[m].id <= saves
      <4>1. \A m \in 1..Len(requests) : requests[m] \in Request
        BY <1>1
      <4>2. \A r \in Request : r.id \in Nat
        BY DEF Request
      <4>3. QED
        BY <1>1, <4>1, <4>2 DEF RequestsAreNew
    <3>2. CASE n \in 1..Len(requests)
      <4>1. \A m \in 1..Len(requests') : m < n => m \in 1..Len(requests)
        BY <3>2
      <4>2. QED
        BY <1>1, <1>2, <1>3, <2>1, <3>1, <3>2, <4>1 DEF RequestsAreNew, NamesShrink
    <3>3. CASE n = Len(requests) + 1
      <4>1. \A m \in 1..Len(requests') : m < n => m \in 1..Len(requests)
        BY <1>1, <2>1, <3>3
      <4>2. QED
        BY <1>1, <1>2, <1>3, <2>1, <3>1, <3>3, <4>1 DEF NamedAreOld, NamesShrink
    <3>4. QED
      BY <1>1, <2>1, <3>2, <3>3
  <2>3. QED
    BY <2>2 DEF RequestsAreNew
<1>6. KeepsEnough'
  BY <1>1, <1>2, EnoughKeeps
<1>7. PollHasItsFile'
  BY <1>2 DEF PollHasItsFile
<1>8. WritingIsUnfinished'
  BY <1>1, <1>2 DEF WritingIsUnfinished
<1>9. QED
  BY <1>4, <1>5, <1>6, <1>7, <1>8

\* A poll finds the file and flushes it.
LEMMA PollFindsKeeps ==
  ASSUME IInv, NEW c \in Cells, PollFinds(c)
  PROVE  /\ KeepsEnough' /\ PollHasItsFile' /\ RequestsAreNew' /\ NamedAreOld'
         /\ WritingIsUnfinished'
<1>1. TypeOK /\ KeepsEnough /\ RequestsAreNew /\ NamedAreOld /\ WritingIsUnfinished
  BY DEF IInv
<1>2. /\ tmp[c] \in 1..MaxSaves /\ file[tmp[c]].size >= Enough
      /\ file' = [file EXCEPT ![tmp[c]] = [file[tmp[c]] EXCEPT !.synced = file[tmp[c]].size]]
      /\ poll' = [cell |-> c, at |-> "replace"]
      /\ UNCHANGED <<requests, writing, saves, tmp, clip, durable>>
  BY <1>1, BoundsAssumption, EarlyAssumption
  DEF PollFinds, Arrived, InTime, Enough, Full, TypeOK, engine
<1>3. \A i \in 1..MaxSaves : /\ file'[i].size = file[i].size
                             /\ file'[i].synced = file[i].synced \/ i = tmp[c]
  BY <1>1, <1>2 DEF TypeOK, File
<1>4. file'[tmp[c]].synced >= Enough
  BY <1>1, <1>2 DEF TypeOK, File
<1>5. KeepsEnough'
  <2>1. \A i \in 1..MaxSaves : file[i].synced >= Enough => file'[i].synced >= Enough
    BY <1>3, <1>4
  <2>2. QED
    BY <1>1, <1>2, <2>1, EnoughKeeps
<1>6. RequestsAreNew' /\ NamedAreOld'
  BY <1>1, <1>2, NamesKeep DEF NamesShrink, Named
<1>7. PollHasItsFile'
  BY <1>2, <1>4 DEF PollHasItsFile
<1>8. WritingIsUnfinished'
  <2>1. writing \in 0..MaxSaves /\ MaxSaves \in Nat
    BY <1>1, BoundsAssumption DEF TypeOK
  <2>2. writing # 0 => file'[writing].size = file[writing].size
    BY <1>3, <2>1
  <2>3. QED
    BY <1>1, <1>2, <2>2 DEF WritingIsUnfinished
<1>9. QED
  BY <1>5, <1>6, <1>7, <1>8

\* A poll renames the file it has flushed.
LEMMA PollReplacesKeeps ==
  ASSUME IInv, NEW c \in Cells, PollReplaces(c)
  PROVE  /\ KeepsEnough' /\ PollHasItsFile' /\ RequestsAreNew' /\ NamedAreOld'
         /\ WritingIsUnfinished'
<1>1. TypeOK /\ KeepsEnough /\ RequestsAreNew /\ NamedAreOld /\ WritingIsUnfinished
  BY DEF IInv
<1>2. /\ poll = [cell |-> c, at |-> "replace"] /\ poll' = [cell |-> c, at |-> "syncdir"]
      /\ clip' = [clip EXCEPT ![c] = tmp[c]] /\ tmp' = [tmp EXCEPT ![c] = 0]
      /\ durable' = [durable EXCEPT ![c] = durable[c] \cup {tmp[c]}]
      /\ UNCHANGED <<requests, writing, saves, file>>
  BY DEF PollReplaces, engine
<1>3. tmp[c] # 0 /\ file[tmp[c]].synced >= Enough
  BY <1>2 DEF IInv, PollHasItsFile, NotPolling
<1>4. KeepsEnough'
  <2> SUFFICES ASSUME NEW d \in Cells, NEW i \in durable'[d] \cup {clip'[d]}, i # 0
               PROVE  file'[i].synced >= Enough
    BY DEF KeepsEnough
  <2>1. i \in durable[d] \cup {clip[d]} \/ i = tmp[c]
    BY <1>1, <1>2 DEF TypeOK
  <2>2. QED
    BY <1>1, <1>2, <1>3, <2>1 DEF KeepsEnough
<1>5. NamesShrink
  BY <1>1, <1>2 DEF NamesShrink, Named, TypeOK
<1>6. RequestsAreNew' /\ NamedAreOld'
  BY <1>1, <1>2, <1>5, NamesKeep
<1>7. PollHasItsFile'
  BY <1>2 DEF PollHasItsFile
<1>8. QED
  BY <1>1, <1>2, <1>4, <1>6, <1>7 DEF WritingIsUnfinished

\* A poll flushes the directory: what is named is what survives.
LEMMA PollCommitsKeeps ==
  ASSUME IInv, NEW c \in Cells, PollCommits(c)
  PROVE  /\ KeepsEnough' /\ PollHasItsFile' /\ RequestsAreNew' /\ NamedAreOld'
         /\ WritingIsUnfinished'
<1>1. TypeOK /\ KeepsEnough /\ RequestsAreNew /\ NamedAreOld /\ WritingIsUnfinished
  BY DEF IInv
<1>2. /\ poll' = NotPolling /\ \A d \in Cells : durable'[d] = {clip[d]}
      /\ UNCHANGED <<requests, writing, saves, file, tmp, clip>>
  BY DEF PollCommits, engine
<1>3. KeepsEnough'
  BY <1>1, <1>2, EnoughKeeps
<1>4. RequestsAreNew' /\ NamedAreOld'
  BY <1>1, <1>2, NamesKeep DEF NamesShrink, Named
<1>5. QED
  BY <1>1, <1>2, <1>3, <1>4 DEF PollHasItsFile, WritingIsUnfinished

\* The engine takes the oldest request up: the file it creates has never been.
LEMMA EngineOpensKeeps ==
  ASSUME IInv, EngineOpens
  PROVE  /\ KeepsEnough' /\ PollHasItsFile' /\ RequestsAreNew' /\ NamedAreOld'
         /\ WritingIsUnfinished'
<1> DEFINE r == Head(requests)
<1>1. /\ TypeOK /\ KeepsEnough /\ PollHasItsFile /\ RequestsAreNew /\ NamedAreOld
      /\ WritingIsUnfinished /\ requests \in Seq(Request) /\ requests # << >>
  BY DEF IInv, TypeOK, EngineOpens
<1>2. r \in Request /\ r.id \in 1..MaxSaves /\ r.cell \in Cells
  <2>1. r \in Request
    BY <1>1
  <2>2. QED
    BY <2>1 DEF Request
<1>3. /\ Len(requests) \in Nat \ {0} /\ requests[1] = r
      /\ Len(Tail(requests)) = Len(requests) - 1
      /\ \A n \in 1..Len(Tail(requests)) : Tail(requests)[n] = requests[n + 1]
  BY <1>1
<1>4. r.id <= saves /\ ~Named(r.id) /\ saves \in Nat
  BY <1>1, <1>2, <1>3, BoundsAssumption DEF RequestsAreNew, TypeOK
<1> HIDE DEF r
<1>5. /\ requests' = Tail(requests) /\ writing = 0
      /\ \/ /\ tmp[r.cell] = 0
            /\ file' = [file EXCEPT ![r.id] = [Unwritten EXCEPT !.take = buf]]
            /\ tmp' = [tmp EXCEPT ![r.cell] = r.id]
            /\ writing' = r.id
         \/ UNCHANGED <<file, tmp, writing>>
      /\ UNCHANGED <<poll, saves, clip, durable>>
  BY DEF EngineOpens, r, bench
<1>6. CASE UNCHANGED <<file, tmp, writing>>
  <2>1. RequestsAreNew' /\ NamedAreOld'
    BY <1>1, <1>5, <1>6, NamesKeep DEF NamesShrink, Named
  <2>2. KeepsEnough'
    BY <1>1, <1>5, <1>6, EnoughKeeps
  <2>3. QED
    BY <1>1, <1>5, <1>6, <2>1, <2>2 DEF PollHasItsFile, WritingIsUnfinished
<1>7. CASE /\ tmp[r.cell] = 0
           /\ file' = [file EXCEPT ![r.id] = [Unwritten EXCEPT !.take = buf]]
           /\ tmp' = [tmp EXCEPT ![r.cell] = r.id]
           /\ writing' = r.id
  <2>1. \A i \in 1..MaxSaves : Named(i) => file'[i] = file[i]
    BY <1>1, <1>2, <1>4, <1>7 DEF TypeOK
  <2>2. \A i \in 1..MaxSaves : Named(i)' => Named(i) \/ i = r.id
    BY <1>1, <1>2, <1>5, <1>7 DEF Named, TypeOK
  <2>3. KeepsEnough'
    <3> SUFFICES ASSUME NEW c \in Cells, NEW i \in durable'[c] \cup {clip'[c]}, i # 0
                 PROVE  file'[i].synced >= Enough
      BY DEF KeepsEnough
    <3>1. i \in durable[c] \cup {clip[c]} /\ i \in 1..MaxSaves
      BY <1>1, <1>5, BoundsAssumption DEF TypeOK
    <3>2. Named(i)
      BY <3>1 DEF Named
    <3>3. QED
      BY <1>1, <2>1, <3>1, <3>2 DEF KeepsEnough
  <2>4. PollHasItsFile'
    <3> SUFFICES ASSUME poll # NotPolling, poll.at = "replace"
                 PROVE  tmp'[poll.cell] # 0 /\ file'[tmp'[poll.cell]].synced >= Enough
      BY <1>5 DEF PollHasItsFile
    <3>1. /\ poll.cell \in Cells /\ tmp[poll.cell] # 0
          /\ file[tmp[poll.cell]].synced >= Enough
      BY <1>1 DEF PollHasItsFile, TypeOK, Poll, NotPolling
    <3>2. tmp'[poll.cell] = tmp[poll.cell] /\ tmp[poll.cell] \in 1..MaxSaves
      BY <1>1, <1>2, <1>7, <3>1, BoundsAssumption DEF TypeOK
    <3>3. Named(tmp[poll.cell])
      BY <3>1 DEF Named
    <3>4. QED
      BY <2>1, <3>1, <3>2, <3>3
  <2>5. NamedAreOld'
    BY <1>1, <1>4, <1>5, <2>2 DEF NamedAreOld
  <2>6. RequestsAreNew'
    <3> SUFFICES ASSUME NEW n \in 1..Len(Tail(requests))
                 PROVE  /\ requests'[n].id <= saves
                        /\ \A i \in 1..MaxSaves : Named(i)' => i < requests'[n].id
                        /\ \A m \in 1..Len(Tail(requests)) :
                             m < n => requests'[m].id < requests'[n].id
      BY <1>5 DEF RequestsAreNew
    <3>1. n + 1 \in 1..Len(requests) /\ 1 < n + 1 /\ requests'[n] = requests[n + 1]
          /\ 1 \in 1..Len(requests)
      BY <1>3, <1>5
    <3>2. /\ requests[n + 1].id <= saves /\ r.id < requests[n + 1].id
          /\ \A i \in 1..MaxSaves : Named(i) => i < requests[n + 1].id
      BY <1>1, <1>3, <3>1 DEF RequestsAreNew
    <3>3. ASSUME NEW m \in 1..Len(Tail(requests)), m < n
          PROVE  requests'[m].id < requests'[n].id
      <4>1. m + 1 \in 1..Len(requests) /\ m + 1 < n + 1 /\ requests'[m] = requests[m + 1]
        BY <1>3, <1>5, <3>3
      <4>2. QED
        BY <1>1, <3>1, <4>1 DEF RequestsAreNew
    <3>4. QED
      BY <2>2, <3>1, <3>2, <3>3
  <2>7. WritingIsUnfinished'
    <3>1. file'[r.id] = [Unwritten EXCEPT !.take = buf]
      BY <1>1, <1>2, <1>7 DEF TypeOK
    <3>2. QED
      BY <1>7, <3>1 DEF WritingIsUnfinished, Unwritten, Full
  <2>8. QED
    BY <2>3, <2>4, <2>5, <2>6, <2>7
<1>8. QED
  BY <1>5, <1>6, <1>7

\* The engine writes on: only the size of the file changes.
LEMMA EngineWritesKeeps ==
  ASSUME IInv, EngineWrites
  PROVE  /\ KeepsEnough' /\ PollHasItsFile' /\ RequestsAreNew' /\ NamedAreOld'
         /\ WritingIsUnfinished'
<1>1. /\ TypeOK /\ KeepsEnough /\ PollHasItsFile /\ RequestsAreNew /\ NamedAreOld
      /\ WritingIsUnfinished
  BY DEF IInv
<1> DEFINE more == file[writing].size + 1
<1>2. /\ writing \in 1..MaxSaves /\ UNCHANGED <<poll, requests, saves, tmp, clip, durable>>
      /\ file' = [file EXCEPT ![writing] = [file[writing] EXCEPT !.size = more]]
      /\ writing' = IF more = Full THEN 0 ELSE writing
  BY <1>1, BoundsAssumption DEF EngineWrites, TypeOK, bench
<1>3. /\ \A i \in 1..MaxSaves : file'[i].synced = file[i].synced
      /\ file'[writing].size = more /\ more \in 0..Full
  <2>1. file \in [1..MaxSaves -> File] /\ file[writing] \in File
        /\ file[writing].size < Full
    BY <1>1, <1>2, BoundsAssumption DEF TypeOK, WritingIsUnfinished
  <2>2. more \in 0..Full
    BY <2>1 DEF File, Full
  <2>3. [file[writing] EXCEPT !.size = more].synced = file[writing].synced
        /\ [file[writing] EXCEPT !.size = more].size = more
    BY <2>1 DEF File
  <2> HIDE DEF more
  <2>4. QED
    BY <1>2, <2>1, <2>2, <2>3
<1> HIDE DEF more
<1>4. KeepsEnough'
  BY <1>1, <1>2, <1>3, EnoughKeeps
<1>5. RequestsAreNew' /\ NamedAreOld'
  BY <1>1, <1>2, NamesKeep DEF NamesShrink, Named
<1>6. PollHasItsFile'
  <2>1. poll # NotPolling /\ poll.at = "replace" => tmp[poll.cell] \in 0..MaxSaves
    BY <1>1 DEF TypeOK, Poll, NotPolling
  <2>2. QED
    BY <1>1, <1>2, <1>3, <2>1, BoundsAssumption DEF PollHasItsFile
<1>7. WritingIsUnfinished'
  BY <1>2, <1>3 DEF WritingIsUnfinished, Full
<1>8. QED
  BY <1>4, <1>5, <1>6, <1>7

\* The power goes: what is left under a clip's name was flushed.
LEMMA PowerCutKeeps ==
  ASSUME IInv, PowerCut
  PROVE  /\ KeepsEnough' /\ PollHasItsFile' /\ RequestsAreNew' /\ NamedAreOld'
         /\ WritingIsUnfinished'
<1>1. TypeOK /\ KeepsEnough /\ RequestsAreNew /\ NamedAreOld
  BY DEF IInv
<1>2. /\ poll' = NotPolling /\ requests' = << >> /\ writing' = 0 /\ saves' = saves
      /\ \A c \in Cells : /\ clip'[c] \in durable[c] /\ durable'[c] = {clip'[c]}
                          /\ tmp'[c] \in {0, tmp[c]}
      /\ \A i \in 1..MaxSaves : file'[i] = [file[i] EXCEPT !.size = file[i].synced]
  BY DEF PowerCut
<1>3. ASSUME NEW i \in 1..MaxSaves PROVE file'[i].synced = file[i].synced
  <2>1. file[i] \in File
    BY <1>1 DEF TypeOK
  <2>2. [file[i] EXCEPT !.size = file[i].synced].synced = file[i].synced
    BY <2>1 DEF File
  <2>3. QED
    BY <1>2, <2>2
<1>4. KeepsEnough'
  BY <1>1, <1>2, <1>3, EnoughKeeps
<1>5. RequestsAreNew' /\ NamedAreOld'
  BY <1>1, <1>2, NamesKeep DEF NamesShrink, Named
<1>6. QED
  BY <1>2, <1>4, <1>5 DEF PollHasItsFile, WritingIsUnfinished

\* The temporary files stay apart: a new one has never been, and the one renamed is
\* given up.
LEMMA PartsKeep ==
  ASSUME IInv, [Next]_vars
  PROVE  PartsAreApart'
<1>1. TypeOK /\ PartsAreApart /\ MaxSaves \in Nat
  BY BoundsAssumption DEF IInv
<1>2. CASE /\ \A c \in Cells : tmp'[c] \in {tmp[c], 0}
           /\ \A c \in Cells :
                durable'[c] \cup {clip'[c]} \subseteq durable[c] \cup {clip[c], 0}
  <2> SUFFICES ASSUME NEW c \in Cells, NEW d \in Cells, tmp'[c] # 0
               PROVE  /\ tmp'[c] \notin durable'[d] \cup {clip'[d]}
                      /\ d # c => tmp'[d] # tmp'[c]
    BY DEF PartsAreApart
  <2>1. tmp'[c] = tmp[c] /\ tmp[c] \notin durable[d] \cup {clip[d], 0}
    BY <1>1, <1>2 DEF PartsAreApart
  <2>2. d # c => tmp[d] # tmp[c]
    BY <1>1, <2>1 DEF PartsAreApart
  <2>3. QED
    BY <1>2, <2>1, <2>2
<1>3. ASSUME NEW c \in Cells, PollReplaces(c) PROVE PartsAreApart'
  <2>1. /\ tmp' = [tmp EXCEPT ![c] = 0] /\ clip' = [clip EXCEPT ![c] = tmp[c]]
        /\ durable' = [durable EXCEPT ![c] = durable[c] \cup {tmp[c]}]
    BY <1>3 DEF PollReplaces
  <2> SUFFICES ASSUME NEW d \in Cells, NEW e \in Cells, tmp'[d] # 0
               PROVE  /\ tmp'[d] \notin durable'[e] \cup {clip'[e]}
                      /\ e # d => tmp'[e] # tmp'[d]
    BY DEF PartsAreApart
  <2>2. d # c /\ tmp'[d] = tmp[d] /\ tmp[d] # tmp[c]
    BY <1>1, <2>1 DEF TypeOK, PartsAreApart
  <2>3. tmp[d] \notin durable[e] \cup {clip[e]} /\ (e # d => tmp[e] # tmp[d])
    BY <1>1, <2>2 DEF PartsAreApart
  <2>4. durable'[e] \cup {clip'[e]} \subseteq durable[e] \cup {clip[e], tmp[c]}
        /\ tmp'[e] \in {tmp[e], 0}
    BY <1>1, <2>1 DEF TypeOK
  <2>5. QED
    BY <2>2, <2>3, <2>4
<1>4. CASE EngineOpens
  <2> DEFINE r == Head(requests)
  <2>1. requests \in Seq(Request) /\ requests # << >>
    BY <1>1, <1>4 DEF TypeOK, EngineOpens
  <2>2. r \in Request /\ r = requests[1] /\ 1 \in 1..Len(requests)
    BY <2>1
  <2>3. r.id \in 1..MaxSaves /\ r.cell \in Cells
    BY <2>2 DEF Request
  <2>4. ~Named(r.id)
    BY <2>2, <2>3 DEF IInv, RequestsAreNew
  <2>5. /\ UNCHANGED <<clip, durable>>
        /\ tmp' = [tmp EXCEPT ![r.cell] = r.id] \/ tmp' = tmp
    BY <1>4 DEF EngineOpens
  <2> HIDE DEF r
  <2>6. CASE tmp' = tmp
    BY <1>1, <2>5, <2>6 DEF PartsAreApart
  <2>7. CASE tmp' = [tmp EXCEPT ![r.cell] = r.id]
    <3> SUFFICES ASSUME NEW c \in Cells, NEW d \in Cells, tmp'[c] # 0
                 PROVE  /\ tmp'[c] \notin durable[d] \cup {clip[d]}
                        /\ d # c => tmp'[d] # tmp'[c]
      BY <2>5 DEF PartsAreApart
    <3>1. \A e \in Cells : tmp'[e] = IF e = r.cell THEN r.id ELSE tmp[e]
      BY <1>1, <2>3, <2>7 DEF TypeOK
    <3>2. r.id \notin durable[d] \cup {clip[d], tmp[d], tmp[c]}
      BY <2>4 DEF Named
    <3>3. tmp[c] # 0 => /\ tmp[c] \notin durable[d] \cup {clip[d]}
                        /\ d # c => tmp[d] # tmp[c]
      BY <1>1 DEF PartsAreApart
    <3>4. QED
      BY <3>1, <3>2, <3>3
  <2>8. QED
    BY <2>5, <2>6, <2>7
<1>5. ASSUME NEW c \in Cells,
             MarkRecorded(c) \/ LoadClip(c) \/ ClearCell(c) \/ Begin(c) \/ PollFinds(c)
             \/ PollCommits(c) \/ PollFails(c)
      PROVE  PartsAreApart'
  <2>1. \A d \in Cells : tmp'[d] \in {tmp[d], 0}
    BY <1>1, <1>5 DEF TypeOK, MarkRecorded, LoadClip, ClearCell, Begin, PollFinds,
       PollCommits, PollFails, Drop, disk
  <2>2. ASSUME NEW d \in Cells
        PROVE  durable'[d] \subseteq durable[d] \cup {clip[d], 0} /\ clip'[d] \in {clip[d], 0}
    <3>1. CASE ClearCell(c)
      BY <1>1, <3>1 DEF TypeOK, ClearCell
    <3>2. CASE PollCommits(c)
      BY <1>1, <3>2 DEF TypeOK, PollCommits
    <3>3. CASE UNCHANGED <<clip, durable>>
      BY <3>3
    <3>4. QED
      BY <1>5, <3>1, <3>2, <3>3 DEF MarkRecorded, LoadClip, Begin, PollFinds, PollFails, disk
  <2>3. QED
    BY <1>2, <2>1, <2>2
<1>6. CASE PowerCut
  <2>1. \A d \in Cells : tmp'[d] \in {tmp[d], 0} /\ clip'[d] \in durable[d]
                         /\ durable'[d] = {clip'[d]}
    BY <1>6 DEF PowerCut
  <2>2. QED
    BY <1>2, <2>1
<1>7. CASE Reset \/ EngineWrites \/ RequestLost \/ UNCHANGED vars
  <2>1. UNCHANGED <<tmp, clip, durable>>
    BY <1>7 DEF Reset, EngineWrites, RequestLost, vars, disk
  <2>2. QED
    BY <1>1, <2>1 DEF PartsAreApart
<1>8. QED
  BY <1>3, <1>4, <1>5, <1>6, <1>7 DEF Next, Ledger

-----------------------------------------------------------------------------
(* The theorems. *)

\* At first there are no files and no requests.
LEMMA InitIInv == Init => IInv
<1> SUFFICES ASSUME Init PROVE IInv
  OBVIOUS
<1>1. MaxTakes \in Nat /\ MaxSaves \in Nat /\ Unwritten \in File
  BY BoundsAssumption DEF Unwritten, File, Full
<1>2. << >> \in Seq(Request) /\ Len(<< >>) = 0
  OBVIOUS
<1>3. TypeOK
  BY <1>1, <1>2 DEF Init, TypeOK, SlotState, Poll, NotPolling
<1>4. \A i \in 1..MaxSaves : ~Named(i)
  BY DEF Init, Named
<1>5. KeepsEnough /\ PollHasItsFile /\ WritingIsUnfinished /\ PartsAreApart
  BY DEF Init, KeepsEnough, PollHasItsFile, WritingIsUnfinished, PartsAreApart
<1>6. RequestsAreNew /\ NamedAreOld
  BY <1>2, <1>4 DEF Init, RequestsAreNew, NamedAreOld
<1>7. QED
  BY <1>3, <1>5, <1>6 DEF IInv

\* Every step of the ledger, the engine and the device keeps the invariant.
LEMMA NextKeeps == IInv /\ [Next]_vars => IInv'
<1> SUFFICES ASSUME IInv, [Next]_vars PROVE IInv'
  OBVIOUS
<1>1. TypeOK'
  BY TypeKeeps DEF IInv
<1>2. /\ KeepsEnough' /\ PollHasItsFile' /\ RequestsAreNew' /\ NamedAreOld'
      /\ WritingIsUnfinished'
  BY BenchKeeps, BeginKeeps, PollFindsKeeps, PollReplacesKeeps, PollCommitsKeeps,
     EngineOpensKeeps, EngineWritesKeeps, PowerCutKeeps DEF Next, Ledger
<1>3. QED
  BY <1>1, <1>2, PartsKeep DEF IInv

\* The inductive invariant holds throughout.
THEOREM Invariance == Spec => []IInv
BY InitIInv, NextKeeps, PTL DEF Spec

\* The ledger, the engine and the files keep their types.
THEOREM Typing == Spec => []TypeOK
<1>1. IInv => TypeOK
  BY DEF IInv
<1>2. QED
  BY <1>1, Invariance, PTL

\* No clip, nor anything a power cut may leave in a clip's place, is a stub: poll
\* flushes the file before it renames it, and no late request replaces what it has
\* flushed.
THEOREM ClipsAreNeverStubs == Spec => []NeverAStub
<1>1. ASSUME IInv PROVE NeverAStub
  <2> SUFFICES ASSUME NEW c \in Cells, NEW i \in durable[c] \cup {clip[c]}, i # 0
               PROVE  file[i].synced >= Usable
    BY DEF NeverAStub
  <2>1. i \in 1..MaxSaves /\ file[i].synced >= Enough
    BY <1>1, BoundsAssumption DEF IInv, TypeOK, KeepsEnough
  <2>2. file[i].synced \in 0..Full
    BY <1>1, <2>1 DEF IInv, TypeOK, File
  <2>3. QED
    BY <2>1, <2>2 DEF Enough, Usable, Full
<1>2. QED
  BY <1>1, Invariance, PTL

\* A clip goes only when its pad is cleared: a save that fails, is lost or is given
\* up costs nothing (the temporary file and the rename of slot_flush.py).
THEOREM SavesCostNoClip == Spec => ClipKeptUntilCleared
<1>1. IInv /\ [Next]_vars =>
        [\A c \in Cells : clip[c] # 0 /\ clip'[c] = 0 => slot'[c] = "empty"]_vars
  <2> SUFFICES ASSUME IInv, Next, NEW c \in Cells, clip[c] # 0, clip'[c] = 0
               PROVE  slot'[c] = "empty"
    OBVIOUS
  <2>1. ASSUME NEW d \in Cells, ClearCell(d) PROVE slot'[c] = "empty"
    BY <2>1 DEF IInv, TypeOK, ClearCell
  <2>2. ASSUME NEW d \in Cells, PollReplaces(d) PROVE FALSE
    <3>1. poll = [cell |-> d, at |-> "replace"] /\ clip' = [clip EXCEPT ![d] = tmp[d]]
      BY <2>2 DEF PollReplaces
    <3>2. tmp[d] # 0
      BY <3>1 DEF IInv, PollHasItsFile, NotPolling
    <3>3. QED
      BY <3>1, <3>2 DEF IInv, TypeOK
  <2>3. CASE PowerCut
    BY <2>3 DEF PowerCut
  <2>4. CASE clip' = clip
    BY <2>4
  <2>5. QED
    BY <2>1, <2>2, <2>3, <2>4 DEF Next, Ledger, MarkRecorded, LoadClip, Begin, PollFinds,
       PollCommits, PollFails, Reset, EngineOpens, EngineWrites, RequestLost, disk
<1>2. QED
  BY <1>1, Invariance, PTL DEF Spec, ClipKeptUntilCleared

-----------------------------------------------------------------------------
(* The ledger implements the store.  What the pads say and the takes they are *)
(* about have to be related to the audio in the files and in the buffer.      *)

\* What the clip is named now is among what a power cut may leave.
ClipMaySurvive == \A c \in Cells : clip[c] \in durable[c]

\* Takes are numbered, and no two pads are about the same one.
TakesAreTheirs ==
  \A c \in Cells : /\ take[c] <= takes
                   /\ slot[c] = "empty" <=> take[c] = 0
                   /\ \A d \in Cells \ {c} : take[c] # 0 => take[d] # take[c]

UnsavedIsInBuffer == \A c \in Cells : slot[c] = "dirty" => buf = take[c]

\* A save in flight is of an unsaved pad, and what has arrived of it is its take:
\* a request that comes late finds the same take in the buffer, or no save.
SavesItsTake ==
  \A c \in Cells : job[c] => /\ slot[c] = "dirty"
                             /\ tmp[c] # 0 => file[tmp[c]].take = take[c]

\* A poll is of a save in flight, and what it has renamed is the pad's take.
PollIsAJobs ==
  poll # NotPolling =>
    /\ job[poll.cell]
    /\ poll.at = "syncdir" => /\ clip[poll.cell] # 0
                              /\ file[clip[poll.cell]].take = take[poll.cell]

TakeInv == ClipMaySurvive /\ TakesAreTheirs /\ UnsavedIsInBuffer /\ SavesItsTake /\ PollIsAJobs

\* Whose audio a file holds never changes once it has a name: the engine writes
\* only into a file it creates, and creates only files that have never been.  How much
\* of it is on the device changes only while it is a temporary file.
LEMMA TakesStay ==
  ASSUME IInv, [Next]_vars, NEW i \in 1..MaxSaves, Named(i)
  PROVE  /\ file'[i].take = file[i].take
         /\ (\A c \in Cells : tmp[c] # i) => file'[i].synced = file[i].synced
<1>1. file \in [1..MaxSaves -> File] /\ file[i] \in File /\ MaxSaves \in Nat
  BY BoundsAssumption DEF IInv, TypeOK
<1>2. ASSUME NEW c \in Cells, PollFinds(c)
      PROVE  file'[i].take = file[i].take /\ (i # tmp[c] => file'[i] = file[i])
  <2>1. /\ tmp[c] \in 1..MaxSaves
        /\ file' = [file EXCEPT ![tmp[c]] = [file[tmp[c]] EXCEPT !.synced = file[tmp[c]].size]]
    BY <1>1, <1>2 DEF PollFinds, Arrived, IInv, TypeOK
  <2>2. [file[i] EXCEPT !.synced = file[i].size].take = file[i].take
    BY <1>1 DEF File
  <2>3. QED
    BY <1>1, <2>1, <2>2
<1>3. CASE EngineOpens
  <2> DEFINE r == Head(requests)
  <2>1. /\ requests \in Seq(Request) /\ requests # << >>
        /\ RequestsAreNew
    BY <1>3 DEF IInv, TypeOK, EngineOpens
  <2>2. 1 \in 1..Len(requests) /\ r = requests[1]
    BY <2>1
  <2>3. i < r.id
    BY <2>1, <2>2 DEF RequestsAreNew
  <2>4. r \in Request
    BY <2>1
  <2>5. r.id # i
    BY <2>3, <2>4, <1>1 DEF Request
  <2>6. \/ file' = [file EXCEPT ![r.id] = [Unwritten EXCEPT !.take = buf]]
        \/ file' = file
    BY <1>3 DEF EngineOpens
  <2> HIDE DEF r
  <2>7. QED
    BY <1>1, <2>5, <2>6
<1>4. CASE EngineWrites
  <2>1. /\ writing \in 1..MaxSaves
        /\ file' = [file EXCEPT ![writing] = [file[writing] EXCEPT !.size = file[writing].size + 1]]
    BY <1>1, <1>4 DEF EngineWrites, IInv, TypeOK
  <2>2. LET grown == [file[i] EXCEPT !.size = file[i].size + 1]
        IN  grown.take = file[i].take /\ grown.synced = file[i].synced
    BY <1>1 DEF File
  <2>3. QED
    BY <1>1, <2>1, <2>2
<1>5. CASE PowerCut
  <2>1. file'[i] = [file[i] EXCEPT !.size = file[i].synced]
    BY <1>5 DEF PowerCut
  <2>2. QED
    BY <1>1, <2>1 DEF File
<1>6. CASE file' = file
  BY <1>6
<1>7. QED
  BY <1>2, <1>3, <1>4, <1>5, <1>6
  DEF Next, Ledger, MarkRecorded, LoadClip, ClearCell, Begin, PollReplaces, PollCommits,
      PollFails, Reset, RequestLost, disk, vars

\* What a clip's name stands for stays as it is.
LEMMA ContentsStay ==
  ASSUME IInv, [Next]_vars
  PROVE  \A c \in Cells : \A i \in durable[c] \cup {clip[c]} : Contents(i)' = Contents(i)
<1> SUFFICES ASSUME NEW c \in Cells, NEW i \in durable[c] \cup {clip[c]}, i # 0
             PROVE  file'[i].take = file[i].take /\ file'[i].synced = file[i].synced
  BY DEF Contents
<1>1. i \in 1..MaxSaves
  BY BoundsAssumption DEF IInv, TypeOK
<1>2. Named(i)
  BY DEF Named
<1>3. \A d \in Cells : tmp[d] # i
  BY DEF IInv, PartsAreApart
<1>4. QED
  BY <1>1, <1>2, <1>3, TakesStay

\* A file flushed far enough holds what a save of its take keeps.
LEMMA KeptContents ==
  ASSUME TypeOK, NEW i \in 1..MaxSaves, file[i].synced >= Enough
  PROVE  Contents(i) \in Store!Kept(file[i].take)
<1>1. file[i].synced \in 0..Full /\ i # 0
  BY BoundsAssumption DEF TypeOK, File
<1>2. CASE file[i].synced = Full
  <2>1. (file[i].synced = Full) = TRUE
    BY <1>2
  <2>2. Contents(i) = Store!Whole(file[i].take)
    BY <1>1, <2>1 DEF Contents, Store!Whole
  <2>3. QED
    BY <2>2 DEF Store!Kept
<1>3. CASE file[i].synced # Full
  <2>1. (file[i].synced = Full) = FALSE /\ Early
    BY <1>1, <1>3 DEF Enough, Full
  <2>2. Contents(i) = Store!CutShort(file[i].take)
    BY <1>1, <2>1 DEF Contents, Store!CutShort
  <2>3. QED
    BY <2>1, <2>2 DEF Store!Kept
<1>4. QED
  BY <1>2, <1>3

\* Every step keeps the takes, the buffer and the files together.
LEMMA TakeInvKeeps == IInv /\ TakeInv /\ [Next]_vars => TakeInv'
<1> SUFFICES ASSUME IInv, TakeInv, [Next]_vars PROVE TakeInv'
  OBVIOUS
<1>1. /\ TypeOK /\ MaxSaves \in Nat /\ MaxTakes \in Nat
      /\ ClipMaySurvive /\ TakesAreTheirs /\ UnsavedIsInBuffer /\ SavesItsTake /\ PollIsAJobs
  BY BoundsAssumption DEF IInv, TakeInv
<1>2. /\ \A c \in Cells : clip[c] # 0 => clip[c] \in 1..MaxSaves /\ Named(clip[c])
      /\ \A c \in Cells : tmp[c] # 0 => tmp[c] \in 1..MaxSaves /\ Named(tmp[c])
  BY <1>1 DEF TypeOK, Named
<1>3. /\ \A c \in Cells : clip[c] # 0 => file'[clip[c]].take = file[clip[c]].take
      /\ \A c \in Cells : tmp[c] # 0 => file'[tmp[c]].take = file[tmp[c]].take
  BY <1>2, TakesStay
<1>4. \A c, d \in Cells : slot[c] = "dirty" /\ slot[d] = "dirty" => c = d
  BY <1>1 DEF TakesAreTheirs, UnsavedIsInBuffer, TypeOK, SlotState
<1>5. ASSUME NEW c \in Cells, MarkRecorded(c) PROVE TakeInv'
  <2>1. /\ slot[c] = "empty" /\ ~job[c] /\ poll = NotPolling /\ poll' = poll
        /\ slot' = [slot EXCEPT ![c] = "dirty"] /\ take' = [take EXCEPT ![c] = takes + 1]
        /\ takes' = takes + 1 /\ buf' = takes + 1
        /\ UNCHANGED <<tmp, file, clip, durable>> /\ \A d \in Cells : job'[d] = job[d]
        /\ \A d \in Cells : slot[d] # "dirty"
    BY <1>1, <1>5 DEF MarkRecorded, Drop, MainIdle, SavesItsTake, TypeOK
  <2>2. TakesAreTheirs'
    BY <1>1, <2>1 DEF TakesAreTheirs, TypeOK
  <2>3. ClipMaySurvive' /\ PollIsAJobs'
    BY <1>1, <2>1 DEF ClipMaySurvive, PollIsAJobs
  <2>4. UnsavedIsInBuffer' /\ SavesItsTake'
    BY <1>1, <2>1 DEF UnsavedIsInBuffer, SavesItsTake, TypeOK
  <2>5. QED
    BY <2>2, <2>3, <2>4 DEF TakeInv
<1>6. ASSUME NEW c \in Cells, LoadClip(c) PROVE TakeInv'
  <2>1. /\ UNCHANGED <<slot, take, takes, job, poll, tmp, file, clip, durable>>
        /\ \A d \in Cells : slot[d] # "dirty"
    BY <1>6 DEF LoadClip, bench, disk
  <2>2. QED
    BY <1>1, <2>1 DEF TakeInv, ClipMaySurvive, TakesAreTheirs, UnsavedIsInBuffer, SavesItsTake,
       PollIsAJobs
<1>7. ASSUME NEW c \in Cells, ClearCell(c) PROVE TakeInv'
  <2>1. /\ poll = NotPolling /\ poll' = poll /\ takes' = takes /\ file' = file
        /\ slot' = [slot EXCEPT ![c] = "empty"] /\ take' = [take EXCEPT ![c] = 0]
        /\ job' = [job EXCEPT ![c] = FALSE] /\ clip' = [clip EXCEPT ![c] = 0]
        /\ \A d \in Cells \ {c} : tmp'[d] = tmp[d]
        /\ durable' = [durable EXCEPT ![c] = durable[c] \cup {0}]
        /\ buf' = IF buf = take[c] THEN 0 ELSE buf
    BY <1>1, <1>7 DEF ClearCell, Drop, MainIdle, TypeOK
  <2>2. TakesAreTheirs'
    BY <1>1, <2>1 DEF TakesAreTheirs, TypeOK
  <2>3. ClipMaySurvive' /\ PollIsAJobs'
    BY <1>1, <2>1 DEF ClipMaySurvive, PollIsAJobs, TypeOK
  <2>4. UnsavedIsInBuffer'
    BY <1>1, <2>1 DEF UnsavedIsInBuffer, TakesAreTheirs, TypeOK
  <2>5. SavesItsTake'
    BY <1>1, <2>1 DEF SavesItsTake, TypeOK
  <2>6. QED
    BY <2>2, <2>3, <2>4, <2>5 DEF TakeInv
<1>8. CASE Reset
  <2>1. /\ slot' = [c \in Cells |-> "empty"] /\ take' = [c \in Cells |-> 0]
        /\ job' = [c \in Cells |-> FALSE] /\ poll = NotPolling /\ poll' = poll
        /\ UNCHANGED <<takes, clip, durable>>
    BY <1>8 DEF Reset, MainIdle, disk
  <2>2. QED
    BY <1>1, <2>1 DEF TakeInv, ClipMaySurvive, TakesAreTheirs, UnsavedIsInBuffer, SavesItsTake,
       PollIsAJobs, TypeOK
<1>9. ASSUME NEW c \in Cells, Begin(c) PROVE TakeInv'
  <2>1. /\ slot[c] = "dirty" /\ poll = NotPolling /\ poll' = poll
        /\ tmp' = [tmp EXCEPT ![c] = 0] /\ job' = [job EXCEPT ![c] = TRUE]
        /\ UNCHANGED <<slot, take, takes, buf, file, clip, durable>>
    BY <1>9 DEF Begin, MainIdle
  <2>2. QED
    BY <1>1, <2>1 DEF TakeInv, ClipMaySurvive, TakesAreTheirs, UnsavedIsInBuffer, SavesItsTake,
       PollIsAJobs, TypeOK
<1>10. ASSUME NEW c \in Cells, PollFinds(c) PROVE TakeInv'
  <2>1. /\ job[c] /\ poll' = [cell |-> c, at |-> "replace"]
        /\ UNCHANGED <<slot, take, takes, job, buf, tmp, clip, durable>>
    BY <1>10 DEF PollFinds, engine
  <2>2. QED
    BY <1>1, <1>3, <2>1 DEF TakeInv, ClipMaySurvive, TakesAreTheirs, UnsavedIsInBuffer,
       SavesItsTake, PollIsAJobs
<1>11. ASSUME NEW c \in Cells, PollReplaces(c) PROVE TakeInv'
  <2>1. /\ poll = [cell |-> c, at |-> "replace"] /\ poll' = [cell |-> c, at |-> "syncdir"]
        /\ clip' = [clip EXCEPT ![c] = tmp[c]] /\ tmp' = [tmp EXCEPT ![c] = 0]
        /\ durable' = [durable EXCEPT ![c] = durable[c] \cup {tmp[c]}]
        /\ UNCHANGED <<slot, take, takes, job, buf, file>>
    BY <1>11 DEF PollReplaces, engine
  <2>2. job[c] /\ tmp[c] # 0
    BY <1>1, <2>1 DEF PollIsAJobs, NotPolling, IInv, PollHasItsFile
  <2>3. PollIsAJobs'
    BY <1>1, <2>1, <2>2 DEF PollIsAJobs, SavesItsTake, TypeOK
  <2>4. ClipMaySurvive' /\ SavesItsTake'
    BY <1>1, <2>1 DEF ClipMaySurvive, SavesItsTake, TypeOK
  <2>5. QED
    BY <1>1, <2>1, <2>3, <2>4 DEF TakeInv, TakesAreTheirs, UnsavedIsInBuffer
<1>12. ASSUME NEW c \in Cells, PollCommits(c) PROVE TakeInv'
  <2>1. /\ durable' = [d \in Cells |-> {clip[d]}] /\ poll' = NotPolling
        /\ job' = [job EXCEPT ![c] = FALSE] /\ slot' = [slot EXCEPT ![c] = "clean"]
        /\ UNCHANGED <<take, takes, buf, file, tmp, clip>>
        /\ poll = [cell |-> c, at |-> "syncdir"]
    BY <1>12 DEF PollCommits, engine
  <2>2. slot[c] = "dirty"
    BY <1>1, <2>1 DEF PollIsAJobs, NotPolling, SavesItsTake
  <2>3. TakesAreTheirs'
    BY <1>1, <2>1, <2>2 DEF TakesAreTheirs, TypeOK
  <2>4. ClipMaySurvive' /\ PollIsAJobs'
    BY <1>1, <2>1 DEF ClipMaySurvive, PollIsAJobs
  <2>5. UnsavedIsInBuffer' /\ SavesItsTake'
    BY <1>1, <1>4, <2>1, <2>2 DEF UnsavedIsInBuffer, SavesItsTake, TypeOK
  <2>6. QED
    BY <2>3, <2>4, <2>5 DEF TakeInv
<1>13. ASSUME NEW c \in Cells, PollFails(c) PROVE TakeInv'
  <2>1. /\ poll = NotPolling /\ poll' = poll /\ job' = [job EXCEPT ![c] = FALSE]
        /\ \A d \in Cells \ {c} : tmp'[d] = tmp[d]
        /\ UNCHANGED <<slot, take, takes, buf, file, clip, durable>>
    BY <1>1, <1>13 DEF PollFails, Drop, MainIdle, engine, TypeOK
  <2>2. SavesItsTake'
    BY <1>1, <2>1 DEF SavesItsTake, TypeOK
  <2>3. QED
    BY <1>1, <2>1, <2>2 DEF TakeInv, ClipMaySurvive, TakesAreTheirs, UnsavedIsInBuffer, PollIsAJobs
<1>14. CASE EngineOpens
  <2> DEFINE r == Head(requests)
  <2>1. r \in Request
    BY <1>1, <1>14 DEF TypeOK, EngineOpens
  <2>2. r.id \in 1..MaxSaves /\ r.cell \in Cells
    BY <2>1 DEF Request
  <2>3. /\ UNCHANGED <<slot, take, takes, job, poll, buf, clip, durable>>
        /\ \/ /\ tmp[r.cell] = 0
              /\ file' = [file EXCEPT ![r.id] = [Unwritten EXCEPT !.take = buf]]
              /\ tmp' = [tmp EXCEPT ![r.cell] = r.id]
           \/ UNCHANGED <<file, tmp>>
    BY <1>14 DEF EngineOpens, bench
  <2> HIDE DEF r
  <2>4. PollIsAJobs'
    BY <1>1, <1>3, <2>3 DEF PollIsAJobs, TypeOK, Poll, NotPolling
  <2>5. SavesItsTake'
    <3> SUFFICES \A c \in Cells : job[c] =>
                   /\ slot[c] = "dirty"
                   /\ tmp'[c] # 0 => file'[tmp'[c]].take = take[c]
      BY <2>3 DEF SavesItsTake
    <3> SUFFICES ASSUME NEW c \in Cells, job[c]
                 PROVE  slot[c] = "dirty" /\ (tmp'[c] # 0 => file'[tmp'[c]].take = take[c])
      OBVIOUS
    <3>1. slot[c] = "dirty" /\ buf = take[c]
      BY <1>1 DEF SavesItsTake, UnsavedIsInBuffer
    <3>2. CASE tmp'[c] = tmp[c]
      BY <1>1, <1>3, <3>1, <3>2 DEF SavesItsTake
    <3>3. CASE tmp'[c] # tmp[c]
      <4>1. tmp'[c] = r.id /\ file' = [file EXCEPT ![r.id] = [Unwritten EXCEPT !.take = buf]]
        BY <1>1, <2>2, <2>3, <3>3 DEF TypeOK
      <4>2. file'[r.id].take = buf
        BY <1>1, <2>2, <4>1 DEF TypeOK, Unwritten
      <4>3. QED
        BY <3>1, <4>1, <4>2
    <3>4. QED
      BY <3>2, <3>3
  <2>6. QED
    BY <1>1, <2>3, <2>4, <2>5 DEF TakeInv, ClipMaySurvive, TakesAreTheirs, UnsavedIsInBuffer
<1>15. CASE EngineWrites \/ RequestLost \/ UNCHANGED vars
  <2>1. UNCHANGED <<slot, take, takes, job, poll, buf, tmp, clip, durable>>
    BY <1>15 DEF EngineWrites, RequestLost, vars, bench, disk
  <2>2. SavesItsTake' /\ PollIsAJobs'
    BY <1>1, <1>3, <2>1 DEF SavesItsTake, PollIsAJobs, TypeOK, Poll, NotPolling
  <2>3. QED
    BY <1>1, <2>1, <2>2 DEF TakeInv, ClipMaySurvive, TakesAreTheirs, UnsavedIsInBuffer
<1>16. CASE PowerCut
  <2>1. /\ slot' = [c \in Cells |-> "empty"] /\ take' = [c \in Cells |-> 0]
        /\ job' = [c \in Cells |-> FALSE] /\ poll' = NotPolling /\ takes' = takes
        /\ durable' = [c \in Cells |-> {clip'[c]}]
    BY <1>16 DEF PowerCut
  <2>2. QED
    BY <1>1, <2>1 DEF TakeInv, ClipMaySurvive, TakesAreTheirs, UnsavedIsInBuffer, SavesItsTake,
       PollIsAJobs, TypeOK
<1>17. QED
  BY <1>5, <1>6, <1>7, <1>8, <1>9, <1>10, <1>11, <1>12, <1>13, <1>14, <1>15, <1>16
  DEF Next, Ledger

\* What a power cut may leave at the pads: the refinement mapping.
Survives == [c \in Cells |-> {Contents(i) : i \in durable[c]}]

\* ... and it is of one of the takes.
LEMMA SurvivesType == TypeOK => Survives \in [Cells -> SUBSET Store!Content]
<1> SUFFICES ASSUME TypeOK, NEW c \in Cells, NEW i \in durable[c]
             PROVE  Contents(i) \in Store!Content
  BY DEF Survives
<1>1. i \in 0..MaxSaves /\ MaxSaves \in Nat /\ MaxTakes \in Nat
  BY BoundsAssumption DEF TypeOK
<1>2. QED
  BY <1>1 DEF TypeOK, File, Contents, Store!Content

\* ... and no new file comes with another's audio: while a pad's names are old ones,
\* what survives of it is what they stood for.
LEMMA SurvivesOfOldNames ==
  ASSUME IInv, [Next]_vars, NEW c \in Cells,
         durable'[c] \subseteq durable[c] \cup {clip[c], 0} \/ file' = file
  PROVE  Survives'[c] = {Contents(i) : i \in durable'[c]}
<1>1. \A i \in durable'[c] : Contents(i)' = Contents(i)
  BY ContentsStay DEF Contents
<1>2. Survives'[c] = {Contents(i)' : i \in durable'[c]}
  BY DEF Survives
<1>3. QED
  BY <1>1, <1>2

\* A step that names no file, records nothing and says nothing leaves the store be.
LEMMA Stutters ==
  ASSUME IInv, [Next]_vars, UNCHANGED <<slot, take, takes, durable>>
  PROVE  UNCHANGED Store!sVars
<1>1. \A c \in Cells : Survives'[c] = Survives[c]
  BY SurvivesOfOldNames DEF Survives
<1>2. Survives' = Survives
  BY <1>1 DEF Survives
<1>3. QED
  BY <1>2 DEF Store!sVars, Survives

\* Every step is one of the store's, or none.
LEMMA StoreStep == IInv /\ TakeInv /\ [Next]_vars => [Store!Next]_(Store!sVars)
<1>0. (TypeOK => Survives \in [Cells -> SUBSET Store!Content])'
  BY SurvivesType, PTL
<1> SUFFICES ASSUME IInv, TakeInv, [Next]_vars PROVE Store!Next \/ UNCHANGED Store!sVars
  OBVIOUS
<1>1. /\ TypeOK /\ MaxSaves \in Nat /\ MaxTakes \in Nat
      /\ ClipMaySurvive /\ TakesAreTheirs /\ UnsavedIsInBuffer /\ SavesItsTake /\ PollIsAJobs
  BY BoundsAssumption DEF IInv, TakeInv
<1>2. Survives' \in [Cells -> SUBSET Store!Content]
  <2>1. TypeOK'
    BY NextKeeps DEF IInv
  <2>2. QED
    BY <1>0, <2>1
<1>3. ASSUME NEW c \in Cells, MarkRecorded(c) PROVE Store!Record(c)
  <2>1. /\ slot[c] = "empty" /\ takes < MaxTakes /\ takes' = takes + 1 /\ durable' = durable
        /\ slot' = [slot EXCEPT ![c] = "dirty"] /\ take' = [take EXCEPT ![c] = takes + 1]
    BY <1>3 DEF MarkRecorded
  <2>2. Survives' = Survives
    <3>1. \A d \in Cells : Survives'[d] = Survives[d]
      BY <2>1, SurvivesOfOldNames DEF Survives
    <3>2. QED
      BY <3>1 DEF Survives
  <2>3. QED
    BY <2>1, <2>2 DEF Store!Record, Survives
<1>4. ASSUME NEW c \in Cells, ClearCell(c) PROVE Store!Clear(c)
  <2>1. /\ slot' = [slot EXCEPT ![c] = "empty"] /\ take' = [take EXCEPT ![c] = 0]
        /\ takes' = takes /\ durable' = [durable EXCEPT ![c] = durable[c] \cup {0}]
    BY <1>4 DEF ClearCell
  <2>2. \A d \in Cells : Survives'[d] = {Contents(i) : i \in durable'[d]}
    BY <1>1, <2>1, SurvivesOfOldNames DEF TypeOK
  <2>3. \A d \in Cells : Survives'[d] = IF d = c THEN Survives[d] \cup {Store!Nothing}
                                           ELSE Survives[d]
    <3>1. ASSUME NEW d \in Cells PROVE durable'[d] = IF d = c THEN durable[c] \cup {0} ELSE durable[d]
      BY <1>1, <2>1 DEF TypeOK
    <3>2. Survives'[c] = {Contents(i) : i \in durable[c]} \cup {Contents(0)}
      BY <2>2, <3>1
    <3>3. QED
      <4>1. \A d \in Cells : Survives[d] = {Contents(i) : i \in durable[d]}
        BY DEF Survives
      <4>2. Contents(0) = Store!Nothing
        BY DEF Contents, Store!Nothing, Store!Whole
      <4>3. QED
        BY <2>2, <3>1, <3>2, <4>1, <4>2
  <2>4. Survives' = [Survives EXCEPT ![c] = Survives[c] \cup {Store!Nothing}]
    BY <2>3 DEF Survives
  <2>5. QED
    BY <2>1, <2>4 DEF Store!Clear, Survives
<1>5. ASSUME NEW c \in Cells, PollReplaces(c) PROVE Store!Place(c)
  <2> DEFINE x == Contents(tmp[c])
  <2>1. /\ poll = [cell |-> c, at |-> "replace"]
        /\ durable' = [durable EXCEPT ![c] = durable[c] \cup {tmp[c]}]
        /\ UNCHANGED <<slot, take, takes, file>>
    BY <1>5 DEF PollReplaces
  <2>2. slot[c] = "dirty" /\ tmp[c] # 0 /\ file[tmp[c]].take = take[c]
        /\ tmp[c] \in 1..MaxSaves /\ file[tmp[c]].synced >= Enough
    BY <1>1, <2>1 DEF PollIsAJobs, NotPolling, IInv, PollHasItsFile, SavesItsTake, TypeOK
  <2>7. x \in Store!Kept(take[c])
    BY <1>1, <2>2, KeptContents
  <2>3. \A d \in Cells : Survives'[d] = {Contents(i) : i \in durable'[d]}
    BY <1>1, <2>1, SurvivesOfOldNames DEF TypeOK
  <2>4. \A d \in Cells : Survives'[d] = IF d = c THEN Survives[d] \cup {x} ELSE Survives[d]
    <3>1. ASSUME NEW d \in Cells PROVE durable'[d] = IF d = c THEN durable[c] \cup {tmp[c]} ELSE durable[d]
      BY <1>1, <2>1 DEF TypeOK
    <3>2. Survives'[c] = {Contents(i) : i \in durable[c]} \cup {Contents(tmp[c])}
      BY <2>3, <3>1
    <3>3. \A d \in Cells : Survives[d] = {Contents(i) : i \in durable[d]}
      BY DEF Survives
    <3>4. QED
      BY <2>3, <3>1, <3>2, <3>3
  <2> HIDE DEF x
  <2>5. Survives' = [Survives EXCEPT ![c] = Survives[c] \cup {x}]
    BY <2>4 DEF Survives
  <2>6. QED
    BY <2>1, <2>2, <2>5, <2>7 DEF Store!Place, Survives
<1>6. ASSUME NEW c \in Cells, PollCommits(c) PROVE Store!Save(c)
  <2>1. /\ poll = [cell |-> c, at |-> "syncdir"] /\ durable' = [d \in Cells |-> {clip[d]}]
        /\ slot' = [slot EXCEPT ![c] = "clean"] /\ UNCHANGED <<take, takes>>
    BY <1>6 DEF PollCommits
  <2>2. slot[c] = "dirty" /\ Contents(clip[c]) \in Store!Kept(take[c])
    <3>1. /\ slot[c] = "dirty" /\ clip[c] # 0 /\ file[clip[c]].take = take[c]
      BY <1>1, <2>1 DEF PollIsAJobs, NotPolling, SavesItsTake
    <3>2. clip[c] \in 1..MaxSaves /\ file[clip[c]].synced >= Enough
      BY <1>1, <3>1 DEF TypeOK, IInv, KeepsEnough
    <3>3. QED
      BY <1>1, <3>1, <3>2, KeptContents
  <2>3. \A d \in Cells : Survives'[d] = {Contents(clip[d])}
    BY <2>1, SurvivesOfOldNames
  <2>4. \E x \in Store!Kept(take[c]) : Survives'[c] = {x}
    BY <2>2, <2>3
  <2>5. \A d \in Cells : Store!Surer(Survives[d], Survives'[d])
    BY <1>1, <2>3 DEF Store!Surer, Survives, ClipMaySurvive
  <2>6. QED
    BY <1>2, <2>1, <2>2, <2>4, <2>5 DEF Store!Save, Survives
<1>7. CASE Reset \/ PowerCut
  <2>1. /\ slot' = [c \in Cells |-> "empty"] /\ take' = [c \in Cells |-> 0] /\ takes' = takes
        /\ \A c \in Cells : durable'[c] \subseteq durable[c] /\ durable'[c] # {}
    <3>1. CASE Reset
      BY <1>1, <3>1 DEF Reset, disk, ClipMaySurvive
    <3>2. CASE PowerCut
      <4>1. \A c \in Cells : clip'[c] \in durable[c] /\ durable'[c] = {clip'[c]}
        BY <3>2 DEF PowerCut
      <4>2. QED
        BY <3>2, <4>1 DEF PowerCut
    <3>3. QED
      BY <1>7, <3>1, <3>2
  <2>2. ASSUME NEW c \in Cells PROVE Store!Surer(Survives[c], Survives'[c])
    <3>1. Survives'[c] = {Contents(i) : i \in durable'[c]}
      BY <2>1, SurvivesOfOldNames
    <3>2. QED
      BY <2>1, <3>1 DEF Store!Surer, Survives
  <2>3. Store!Forget
    BY <1>2, <2>1, <2>2 DEF Store!Forget, Survives
  <2>4. QED
    BY <2>3 DEF Store!Next
<1>8. CASE UNCHANGED <<slot, take, takes, durable>>
  BY <1>8, Stutters
<1>9. QED
  <2>1. ASSUME NEW c \in Cells, LoadClip(c) \/ Begin(c) \/ PollFinds(c) \/ PollFails(c)
        PROVE  UNCHANGED <<slot, take, takes, durable>>
    BY <2>1 DEF LoadClip, Begin, PollFinds, PollFails, bench, disk
  <2>2. ASSUME EngineOpens \/ EngineWrites \/ RequestLost \/ UNCHANGED vars
        PROVE  UNCHANGED <<slot, take, takes, durable>>
    BY <2>2 DEF EngineOpens, EngineWrites, RequestLost, vars, bench, disk
  <2>3. QED
    BY <1>3, <1>4, <1>5, <1>6, <1>7, <1>8, <2>1, <2>2 DEF Next, Ledger, Store!Next

\* At first nothing is recorded, and nothing survives a power cut.
LEMMA StoreInit == Init => TakeInv /\ Store!Init
<1> SUFFICES ASSUME Init PROVE TakeInv /\ Store!Init
  OBVIOUS
<1>1. TakeInv
  BY DEF Init, TakeInv, ClipMaySurvive, TakesAreTheirs, UnsavedIsInBuffer, SavesItsTake,
     PollIsAJobs
<1>2. \A c \in Cells : durable[c] = {0}
  BY DEF Init
<1>3. [c \in Cells |-> {Contents(i) : i \in durable[c]}] = [c \in Cells |-> {Store!Nothing}]
  BY <1>2 DEF Contents, Store!Nothing, Store!Whole
<1>4. QED
  BY <1>1, <1>3 DEF Init, Store!Init

\* FlushLedger is a ClipStore: through requests that are lost or come late, polls cut
\* short and a power cut at any step, what the player is told of a pad is kept as if
\* there were no files at all.
THEOREM LedgerImplementsStore == Spec => ImplementsClipStore
<1>1. Init => TakeInv /\ Store!Init
  BY StoreInit
<1>2. IInv /\ TakeInv /\ [Next]_vars => TakeInv' /\ [Store!Next]_(Store!sVars)
  BY TakeInvKeeps, StoreStep
<1>3. QED
  BY <1>1, <1>2, Invariance, PTL DEF Spec, ImplementsClipStore, Store!Spec

\* The store's own steps keep what is saved: recording, placing, saving, clearing and
\* forgetting, each from the abstract step alone.
LEMMA StoreKeepsSaved ==
  ASSUME slot = [c \in Cells |-> slot[c]], take = [c \in Cells |-> take[c]],
         Store!SavedSurvives, [Store!Next]_(Store!sVars)
  PROVE  Store!SavedSurvives'
<1> DEFINE surv == [c \in Cells |-> {Contents(i) : i \in durable[c]}]
<1>1. /\ surv = [c \in Cells |-> surv[c]]
      /\ \A c \in Cells : slot[c] = "clean" => \E x \in Store!Kept(take[c]) : surv[c] = {x}
  BY DEF Store!SavedSurvives
<1>2. SUFFICES \A c \in Cells : slot'[c] = "clean" => \E x \in Store!Kept(take'[c]) : surv'[c] = {x}
  BY DEF Store!SavedSurvives
<1>3. ASSUME NEW c \in Cells, Store!Record(c)
      PROVE  slot' = [slot EXCEPT ![c] = "dirty"] /\ take' = [take EXCEPT ![c] = takes + 1]
             /\ surv' = surv
  BY <1>3 DEF Store!Record
<1>4. ASSUME NEW c \in Cells, Store!Place(c)
      PROVE  slot[c] = "dirty" /\ UNCHANGED <<slot, take>>
             /\ \A d \in Cells \ {c} : surv'[d] = surv[d]
  BY <1>4 DEF Store!Place
<1>5. ASSUME NEW c \in Cells, Store!Save(c)
      PROVE  /\ slot' = [slot EXCEPT ![c] = "clean"] /\ take' = take
             /\ \E x \in Store!Kept(take[c]) : surv'[c] = {x}
             /\ \A d \in Cells \ {c} : surv'[d] # {} /\ surv'[d] \subseteq surv[d]
  BY <1>5 DEF Store!Save, Store!Surer
<1>6. ASSUME NEW c \in Cells, Store!Clear(c)
      PROVE  /\ slot' = [slot EXCEPT ![c] = "empty"] /\ take' = [take EXCEPT ![c] = 0]
             /\ surv' = [surv EXCEPT ![c] = surv[c] \cup {Store!Nothing}]
  BY <1>6 DEF Store!Clear
<1>7. Store!Forget => slot' = [c \in Cells |-> "empty"]
  BY DEF Store!Forget
<1>8. UNCHANGED Store!sVars => slot' = slot /\ take' = take /\ surv' = surv
  BY DEF Store!sVars
<1> HIDE DEF surv
<1>9. ASSUME NEW c \in Cells, Store!Save(c), NEW d \in Cells, slot'[d] = "clean"
      PROVE  \E x \in Store!Kept(take'[d]) : surv'[d] = {x}
  <2>1. CASE d = c
    BY <1>5, <1>9, <2>1
  <2>2. CASE d # c
    <3>1. slot[d] = "clean" /\ surv'[d] # {} /\ surv'[d] \subseteq surv[d]
      BY <1>5, <1>9, <2>2
    <3>2. PICK x \in Store!Kept(take[d]) : surv[d] = {x}
      BY <1>1, <3>1
    <3>3. take'[d] = take[d]
      BY <1>5, <1>9
    <3>4. QED
      BY <3>1, <3>2, <3>3
  <2>3. QED
    BY <2>1, <2>2
<1>10. QED
  BY <1>1, <1>3, <1>4, <1>6, <1>7, <1>8, <1>9 DEF Store!Next

\* What the player is told: a pad that reads saved keeps its own take through a power
\* cut, for certain; all of it if no poll is early, and at least the beginning of it if
\* polls may be.  It is proved of the store and holds of the ledger because the ledger
\* implements it: this is what slot_flush.py's order of flush, rename and directory
\* flush is worth.
THEOREM SavedClipsSurvive == Spec => []Store!SavedSurvives
<1>1. Init => TakeInv /\ Store!Init
  BY StoreInit
<1>2. Store!Init => Store!SavedSurvives
  BY DEF Store!Init, Store!SavedSurvives
<1>3. IInv => slot = [c \in Cells |-> slot[c]] /\ take = [c \in Cells |-> take[c]]
  BY DEF IInv, TypeOK
<1>4. IInv /\ TakeInv /\ Store!SavedSurvives /\ [Next]_vars => TakeInv' /\ Store!SavedSurvives'
  BY <1>3, TakeInvKeeps, StoreStep, StoreKeepsSaved
<1>5. QED
  BY <1>1, <1>2, <1>4, Invariance, PTL DEF Spec
=============================================================================
