----------------------------- MODULE ClipStore ------------------------------
(***************************************************************************)
(* What the clip files promise the player, without files: a pad that reads  *)
(* "saved" still holds its own take, and no other, after the power is cut,  *)
(* and a pad that does not may hold its previous clip, its new one or        *)
(* nothing.  What is left of a take is all of it, unless polls are Early:    *)
(* then a poll may have looked while the engine still wrote, and a saved     *)
(* clip may be the beginning of its take.  FlushLedger implements this (its  *)
(* property ImplementsClipStore).                                           *)
(***************************************************************************)
EXTENDS Naturals

CONSTANTS Cells,     \* the pads that share one engine buffer
          MaxTakes,  \* bound on the takes of one behaviour
          Early      \* a poll may look before the engine has finished a file

VARIABLES
  slot,     \* slot[c]: what the pad says
  take,     \* take[c]: the take the pad is about, 0: none
  takes,    \* takes recorded so far, which numbers them
  survives  \* survives[c]: the contents a power cut now may leave at c

sVars == <<slot, take, takes, survives>>

\* What a clip's name may hold: a take, all of it or only its beginning, or nothing.
Content == [take : 0..MaxTakes, whole : BOOLEAN]
Whole(t) == [take |-> t, whole |-> TRUE]
CutShort(t) == [take |-> t, whole |-> FALSE]
Nothing == Whole(0)

\* What a save of take t keeps.
Kept(t) == {Whole(t)} \cup IF Early THEN {CutShort(t)} ELSE {}

Init ==
  /\ slot = [c \in Cells |-> "empty"]
  /\ take = [c \in Cells |-> 0]
  /\ takes = 0
  /\ survives = [c \in Cells |-> {Nothing}]

\* What is certain only becomes more certain while a directory is synced.
Surer(old, new) == new # {} /\ new \subseteq old

\* A take is recorded on an empty pad.
Record(c) ==
  /\ slot[c] = "empty"
  /\ takes < MaxTakes
  /\ takes' = takes + 1
  /\ slot' = [slot EXCEPT ![c] = "dirty"]
  /\ take' = [take EXCEPT ![c] = takes + 1]
  /\ UNCHANGED survives

\* The unsaved take may already be the one that survives ...
Place(c) ==
  /\ slot[c] = "dirty"
  /\ \E x \in Kept(take[c]) : survives' = [survives EXCEPT ![c] = @ \cup {x}]
  /\ UNCHANGED <<slot, take, takes>>

\* ... and the pad says so once it is certain.
Save(c) ==
  /\ slot[c] = "dirty"
  /\ slot' = [slot EXCEPT ![c] = "clean"]
  /\ survives' \in [Cells -> SUBSET Content]
  /\ \E x \in Kept(take[c]) : survives'[c] = {x}
  /\ \A d \in Cells : Surer(survives[d], survives'[d])
  /\ UNCHANGED <<take, takes>>

\* The pad is cleared; its clip may still survive a power cut.
Clear(c) ==
  /\ slot' = [slot EXCEPT ![c] = "empty"]
  /\ take' = [take EXCEPT ![c] = 0]
  /\ survives' = [survives EXCEPT ![c] = @ \cup {Nothing}]
  /\ UNCHANGED takes

\* The model is born again, after Clear All or a power cut.
Forget ==
  /\ slot' = [c \in Cells |-> "empty"]
  /\ take' = [c \in Cells |-> 0]
  /\ survives' \in [Cells -> SUBSET Content]
  /\ \A c \in Cells : Surer(survives[c], survives'[c])
  /\ UNCHANGED takes

Next == Forget \/ \E c \in Cells : Record(c) \/ Place(c) \/ Save(c) \/ Clear(c)

Spec == Init /\ [][Next]_sVars

\* A pad that reads saved keeps its take through a power cut, for certain, and all of
\* it unless polls are early.
SavedSurvives == \A c \in Cells : slot[c] = "clean" => \E x \in Kept(take[c]) : survives[c] = {x}
=============================================================================
