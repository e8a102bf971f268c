----------------------------- MODULE LoopLevels -----------------------------
(***************************************************************************)
(* How loud each loop plays: the store of levels (LoopMix, loop_mix.py),   *)
(* the faders that write it through relative pickup (fader_pickup.py), the *)
(* sender that ramps and rate-limits what goes to the engine               *)
(* (CoalescingSender), and the engine's reports of its own level, among    *)
(* which the store must tell an echo of the bench from the level a song    *)
(* load wrote behind its back.                                             *)
(*                                                                         *)
(* A level is the product of a column and the master position; the taper   *)
(* of the real faders bends that product and keeps its ends and its order. *)
(* The automatic gain law is off unless configured, and left out.          *)
(***************************************************************************)
EXTENDS Integers, Sequences, FiniteSets

CONSTANTS
  Loops,       \* loop numbers
  Faders,      \* column faders: 0 and on, fewer than the loops
  Top,         \* full travel of a fader
  Rest,        \* main loop passes in one sending interval
  History,     \* sent levels remembered per loop
  SongLevels,  \* levels songs were saved with
  None,        \* no position, level or report
  Trouble,     \* "early": a report may be handled before the level it echoes
               \* is remembered as sent
  MaxMoves,    \* bound: fader moves and bank changes
  MaxSongs     \* bound: levels written by song loads

ASSUME LevelAssumption ==
  /\ Loops \subseteq Nat /\ Faders \subseteq Loops /\ 0 \in Loops
  /\ IsFiniteSet(Loops)
  /\ Top \in Nat \ {0} /\ Rest \in Nat /\ History \in Nat \ {0}
  /\ SongLevels \subseteq 0..(Top * Top)
  /\ None \notin Int
  /\ Trouble \subseteq {"early"}
  /\ MaxMoves \in Nat /\ MaxSongs \in Nat

VARIABLES
  user,       \* user_gain: what the player asked of each loop
  master,     \* master_gain
  offset,     \* the first loop the faders address
  anchor,     \* where each column fader was last seen
  target,     \* _target_wet of the sender
  current,    \* _current_wet: the ramp on its way
  sent,       \* _emitted: what was put on the wire last
  since,      \* main loop passes since it was, up to Rest
  noted,      \* whether what is on the wire is in sent already
  wet,        \* the engine's level, and whether a song load wrote it
  reported,   \* the level the engine reported last
  flight,     \* a report on its way
  loaded,     \* history: loops a song load wrote the level of
  moves, songs

vars == <<user, master, offset, anchor, target, current, sent, since, noted, wet,
          reported, flight, loaded, moves, songs>>
store  == <<user, master, offset, anchor>>
sender == <<target, current, sent, since, noted>>

Travel == 0..Top
Level  == 0..(Top * Top)
Report == [level : Level, song : BOOLEAN, age : 0..History]

WetFor(l) == user[l] * master
Shown(f)  == {l \in Loops : l = offset + f}

Init ==
  /\ user = [l \in Loops |-> Top] /\ master = Top /\ offset = 0
  /\ anchor = [f \in Faders |-> None]
  /\ target = [l \in Loops |-> None] /\ current = target
  /\ sent = [l \in Loops |-> <<>>] /\ since = Rest /\ noted = TRUE
  /\ wet = [l \in Loops |-> [level |-> Top * Top, song |-> FALSE]]
  /\ reported = [l \in Loops |-> Top * Top]
  /\ flight = [l \in Loops |-> None]
  /\ loaded = {}
  /\ moves = 0 /\ songs = 0

-----------------------------------------------------------------------------
(* The sender.                                                              *)

Toward(c, t) == CASE c < t -> c + 1 [] c > t -> c - 1 [] OTHER -> c

\* Assumed: an echo comes back before it is forgotten.
EchoesInTime == \A l \in Loops : flight[l] # None => flight[l].age < History - 1

\* One pass of the ramp, from c to t.  What moved is sent only when the interval
\* is over, and then all loops are: after Rest passes, or sooner when one was slow.
TickFrom(c, t) ==
  LET now == [l \in Loops |-> IF t[l] = None THEN c[l] ELSE Toward(c[l], t[l])]
  IN /\ current' = now /\ target' = t
     /\ \/ /\ now # c /\ EchoesInTime
           /\ since' = 0 /\ noted' = FALSE
           /\ wet' = [l \in Loops |-> IF now[l] = None THEN wet[l]
                                      ELSE [level |-> now[l], song |-> FALSE]]
        \/ /\ now = c \/ since < Rest
           /\ since' = (IF since < Rest THEN since + 1 ELSE since)
           /\ noted' = TRUE /\ wet' = wet

Tick ==
  /\ noted
  /\ TickFrom(current, target)
  /\ UNCHANGED <<store, sent, reported, flight, loaded, moves, songs>>

\* The levels just sent join what is remembered.
Note ==
  /\ ~noted
  /\ sent' = [l \in Loops |->
                IF current[l] = None THEN sent[l]
                ELSE LET all == Append(sent[l], current[l])
                     IN  IF Len(all) > History THEN Tail(all) ELSE all]
  /\ flight' = [l \in Loops |->
                  IF flight[l] = None THEN None ELSE [flight[l] EXCEPT !.age = @ + 1]]
  /\ noted' = TRUE
  /\ UNCHANGED <<store, target, current, since, wet, reported, loaded, moves, songs>>

-----------------------------------------------------------------------------
(* The faders.                                                              *)

Moving == noted /\ moves < MaxMoves /\ moves' = moves + 1

\* Mutant of Seeded: the ramp starts from the level the move has set already.
SeededLate(ls) ==
  [l \in Loops |-> IF l \in ls /\ current[l] = None THEN user'[l] * master' ELSE current[l]]

\* handle_cc: the ramps of the loops a fader addresses start from the level in
\* force; what it changed is submitted, and the ramp makes a pass.
Seeded(ls) == [l \in Loops |-> IF l \in ls /\ current[l] = None THEN WetFor(l) ELSE current[l]]
Submit(ls, changed) ==
  TickFrom(Seeded(ls),
           [l \in Loops |-> IF l \in changed THEN user'[l] * master' ELSE target[l]])

\* The master, or the touch screen's volume in its place, is taken at its word.
MoveMaster(raw) ==
  /\ Moving
  /\ master' = raw /\ UNCHANGED <<user, offset, anchor>>
  /\ Submit(Loops, Loops)
  /\ UNCHANGED <<sent, reported, flight, loaded, songs>>

\* Mutant of Scaled: the move itself is added to the level.
Shifted(prev, raw, ref) == ref + (raw - prev)

\* Scaled pickup: the part of the remaining travel that was covered is taken of
\* the remaining level.
Scaled(prev, raw, ref) ==
  CASE raw < prev -> (ref * raw) \div prev
    [] raw > prev -> ref + ((Top - ref) * (raw - prev)) \div (Top - prev)
    [] OTHER      -> ref

\* The first touch of a fader only says where it is.
MoveFader(f, raw) ==
  /\ Moving /\ Shown(f) # {}
  /\ anchor' = [anchor EXCEPT ![f] = raw]
  /\ LET accepted == anchor[f] # None
         changed  == IF accepted THEN Shown(f) ELSE {}
     IN /\ user' = [l \in Loops |-> IF l \in changed THEN Scaled(anchor[f], raw, user[l])
                                    ELSE user[l]]
        /\ UNCHANGED <<master, offset>>
        /\ Submit(Shown(f), changed)
  /\ UNCHANGED <<sent, reported, flight, loaded, songs>>

SetView(o) ==
  /\ Moving /\ o # offset
  /\ offset' = o /\ anchor' = [f \in Faders |-> None]
  /\ UNCHANGED <<user, master, sender, wet, reported, flight, loaded, songs>>

-----------------------------------------------------------------------------
(* The engine's reports, and what the store makes of them.                  *)

\* A song load, in another process, writes a level.
LoadSong(l, level) ==
  /\ songs < MaxSongs /\ songs' = songs + 1
  /\ wet' = [wet EXCEPT ![l] = [level |-> level, song |-> TRUE]]
  /\ loaded' = loaded \cup {l}
  /\ UNCHANGED <<store, sender, reported, flight, moves>>

\* On a change, every half second at most.
ReportLevel(l) ==
  /\ flight[l] = None /\ reported[l] # wet[l].level
  /\ reported' = [reported EXCEPT ![l] = wet[l].level]
  /\ flight' = [flight EXCEPT ![l] = [level |-> wet[l].level, song |-> wet[l].song,
                                      age |-> 0]]
  /\ UNCHANGED <<store, sender, wet, loaded, moves, songs>>

\* Mutant of WasEmitted: only the level settled on is known for an echo.
NeverEmitted(l, level) == FALSE

WasEmitted(l, level) == \E n \in 1..Len(sent[l]) : sent[l][n] = level

\* The column position that a level implies under the master.
Implied(level) ==
  IF level = 0 THEN 0
  ELSE IF master = 0 \/ level \div master > Top THEN Top
  ELSE level \div master

\* seed_from_engine: a level that is neither the one asked for nor a step of
\* the ramp there is adopted, and the faders that show the loop re-armed.
TakeReport(l) ==
  /\ flight[l] # None /\ (noted \/ "early" \in Trouble)
  /\ flight' = [flight EXCEPT ![l] = None]
  /\ LET level == flight[l].level
         cc == Implied(level)
         adopts == level # WetFor(l) /\ ~WasEmitted(l, level) /\ cc # user[l]
     IN /\ user' = [user EXCEPT ![l] = IF adopts THEN cc ELSE @]
        /\ anchor' = [f \in Faders |-> IF adopts /\ l \in Shown(f) THEN None ELSE anchor[f]]
  /\ UNCHANGED <<master, offset, sender, wet, reported, loaded, moves, songs>>

-----------------------------------------------------------------------------
Hands == \/ \E raw \in Travel : MoveMaster(raw) \/ \E f \in Faders : MoveFader(f, raw)
         \/ \E o \in Loops : SetView(o)
Song  == \E l \in Loops, level \in SongLevels : LoadSong(l, level)
Main  == Tick \/ Note
Next  == Hands \/ Song \/ Main \/ \E l \in Loops : ReportLevel(l) \/ TakeReport(l)

\* The main loop goes round, reports are sent and handled; nobody has to play.
Fairness == /\ WF_vars(Main)
            /\ \A l \in Loops : WF_vars(ReportLevel(l)) /\ WF_vars(TakeReport(l))

Spec == Init /\ [][Next]_vars /\ Fairness

-----------------------------------------------------------------------------
\* The state variables have their types.
TypeOK ==
  /\ user \in [Loops -> Travel] /\ master \in Travel /\ offset \in Loops
  /\ anchor \in [Faders -> Travel \cup {None}]
  /\ target \in [Loops -> Level \cup {None}] /\ current \in [Loops -> Level \cup {None}]
  /\ \A l \in Loops : target[l] # None => current[l] # None
  /\ sent \in [Loops -> Seq(Level)] /\ \A l \in Loops : Len(sent[l]) <= History
  /\ since \in 0..Rest /\ noted \in BOOLEAN
  /\ wet \in [Loops -> [level : Level, song : BOOLEAN]]
  /\ reported \in [Loops -> Level]
  /\ flight \in [Loops -> Report \cup {None}]
  /\ loaded \subseteq Loops
  /\ moves \in 0..MaxMoves /\ songs \in 0..MaxSongs

\* However the faders move and however late the echoes of a ramp come in, the
\* store never takes one for somebody else's level: it adopts what a song
\* load wrote and nothing else.
OnlyForeignIsAdopted ==
  [][\A l \in Loops :
       flight[l] # None /\ flight'[l] = None /\ user'[l] # user[l] => flight[l].song]_vars

\* When the hands come to rest every loop ends up, to within the last steps of
\* the ramp, at the level the store holds for it, unless a song load wrote
\* that loop's level.
LevelArrives ==
  <>[](\A l \in Loops \ loaded :
         /\ wet[l].level - WetFor(l) <= Rest
         /\ WetFor(l) - wet[l].level <= Rest)
=============================================================================
