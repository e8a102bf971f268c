----------------------------- MODULE VoiceLimit -----------------------------
(***************************************************************************)
(* How many notes may sound: the governor (surge_poly_governor.py, mode    *)
(* always_on) lowers the synthesiser's voice limit under load and raises   *)
(* it again; a patch load, in the touch browser, sets it to the patch's    *)
(* own; and because a lower limit stops no voice that sounds already, the  *)
(* governor asks the MIDI remapper (mpe-pressure-remap.py), which keeps a  *)
(* ledger of the notes (poly_voice_tracker.py), to release the oldest.     *)
(*                                                                         *)
(* Three processes and two files.  The browser tells the governor of a     *)
(* patch load through a state file after it sent the limit; the governor   *)
(* leaves its request in a file that the remapper deletes when done.       *)
(*                                                                         *)
(* Clocks are left out: the step interval and the recovery hold may have   *)
(* passed at any tick, a note is young until it has aged.                  *)
(*                                                                         *)
(* Init, Next and the like carry the limit's name, so that one module can  *)
(* reason about both ledgers of the remapper (ClassicToMpe_proofs).        *)
(***************************************************************************)
EXTENDS Integers, FiniteSets

CONSTANTS
  Keys,        \* notes, each on its channel
  Floor,       \* poly_floor
  Emergency,   \* poly_emergency
  Ceiling,     \* ceiling_poly, the same for every patch
  RestCap,     \* rest_cap
  OnLoad,      \* limits patches load with
  None,        \* no limit, no request
  MaxNotes,    \* bound: notes struck
  MaxXruns,    \* bound: overruns seen
  MaxFaults    \* bound: patch loads, sends of the governor that fail, its restarts

ASSUME LimitAssumption ==
  /\ IsFiniteSet(Keys) /\ Keys \subseteq Nat
  /\ {Floor, Emergency, Ceiling, RestCap} \subseteq Nat \ {0}
  /\ Emergency <= Floor /\ Floor <= Ceiling
  /\ OnLoad \subseteq Floor..Ceiling /\ OnLoad # {}
  /\ None \notin Nat \cup [limit : Nat, at : Nat]
  /\ {MaxNotes, MaxXruns, MaxFaults} \subseteq Nat

VARIABLES
  load,       \* the load above baseline: calm, high, or hard (the curve's floor point)
  limit,      \* Surge's polyphony limit
  sounding,   \* the keys whose voices sound in Surge
  loading,    \* a patch load that has sent its limit and not yet told of it
  state,      \* POLY_STATE_FILE: the limit loaded with, and whether it is unread
  gov,        \* the governor: _effective_poly and _pre_engaged_bootstrapped
  sending,    \* the limit _apply_limit has decided on and not yet sent
  request,    \* the shed request in the file, while unread
  pending,    \* _shed_pending
  ledger,     \* _notes: when each key was struck; 0 for none
  sustained,  \* keys let go under the pedal
  pedals,     \* _pedals: whether the sustain pedal is down
  notes,      \* notes struck so far: the clock of the ledger
  aged,       \* notes struck up to here are older than SHED_MIN_AGE_S
  adrift,     \* history: what the governor believes of the limit is not so, because
              \* of a patch load it crossed, or told of with its limit unsent, or
              \* because of its own restart
  excused,    \* history: there are voices too many that no request covers, or that
              \* were found by a limit sent on a belief that was not so
  xruns, faults

player   == <<ledger, sustained, pedals, notes>>
governor == <<gov, sending>>
bounds   == <<xruns, faults>>
limitVars == <<load, limit, sounding, loading, state, governor, request, pending, player, aged,
               adrift, excused, bounds>>

Fault == faults < MaxFaults /\ faults' = faults + 1

MinOf(a, b) == IF a < b THEN a ELSE b
MaxOf(a, b) == IF a < b THEN b ELSE a

\* Mutant of Active: a note only the pedal holds is not counted.
ActiveByFinger == {k \in Keys : ledger[k] > 0 /\ k \notin sustained}

Active  == {k \in Keys : ledger[k] > 0}
RestTop == MaxOf(Floor, MinOf(Ceiling, RestCap))
Fresh   == [effective |-> None, bootstrapped |-> FALSE]

Lowest == IF sending = None THEN limit ELSE MinOf(limit, sending)
Excuse(because) == excused' = ((excused \/ because) /\ Cardinality(sounding') > Lowest')

\* A patch was loaded before the governor first looks.
LimitInit ==
  /\ load = "calm" /\ sounding = {} /\ loading = None
  /\ limit \in OnLoad /\ state = [effective |-> limit, new |-> TRUE]
  /\ gov = Fresh /\ sending = None
  /\ request = None /\ pending = None
  /\ ledger = [k \in Keys |-> 0] /\ sustained = {} /\ pedals = FALSE
  /\ notes = 0 /\ aged = 0
  /\ adrift = FALSE /\ excused = FALSE
  /\ xruns = 0 /\ faults = 0

-----------------------------------------------------------------------------
(* The governor.                                                            *)

\* _refresh_patch_state
Refreshed ==
  IF ~state.new THEN gov
  ELSE [gov EXCEPT !.effective = state.effective,
                   !.bootstrapped = @ /\ state.effective = gov.effective]

\* _resolve_applicable_limit: a limit below what sounds is asked of the remapper.
Asks(g, n) == n < g.effective /\ Cardinality(Active) > n

\* _apply_limit up to the send; g is what the governor knows by then.
Apply(g, n) ==
  /\ gov' = g
  /\ sending' = IF n = g.effective THEN None ELSE n
  /\ request' = IF Asks(g, n) THEN [limit |-> n, at |-> notes] ELSE request
Keep(g) == gov' = g /\ UNCHANGED <<sending, request>>

\* _tick_v2_always_on, on what was read and whether an overrun was seen.
\* The rest of the tick after the emergency rule passed the overrun over:
Engage(g) ==
  ~g.bootstrapped /\ g.effective > RestTop /\ Apply([g EXCEPT !.bootstrapped = TRUE], RestTop)
Recover(g) ==
  Keep(g) \/ (g.effective < RestTop /\ Apply(g, MaxOf(Floor, MinOf(RestTop, g.effective + 1))))
StepDown(g, xrun) ==
  \E desired \in IF load = "hard" THEN {Floor} ELSE Floor..RestTop :
    LET step == IF xrun THEN MinOf(Ceiling - Floor, 2) ELSE 1
    IN Keep(g) \/ (desired < g.effective /\ Apply(g, MaxOf(desired, g.effective - step)))
Follow(g, xrun) ==
  \/ Engage(g)
  \/ /\ g.bootstrapped \/ g.effective <= RestTop
     /\ LET b == [g EXCEPT !.bootstrapped = TRUE]
        IN \/ load = "calm" /\ Recover(b)
           \/ (load # "calm" \/ xrun) /\ StepDown(b, xrun)

\* The emergency rule: at the floor point, or when another overrun went before;
\* whether that one counts is a matter of times.
Overrun(g) ==
  /\ xruns < MaxXruns /\ xruns' = xruns + 1
  /\ \E repeated \in {FALSE, xruns > 0} :
       IF (load = "hard" \/ repeated) /\ g.effective > Emergency
       THEN Apply(g, Emergency)
       ELSE Follow(g, TRUE)

Tick ==
  /\ sending = None
  /\ LET g == Refreshed
     IN /\ g.effective # None
        /\ \/ Overrun(g)
           \/ Follow(g, FALSE) /\ UNCHANGED xruns
  /\ state' = [state EXCEPT !.new = FALSE]
  /\ UNCHANGED <<load, limit, sounding, loading, pending, player, aged, adrift, faults>>
  /\ Excuse(request' # request /\ (adrift \/ loading # None))

\* Mutant of Believed: a limit that could not be sent is taken for sent.
BelievedAnyway(sent) == sending

Believed(sent) == IF sent THEN sending ELSE gov.effective
SendLimit ==
  /\ sending # None /\ sending' = None
  /\ UNCHANGED <<load, sounding, loading, state, request, pending, player, aged, xruns>>
  /\ \E sent \in BOOLEAN :
       /\ IF sent THEN UNCHANGED faults ELSE Fault
       /\ limit' = IF sent THEN sending ELSE limit
       /\ adrift' = IF sent THEN loading # None \/ state.new ELSE adrift
       /\ gov' = [gov EXCEPT !.effective = Believed(sent)]
       /\ Excuse(sent /\ (adrift \/ adrift'))

\* What it knew is gone; the state file still tells of the last patch load.
GovernorRestarts ==
  /\ Fault
  /\ gov' = Fresh /\ sending' = None /\ state' = [state EXCEPT !.new = TRUE]
  /\ adrift' = TRUE
  /\ UNCHANGED <<load, limit, sounding, loading, request, pending, player, aged, excused, xruns>>

-----------------------------------------------------------------------------
(* The browser: _apply_playback_policy, which does not ask whether the send of  *)
(* the limit failed: the governor is told of it all the same.                *)

LoadPatch ==
  /\ loading = None /\ Fault
  /\ \E e \in OnLoad, sent \in BOOLEAN :
       /\ loading' = e
       /\ limit' = IF sent THEN e ELSE limit
       /\ adrift' = (limit' # e)
  /\ UNCHANGED <<load, sounding, state, governor, request, pending, player, aged, xruns>>
  /\ Excuse(TRUE)
TellGovernor ==
  /\ loading # None /\ loading' = None
  /\ state' = [effective |-> loading, new |-> TRUE]
  /\ UNCHANGED <<load, limit, sounding, governor, request, pending, player, aged, adrift,
                 excused, bounds>>

-----------------------------------------------------------------------------
(* The remapper.                                                            *)

\* Mutant of Done: a note too young is let off instead of retried.
DoneWithTheYoung(excess, release, young) == TRUE

Done(excess, release, young) == Cardinality(release) >= excess \/ young = {}

\* plan_shed for request p, and what _process_shed_request does with it.  The
\* file is looked at only every SHED_POLL_S; it is deleted whatever is in it.
ShedPass(polls) ==
  LET p == IF polls /\ request # None THEN request ELSE pending IN
  /\ p # None
  /\ LET excess   == Cardinality(Active) - p.limit
         asked    == {k \in Active : ledger[k] <= p.at /\ k \notin sustained /\ ~pedals}
         eligible == {k \in asked : ledger[k] <= aged}
         release  == {k \in eligible :
                        Cardinality({j \in eligible : ledger[j] < ledger[k]}) < excess}
         done     == Done(excess, release, asked \ eligible)
     IN /\ ledger' = [k \in Keys |-> IF k \in release THEN 0 ELSE ledger[k]]
        /\ sounding' = sounding \ release
        /\ pending' = IF done THEN None ELSE p
        /\ request' = IF done \/ polls THEN None ELSE request
        /\ UNCHANGED <<limit, governor>>
        /\ Excuse(done /\ (release = asked \/ (~polls /\ request # None)))
  /\ UNCHANGED <<load, loading, state, sustained, pedals, notes, aged, adrift, bounds>>

-----------------------------------------------------------------------------
(* The player, the ledger (observe_message) and the synthesiser.            *)

\* Surge denies a voice at its limit; a key that sounds reuses its voice.  Keys
\* are interchangeable: a note takes the first that is free.  The note-off of a
\* note that was shed finds nothing.
Strike(k) ==
  /\ notes < MaxNotes /\ notes' = notes + 1
  /\ k \in sustained \/ (k \notin Active /\ \A j \in Keys : j < k => j \in Active)
  /\ ledger' = [ledger EXCEPT ![k] = notes + 1] /\ sustained' = sustained \ {k}
  /\ sounding' = IF Cardinality(sounding) < limit THEN sounding \cup {k} ELSE sounding
  /\ UNCHANGED <<load, limit, loading, state, governor, request, pending, pedals, aged, adrift,
                 bounds>>
  /\ Excuse(TRUE)

LetGo(k) ==
  /\ k \in Active \ sustained
  /\ IF pedals
     THEN sustained' = sustained \cup {k} /\ UNCHANGED <<ledger, sounding>>
     ELSE /\ ledger' = [ledger EXCEPT ![k] = 0] /\ sounding' = sounding \ {k}
          /\ UNCHANGED sustained
  /\ UNCHANGED <<load, limit, loading, state, governor, request, pending, pedals, notes, aged,
                 adrift, bounds>>
  /\ Excuse(FALSE)

PressPedal ==
  /\ ~pedals /\ pedals' = TRUE
  /\ UNCHANGED <<load, limit, sounding, loading, state, governor, request, pending, ledger,
                 sustained, notes, aged, adrift, excused, bounds>>
LiftPedal ==
  /\ pedals /\ pedals' = FALSE
  /\ ledger' = [k \in Keys |-> IF k \in sustained THEN 0 ELSE ledger[k]]
  /\ sounding' = sounding \ sustained /\ sustained' = {}
  /\ UNCHANGED <<load, limit, loading, state, governor, request, pending, notes, aged,
                 adrift, bounds>>
  /\ Excuse(FALSE)

Age ==
  /\ aged < notes /\ aged' = notes
  /\ UNCHANGED <<load, limit, sounding, loading, state, governor, request, pending, player,
                 adrift, excused, bounds>>
LoadChanges ==
  /\ load' \in {"calm", "high", "hard"} \ {load}
  /\ UNCHANGED <<limit, sounding, loading, state, governor, request, pending, player, aged,
                 adrift, excused, bounds>>

-----------------------------------------------------------------------------
Govern  == Tick \/ SendLimit
Browser == LoadPatch \/ TellGovernor
Player  == PressPedal \/ LiftPedal \/ \E k \in Keys : Strike(k) \/ LetGo(k)
LimitNext ==
  \/ Govern \/ GovernorRestarts \/ Browser \/ Player \/ Age \/ LoadChanges
  \/ \E polls \in BOOLEAN : ShedPass(polls)

\* The governor ticks, the remapper looks at the file, a patch load ends, time
\* passes.
LimitFairness ==
  /\ WF_limitVars(Govern) /\ WF_limitVars(TellGovernor) /\ WF_limitVars(Age)
  /\ WF_limitVars(ShedPass(TRUE))

LimitSpec == LimitInit /\ [][LimitNext]_limitVars /\ LimitFairness

-----------------------------------------------------------------------------
Request == [limit : Nat, at : 0..MaxNotes] \cup {None}

\* The state variables have their types, and every voice is in the ledger.
LimitTypeOK ==
  /\ load \in {"calm", "high", "hard"}
  /\ limit \in Emergency..Ceiling /\ sending \in Emergency..Ceiling \cup {None}
  /\ loading \in OnLoad \cup {None}
  /\ state \in [effective : OnLoad, new : BOOLEAN]
  /\ gov \in [effective : Emergency..Ceiling \cup {None}, bootstrapped : BOOLEAN]
  /\ request \in Request /\ pending \in Request
  /\ ledger \in [Keys -> 0..notes]
  /\ sounding \subseteq Active /\ sustained \subseteq Active
  /\ pedals \in BOOLEAN /\ (~pedals => sustained = {})
  /\ notes \in 0..MaxNotes /\ aged \in 0..notes
  /\ {adrift, excused} \subseteq BOOLEAN
  /\ xruns \in 0..MaxXruns /\ faults \in 0..MaxFaults

\* Whatever the governor, the player and time do in between, the voices that a
\* lower limit finds sounding come down to it.  Left out are those no request
\* covers: a note struck while the limit was being sent, one the pedal held
\* when it was to be shed, the voices a patch load found, those of a request
\* deleted unread because it came while the one before was being finished, and
\* those found by a limit the governor sent on a mistaken belief: it may lower
\* Surge's limit where the governor meant to raise it, and then asks nothing.
SheddingSettles ==
  (Cardinality(sounding) > limit) ~> (Cardinality(sounding) <= limit \/ excused)

\* Once the load stays calm, the limit Surge has returns to the rest cap, and
\* once it stays at the floor point it comes down to the floor; unless the
\* governor's belief was set apart by a patch load it crossed, by one that told it
\* of a limit whose send had failed (patch_loader.py:314 does not look), or by
\* its restart, and it had no reason to send a limit since.
LimitFollowsLoad ==
  /\ <>[](load = "calm") => <>[](limit >= RestTop \/ adrift)
  /\ <>[](load = "hard") => <>[](limit <= Floor \/ adrift)
=============================================================================
