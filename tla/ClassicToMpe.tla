---------------------------- MODULE ClassicToMpe ----------------------------
(***************************************************************************)
(* A classic keyboard played through the router into an MPE synthesiser:    *)
(* ClassicToMpe (midi_translate.py), the life of its SourceBinding          *)
(* (midi_router.py), the remapper that opens and closes the port            *)
(* (mpe-pressure-remap.py), and the little of Surge they rely on: it keeps   *)
(* bend, pressure and timbre per channel for ever, starts a note with what   *)
(* its channel holds, and lets the master channel's pedal hold every note.  *)
(*                                                                         *)
(* One keyboard, with quantising off: the remapper then handles each        *)
(* message when it arrives.  Velocities, program changes, clock and the      *)
(* controllers sent on unchanged leave no trace here.  The notes of a        *)
(* keyboard promoted to MPE are its own bytes and are not followed, only     *)
(* what they leave behind on the channels.                                  *)
(***************************************************************************)
EXTENDS Integers, SequencesExt

CONSTANTS
  MemberChannels,  \* the member channels in ascending order
  Notes,
  Wheel,           \* pitch wheel positions, as offsets from the centre
  Ranges,          \* bend ranges in semitones a keyboard may declare
  DefaultRange,    \* the range of a keyboard that declares none
  TargetRange,     \* the range Surge gives a member channel
  BendMax,         \* the largest offset 14 bits can say; the smallest is one further down
  Pressures, Timbres,
  Unknown,         \* what a channel holds was never written; no zone value
  Policies         \* what to do when every channel is in use

Members == Range(MemberChannels)

\* The bend that means on Surge's range what the wheel means on the keyboard's, rounded to
\* the nearest, a half to the even one, and kept within 14 bits.
ScaleBend(wheel, range) ==
  LET doubled == 2 * wheel * range + TargetRange
      up == doubled \div (2 * TargetRange)
      rounded == IF doubled % (2 * TargetRange) = 0 /\ up % 2 = 1 THEN up - 1 ELSE up
  IN CASE rounded > BendMax -> BendMax
       [] rounded < -BendMax - 1 -> -BendMax - 1
       [] OTHER -> rounded

Bends == {ScaleBend(w, r) : w \in Wheel, r \in Ranges}

ASSUME MembersAssumption ==
  MemberChannels \in Seq(Nat) /\ MemberChannels # << >> /\ IsInjective(MemberChannels)
ASSUME RestAssumption ==
  0 \in Wheel /\ 0 \in Pressures /\ 0 \in Timbres /\ DefaultRange \in Ranges
ASSUME BendAssumption ==
  /\ Wheel \subseteq Int /\ Ranges \subseteq Nat
  /\ TargetRange \in Nat \ {0} /\ BendMax \in Nat
ASSUME UnknownAssumption == Unknown \notin Bends \cup Pressures \cup Timbres
ASSUME PoliciesAssumption == Policies \subseteq {"oldest", "newest", "never"}

VARIABLES          \* the translator of the binding; fresh when there is none
  voices,          \* the sounding notes and their channels, oldest first
  free,            \* the free channels, the next to be used first
  zone,            \* what the keyboard's wheel, pressure and timbre say for all notes
  known,           \* known[c]: what channel c was last sent, Unknown: nothing since
  left,            \* left[c]: history: the timbre the last panic left on channel c, Unknown:
                   \* none since the port was opened or the keyboard last sent a timbre
  steal            \* the policy, one of Policies

VARIABLES          \* the port
  bus,             \* the keyboard is plugged in
  bound,           \* none, or how its messages are taken: classic or mpe
  fingers          \* the keys held on it

VARIABLES          \* Surge
  chan,            \* chan[c]: what channel c holds
  keys,            \* the notes that are down, with their channels
  pedal,           \* the master channel is held
  ringing          \* notes released under the pedal still sound

translator == <<voices, free, zone, known, left, steal>>
port == <<bus, bound, fingers>>
surge == <<chan, keys, pedal, ringing>>
vars == <<translator, port, surge>>

-----------------------------------------------------------------------------
Fields == {"bend", "pressure", "timbre"}
Values == [bend : Bends, pressure : Pressures, timbre : Timbres]
Beliefs == [bend : Bends \cup {Unknown}, pressure : Pressures \cup {Unknown},
            timbre : Timbres \cup {Unknown}]
Zones == [wheel : Wheel, range : Ranges, pressure : Pressures,
          timbre : Timbres \cup {Unknown}]

NewZone == [wheel |-> 0, range |-> DefaultRange, pressure |-> 0, timbre |-> Unknown]
NothingKnown == [c \in Members |-> [f \in Fields |-> Unknown]]
NothingLeft == [c \in Members |-> Unknown]
ZoneBend == ScaleBend(zone.wheel, zone.range)
AtRest == [bend |-> ScaleBend(0, DefaultRange), pressure |-> 0, timbre |-> 0]

\* Surge may have been left with anything by an earlier session.
Init ==
  /\ voices = << >>
  /\ free = MemberChannels
  /\ zone = NewZone
  /\ known = NothingKnown
  /\ left = NothingLeft
  /\ steal \in Policies
  /\ bus \in BOOLEAN
  /\ bound = "none"
  /\ fingers = {}
  /\ chan \in [Members -> Values]
  /\ keys = {}
  /\ pedal = FALSE
  /\ ringing = FALSE

\* A message of the keyboard reaches its translator.
Heard == bus /\ bound = "classic"

-----------------------------------------------------------------------------
(* Voices and channels. *)

Used == {voices[i].channel : i \in DOMAIN voices}
IsActive(n) == \E i \in DOMAIN voices : voices[i].note = n
VoiceOf(n) == CHOOSE i \in DOMAIN voices : voices[i].note = n
OffOf(i) == <<voices[i].channel, voices[i].note>>
AllOffs == {OffOf(i) : i \in DOMAIN voices}

\* What releasing n leaves of the voices and of the free channels: the channel is the last
\* to be used again.  Nothing, when n does not sound.
VoicesWithout(n) == IF IsActive(n) THEN RemoveAt(voices, VoiceOf(n)) ELSE voices

FreeWith(n) == IF IsActive(n) THEN Append(free, voices[VoiceOf(n)].channel) ELSE free
OffsOf(n) == IF IsActive(n) THEN {OffOf(VoiceOf(n))} ELSE {}

\* Mutant of VictimOff: the stolen note is not told to end.
NoVictimOff(i) == {}

\* The voice a new note takes the channel of, and the note-off for it.
Victim == IF steal = "newest" THEN Len(voices) ELSE 1
VictimOff(i) == {OffOf(i)}

\* Surge releases the notes offs: under the pedal they go on sounding.
KeysUp(offs) ==
  /\ keys' = keys \ offs
  /\ ringing' = (ringing \/ (pedal /\ keys \cap offs # {}))

\* Mutant of Primed: a channel is written only when the zone is not at rest.
PrimedWhenBent(c) ==
  [bend |-> IF zone.wheel = 0 THEN chan[c].bend ELSE ZoneBend,
   pressure |-> IF zone.pressure = 0 THEN chan[c].pressure ELSE zone.pressure,
   timbre |-> IF zone.timbre = Unknown THEN chan[c].timbre ELSE zone.timbre]

\* What channel c holds after it is brought to the zone: only what differs from
\* what it was last sent is written, and a timbre only when the keyboard has sent one.
Primed(c) ==
  [bend |-> IF known[c].bend = ZoneBend THEN chan[c].bend ELSE ZoneBend,
   pressure |-> IF known[c].pressure = zone.pressure THEN chan[c].pressure ELSE zone.pressure,
   timbre |-> IF zone.timbre \in {Unknown, known[c].timbre} THEN chan[c].timbre ELSE zone.timbre]
PrimedBelief(c) ==
  [bend |-> ZoneBend, pressure |-> zone.pressure,
   timbre |-> IF zone.timbre = Unknown THEN known[c].timbre ELSE zone.timbre]

\* Note n starts on channel c, after the note-offs offs.
StartVoice(n, c, offs) ==
  /\ chan' = [chan EXCEPT ![c] = Primed(c)]
  /\ known' = [known EXCEPT ![c] = PrimedBelief(c)]
  /\ keys' = (keys \ offs) \cup {<<c, n>>}
  /\ ringing' = (ringing \/ (pedal /\ keys \cap offs # {}))

\* Value v goes out on the channels of the sounding notes.
Broadcast(field, v) ==
  LET Sent(old) == [c \in Members |->
                      IF c \in Used THEN [old[c] EXCEPT ![field] = v] ELSE old[c]]
  IN chan' = Sent(chan) /\ known' = Sent(known)

-----------------------------------------------------------------------------
(* The keyboard's messages. *)

\* A note with a channel to play on: if it sounded already, its old channel is freed first.
NoteOn(n) ==
  /\ Heard
  /\ FreeWith(n) # << >>
  /\ StartVoice(n, Head(FreeWith(n)), OffsOf(n))
  /\ voices' = Append(VoicesWithout(n), [note |-> n, channel |-> Head(FreeWith(n))])
  /\ free' = Tail(FreeWith(n))
  /\ fingers' = fingers \cup {n}
  /\ UNCHANGED <<zone, left, steal, bus, bound, pedal>>

\* Every channel is in use and one of them is taken.
NoteOnSteals(n) ==
  /\ Heard
  /\ FreeWith(n) = << >>
  /\ steal # "never"
  /\ StartVoice(n, voices[Victim].channel, VictimOff(Victim))
  /\ voices' = Append(RemoveAt(voices, Victim),
                      [note |-> n, channel |-> voices[Victim].channel])
  /\ fingers' = fingers \cup {n}
  /\ UNCHANGED <<free, zone, left, steal, bus, bound, pedal>>

\* Every channel is in use and none may be taken: the note is dropped.
NoteOnDropped(n) ==
  /\ Heard
  /\ FreeWith(n) = << >>
  /\ steal = "never"
  /\ fingers' = fingers \cup {n}
  /\ UNCHANGED <<translator, bus, bound, surge>>

\* A key is let go; nobody hears it while the port is closed.
NoteOff(n) ==
  /\ n \in fingers
  /\ fingers' = fingers \ {n}
  /\ IF bound = "classic"
     THEN /\ voices' = VoicesWithout(n)
          /\ free' = FreeWith(n)
          /\ KeysUp(OffsOf(n))
     ELSE UNCHANGED <<voices, free, keys, ringing>>
  /\ UNCHANGED <<zone, known, left, steal, bus, bound, chan, pedal>>

PitchBend(w) ==
  /\ Heard
  /\ zone' = [zone EXCEPT !.wheel = w]
  /\ Broadcast("bend", ScaleBend(w, zone.range))
  /\ UNCHANGED <<voices, free, left, steal, port, keys, pedal, ringing>>

ChannelPressure(p) ==
  /\ Heard
  /\ zone' = [zone EXCEPT !.pressure = p]
  /\ Broadcast("pressure", p)
  /\ UNCHANGED <<voices, free, left, steal, port, keys, pedal, ringing>>

\* The modulation wheel, expression or timbre; one of the three stands for all.
Timbre(v) ==
  /\ Heard
  /\ zone' = [zone EXCEPT !.timbre = v]
  /\ Broadcast("timbre", v)
  /\ left' = NothingLeft
  /\ UNCHANGED <<voices, free, steal, port, keys, pedal, ringing>>

\* Pressure on one key goes to that note's channel and is not the zone's.
PolyAftertouch(n, p) ==
  /\ Heard
  /\ IsActive(n)
  /\ LET c == voices[VoiceOf(n)].channel
     IN /\ chan' = [chan EXCEPT ![c].pressure = p]
        /\ known' = [known EXCEPT ![c].pressure = p]
  /\ UNCHANGED <<voices, free, zone, left, steal, port, keys, pedal, ringing>>

\* The three messages that declare a bend range (RPN 0/0 and data entry).  Nothing is sent.
DeclareRange(r) ==
  /\ Heard
  /\ zone' = [zone EXCEPT !.range = r]
  /\ UNCHANGED <<voices, free, known, left, steal, port, surge>>

\* The pedal goes to the master channel, translated or not.
Sustain(down) ==
  /\ bus
  /\ bound # "none"
  /\ pedal' = down
  /\ ringing' = (ringing /\ down)
  /\ UNCHANGED <<translator, port, chan, keys>>

\* All notes off, all sound off or reset controllers: every note is released and every
\* channel forgotten, but the channels are sent nothing: they keep the timbre they had.  The
\* channels freed together are used again in ascending order.
Panic ==
  /\ Heard
  /\ \E freed \in [1..Len(voices) -> Used] :
       /\ Range(freed) = Used
       /\ \A i, j \in 1..Len(voices) : i < j => freed[i] < freed[j]
       /\ free' = free \o freed
  /\ voices' = << >>
  /\ zone' = [NewZone EXCEPT !.range = zone.range]
  /\ known' = NothingKnown
  /\ left' = [c \in Members |-> chan[c].timbre]
  /\ KeysUp(AllOffs)
  /\ UNCHANGED <<steal, port, chan, pedal>>

-----------------------------------------------------------------------------
(* The binding and the port. *)

\* The binding is given up: what its translator held is released.
Released == KeysUp(AllOffs)

NoTranslator ==
  voices' = << >> /\ free' = MemberChannels /\ zone' = NewZone /\ left' = NothingLeft

\* The keyboard has bent two channels with notes on them: it was MPE all along.  Its notes
\* are released and the message itself, a note or a bend, passes through.
Promote ==
  /\ Heard
  /\ bound' = "mpe"
  /\ fingers' = {}
  /\ Released
  /\ NoTranslator
  /\ known' = NothingKnown
  /\ \/ UNCHANGED chan
     \/ \E c \in Members, b \in Bends : chan' = [chan EXCEPT ![c].bend = b]
  /\ UNCHANGED <<steal, bus, pedal>>

\* An MPE keyboard writes its own channels.
PassThrough ==
  /\ bus
  /\ bound = "mpe"
  /\ \E c \in Members : \/ \E b \in Bends : chan' = [chan EXCEPT ![c].bend = b]
                        \/ \E p \in Pressures : chan' = [chan EXCEPT ![c].pressure = p]
                        \/ \E v \in Timbres : chan' = [chan EXCEPT ![c].timbre = v]
  /\ UNCHANGED <<translator, port, keys, pedal, ringing>>

\* Presumed: a cable is out for at least one reconnect poll (RECONNECT_POLL_S).
PlugIn ==
  /\ ~bus
  /\ bound = "none"
  /\ bus' = TRUE
  /\ UNCHANGED <<translator, bound, fingers, surge>>

Unplug ==
  /\ bus
  /\ bus' = FALSE
  /\ fingers' = {}
  /\ UNCHANGED <<translator, bound, surge>>

\* The reconnect poll finds the ports changed, this one or another: every input is closed
\* and those on the bus are opened, as what their names say they are, with a new translator
\* that first writes every member channel.
Reopen ==
  /\ bus
  /\ bound' = "classic"
  /\ Released
  /\ NoTranslator
  /\ known' = [c \in Members |-> AtRest]
  /\ chan' = [c \in Members |-> AtRest]
  /\ UNCHANGED <<steal, bus, fingers, pedal>>

\* The poll finds the port gone, or cannot open it again.
Close ==
  /\ bound # "none"
  /\ bound' = "none"
  /\ Released
  /\ NoTranslator
  /\ known' = NothingKnown
  /\ UNCHANGED <<steal, bus, fingers, chan, pedal>>

\* The poly governor has one of Surge's notes released; the translator is not told.
Shed(k) ==
  /\ ~pedal
  /\ KeysUp({k})
  /\ UNCHANGED <<translator, port, chan, pedal>>

Next ==
  \/ \E n \in Notes : NoteOn(n) \/ NoteOnSteals(n) \/ NoteOnDropped(n) \/ NoteOff(n)
  \/ \E w \in Wheel : PitchBend(w)
  \/ \E p \in Pressures : ChannelPressure(p) \/ \E n \in Notes : PolyAftertouch(n, p)
  \/ \E v \in Timbres : Timbre(v)
  \/ \E r \in Ranges : DeclareRange(r)
  \/ \E down \in BOOLEAN : Sustain(down)
  \/ Panic \/ Promote \/ PassThrough
  \/ PlugIn \/ Unplug \/ Reopen \/ Close
  \/ \E k \in keys : Shed(k)

Spec == Init /\ [][Next]_vars

-----------------------------------------------------------------------------
(* Properties. *)

Voices == [note : Notes, channel : Members]

\* Type invariant of the translator, the port and Surge.
TypeOK ==
  /\ voices \in Seq(Voices)
  /\ free \in Seq(Members)
  /\ zone \in Zones
  /\ known \in [Members -> Beliefs]
  /\ left \in [Members -> Timbres \cup {Unknown}]
  /\ steal \in Policies
  /\ bus \in BOOLEAN
  /\ bound \in {"none", "classic", "mpe"}
  /\ fingers \subseteq Notes
  /\ chan \in [Members -> Values]
  /\ keys \subseteq Members \X Notes
  /\ pedal \in BOOLEAN
  /\ ringing \in BOOLEAN

\* However notes are played, repeated, stolen and panicked away, every member channel is
\* free once or carries one note, and no note sounds twice: no channel leaks out of
\* ClassicToMpe's books and none is given to two notes.
EachChannelOnce ==
  /\ IsInjective(free)
  /\ \A i, j \in DOMAIN voices :
       i # j => voices[i].channel # voices[j].channel /\ voices[i].note # voices[j].note
  /\ Range(free) \cap Used = {}
  /\ Range(free) \cup Used = Members

\* A note that is down at Surge is under a finger, or its cable was pulled a moment ago and
\* the reconnect poll has yet to notice: no steal, panic, promotion, shed note or
\* reopened port leaves a note sounding whose note-off nobody will send.
NoStuckNote ==
  \A k \in keys : k[2] \in fingers \/ (~bus /\ bound = "classic")

\* What the translator believes a channel holds is what it holds (the comment on
\* _chan_bend): otherwise _prime would skip a write that is needed.
KnownIsTrue ==
  \A c \in Members, f \in Fields : known[c][f] \in {Unknown, chan[c][f]}

\* The timbre a note is to start with on channel c: the keyboard's, once it has sent one;
\* until then what the last panic left there, and the rest zone_reset wrote if there was
\* none.  A panic takes the zone's timbres back too (_cc_zone.clear), and _prime writes only
\* those the zone has: what it leaves behind is inherited, where all_notes_off's comment
\* (midi_translate.py:305) says that the next note on "writes its state rather than
\* inheriting what panic left behind".  Bend and pressure are written, as it says.
StartTimbre(c) ==
  CASE zone.timbre # Unknown -> zone.timbre
    [] zone.timbre = Unknown /\ left[c] # Unknown -> left[c]
    [] OTHER -> 0

\* A note starts with the keyboard's bend and pressure, and the timbre above, whatever was
\* played on its channel before, by whom and in which session ("Every per-channel quantity
\* must match the zone BEFORE the note-on", _note_on; for the timbre a panic breaks it).
StartsFromZone(k) ==
  /\ chan[k[1]].bend = ZoneBend
  /\ chan[k[1]].pressure = zone.pressure
  /\ chan[k[1]].timbre = StartTimbre(k[1])
NotesStartFromTheZone == [][\A k \in keys' \ keys : StartsFromZone(k)']_vars
=============================================================================
