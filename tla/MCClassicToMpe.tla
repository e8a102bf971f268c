--------------------------- MODULE MCClassicToMpe ---------------------------
(* Small instances of ClassicToMpe for TLC. *)
EXTENDS ClassicToMpe, TLC

TwoChannels == <<1, 2>>

\* Notes are only compared for equality.
NoteSymmetry == Permutations(Notes)
\* No guard, no other update and none of the properties of KeyboardPlays reads ringing.
WithoutRinging == <<translator, port, chan, keys, pedal>>
=============================================================================
