---------------------------- MODULE MCTrackGrid -----------------------------
(* TrackGrid for TLC: the loops are interchangeable, the lengths are not. *)
EXTENDS TrackGrid, TLC

CONSTANTS l1, l2

LoopSymmetry == Permutations({l1, l2})

=============================================================================
