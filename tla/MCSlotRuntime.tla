--------------------------- MODULE MCSlotRuntime ---------------------------
(* Small instances of SlotRuntime for TLC. *)
EXTENDS SlotRuntime, TLC

\* Slots and tracks are interchangeable.
BothSymmetry == Permutations(Slots) \cup Permutations(Tracks)
=============================================================================
