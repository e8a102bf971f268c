--------------------------- MODULE MCFlushLedger ---------------------------
(* Small instances of FlushLedger for TLC. *)
EXTENDS FlushLedger, TLC

\* The pads of a track are interchangeable.
CellSymmetry == Permutations(Cells)
=============================================================================
