----------------------------- MODULE MCLivePath -----------------------------
(***************************************************************************)
(* LivePath for TLC: from each settled graph.  With both inserts running   *)
(* no call fails; with one or none a call may fail as well.                *)
(***************************************************************************)
EXTENDS LivePath

MCInit == /\ Init /\ faults = 0
          /\ glitches = IF wanted = Enabled THEN MaxGlitches ELSE 0

MCSpec == MCInit /\ [][Next]_vars /\ Fairness
=============================================================================
