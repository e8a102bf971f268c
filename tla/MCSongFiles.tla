---------------------------- MODULE MCSongFiles ----------------------------
(* Small instances of SongFiles for TLC. *)
EXTENDS SongFiles, TLC

\* Songs are only compared for equality.
SongSymmetry == Permutations(Songs)

\* A file that no manifest names, nor the save under way, is not read before it is
\* removed or made anew; one that is whole on the device was not flushed too early,
\* for all that can still be seen of it.  What the screen keeps of a dialog that is
\* closed is not read either.
InUse(f) ==
  \E d \in past, s \in Songs, l \in Loops :
    d.wav[s][l] = f /\ (d.song[s][l] # 0 \/ (job.kind = "save" /\ job.song = s))
Seen(f) == IF InUse(f) THEN [file[f] EXCEPT !.early = @ /\ file[f].synced # Full]
           ELSE NewFile(0)
View == <<buffer, takes, requests, dir, past, files, writing, touched, job, result, busy, cuts,
          [f \in 1..MaxFiles |-> Seen(f)],
          <<ui.screen, ui.view,
            CASE ui.screen = "browser" -> <<>>
              [] ui.screen = "name"    -> <<ui.after>>
              [] OTHER -> <<ui.kind, IF ui.kind = "overwrite" THEN ui.selected
                                     ELSE ui.pending>> >> >>
=============================================================================
