----------------------------- MODULE SlotMatrix -----------------------------
(***************************************************************************)
(* The pure planner of the clip matrix: what a press on one cell of one    *)
(* track column means (slot_matrix.py).  A column is eight slots that share *)
(* ONE engine buffer; the active slot is the one bound to that buffer, and  *)
(* at most one queued launch or switch waits for the bar.                   *)
(*                                                                         *)
(* The planner is given a column as three values: which slots hold a clip   *)
(* (and whether the clip is still unsaved), the active slot and the queued  *)
(* action.  It never reads the engine's state: the sl_state argument of the *)
(* source is passed through to the lanes that do.  Slots outside the column *)
(* cannot be pressed here, so the planner's range check is not modelled.    *)
(***************************************************************************)
CONSTANTS Slots,  \* the slots of a column (NUM_SLOTS of them in the source)
          None    \* Python's None: no active slot

ASSUME NoneAssumption == None \notin Slots

-----------------------------------------------------------------------------
\* A slot is empty, or holds a clip that is on disk (clean) or only in the
\* engine's buffer (dirty).
SlotState == {"empty", "clean", "dirty"}

PendingKinds == {"none", "launch", "switch"}
Pending == [kind : PendingKinds, to : Slots \cup {None}, from : Slots \cup {None}]
NoPending == [kind |-> "none", to |-> None, from |-> None]

Actions == {"noop", "forward", "record", "launch", "switch", "cancel", "clear"}
Plan == [action : Actions, slot : Slots, from : Slots \cup {None},
         save : BOOLEAN, clear : BOOLEAN]

Occupied(row, s) == row[s] # "empty"

\* The loaded buffer holds audio that is not on disk yet.
NeedsFlush(row, active) == active # None /\ row[active] = "dirty"

\* The slot whose re-tap cancels the queued action.
PendingOwner(pend) == IF pend.kind = "launch" THEN pend.to ELSE pend.from

\* The pad is bound to the buffer, or there is no buffer and pressing binds it.
ActiveLane(row, active, s) == s = active \/ (active = None /\ ~Occupied(row, s))

PlanCellPress(row, active, pend, s, hold) ==
  LET here == [action |-> "noop", slot |-> s, from |-> None,
               save |-> FALSE, clear |-> FALSE]
      dirtyFirst == NeedsFlush(row, active)
  IN CASE pend.kind # "none" /\ PendingOwner(pend) = s ->
            [here EXCEPT !.action = "cancel", !.from = pend.from, !.clear = TRUE]
       [] ~(pend.kind # "none" /\ PendingOwner(pend) = s)
          /\ ActiveLane(row, active, s) ->
            [here EXCEPT !.action = "forward"]
       [] OTHER ->
            IF hold
            THEN [here EXCEPT !.action = IF Occupied(row, s) THEN "clear" ELSE "noop"]
            ELSE IF ~Occupied(row, s)
            THEN [here EXCEPT !.action = "record", !.from = active, !.save = dirtyFirst]
            ELSE IF active = None
            THEN [here EXCEPT !.action = "launch"]
            ELSE [here EXCEPT !.action = "switch", !.from = active, !.save = dirtyFirst]

\* The bookkeeping of a plan that has been carried out.
ApplyPending(pend, plan) ==
  IF plan.clear THEN NoPending
  ELSE CASE plan.action = "launch" ->
              [kind |-> "launch", to |-> plan.slot, from |-> None]
         [] plan.action = "switch" ->
              [kind |-> "switch", to |-> plan.slot, from |-> plan.from]
         [] OTHER -> pend

\* The boundary arrived: the queued slot becomes the active one.
ActiveAtBoundary(active, pend) == IF pend.kind = "none" THEN active ELSE pend.to

-----------------------------------------------------------------------------
\* Scene rows.  `rows`, `actives`, `pends` and `playing` are functions of the
\* track: every occupied cell of the row is the active one and sounding.
RowIsFullyPlaying(rows, actives, playing, s) ==
  LET here == {t \in DOMAIN rows : Occupied(rows[t], s)}
  IN here # {} /\ \A t \in here : actives[t] = s /\ playing[t]

\* The tracks a scene press acts on: the sounding cells of a row that is fully
\* playing (stop), the silent ones of a row that is not (launch).
SceneTracks(rows, actives, playing, s) ==
  LET stop == RowIsFullyPlaying(rows, actives, playing, s)
  IN {t \in DOMAIN rows : /\ Occupied(rows[t], s)
                          /\ stop <=> (actives[t] = s /\ playing[t])}
=============================================================================
