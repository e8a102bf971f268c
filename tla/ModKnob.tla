------------------------------ MODULE ModKnob ------------------------------
(***************************************************************************)
(* The mod knob, the Effect and the Patch mod fader, and the two processes *)
(* between them (patch_browser/fx_policy.py): FxPolicy in the touch        *)
(* browser, which keeps each patch's setup and publishes what it wants in  *)
(* the route file, and Cc1Router in the remapper, which owns the depth,    *)
(* sends it to the effects host, and publishes what the knob did in the    *)
(* levels file.  Each process reads the other's file when it changed.      *)
(***************************************************************************)
EXTENDS Integers, Sequences, FiniteSets

CONSTANTS
  Patches,
  Routed,     \* the patches whose sound uses the mod wheel
  Effects,
  Top,        \* the end of the travel of the knob and the faders (CC_MAX)
  Stops,      \* where a finger puts a fader
  None,
  Trouble,    \* "held": the knob moves while the fader it drives is held;
              \* "overtake": it moves between a touch of the screen and what
              \* that touch sends; "forget": Surge forgets its mod wheel at a
              \* load before the screen knows it; "revert": the remapper
              \* restarts while something of the knob's is unpublished
  MaxMoves    \* bound: what the player does at the knob and the screen

ASSUME KnobAssumption ==
  /\ Routed \subseteq Patches
  /\ IsFiniteSet(Patches) /\ IsFiniteSet(Effects)
  /\ Top \in Nat \ {0} /\ Stops \subseteq 0..Top
  /\ None \notin Patches /\ None \notin Nat
  /\ Trouble \subseteq {"held", "overtake", "forget", "revert"}
  /\ MaxMoves \in Nat

VARIABLES
  ui,         \* FxPolicy: what the screen shows, asked for (asked, set: when,
              \* which is also the stamp) and has yet to do
  store,      \* PatchFxStore: the setups saved
  route,      \* the route file; unread: rewritten since the remapper looked
  router,     \* Cc1Router: said is what it has to publish if dirty
  levels,     \* the levels file; unread: rewritten since the screen looked
  host,       \* the mask and depth the effects host was sent last
  wheel,      \* Surge's mod wheel
  now         \* the clock both processes read

vars == <<ui, store, route, router, levels, host, wheel, now>>

Travel  == 0..Top
Masks   == SUBSET Effects
Targets == {"patch_first", "effect"}
Time    == 0..(MaxMoves + 1)
Setup   == [mask : Masks, depth : Travel, target : Targets \cup {None}]

ASSUME NoneAssumption == None \notin Setup \cup Targets

Unset == [mask |-> {}, depth |-> 0, target |-> None]

\* What a patch's entry resolves to: the factory default where it has none.
Resolved(own) == IF own = None THEN Unset ELSE own
TargetOf(own, global) ==
  IF Resolved(own).target = None THEN global ELSE Resolved(own).target

\* Where the knob goes.
Destination(target, p) ==
  IF target = "effect" \/ p \in Patches \ Routed THEN "fx" ELSE "surge"

\* Mutant: the value goes as far as the knob went.
Shifted(prev, raw, ref) == ref + raw - prev

\* The pickup law: the value takes the share of its remaining travel that the
\* knob took of its own.
Scaled(prev, raw, ref) ==
  CASE raw < prev -> ref - (ref * (prev - raw)) \div prev
    [] raw > prev -> ref + ((Top - ref) * (raw - prev)) \div (Top - prev)
    [] raw = prev -> ref

Silent == [depth |-> None, source |-> "fader", request |-> 0, at |-> 0,
           wheel |-> None, wheelAt |-> 0, patch |-> None]
Fresh  == [cc1 |-> "surge", mask |-> {}, depth |-> None, asked |-> 0, set |-> 0, ref |-> None,
           anchor |-> None, said |-> Silent, dirty |-> FALSE, patch |-> None]

Init ==
  /\ ui = [patch |-> None, own |-> None, global |-> "patch_first", mask |-> {}, target |-> "patch_first",
           depth |-> 0, req |-> 0, asked |-> 0,
           wheel |-> 0, known |-> FALSE, wreq |-> None, set |-> 0, seen |-> 0,
           held |-> "none", unsent |-> FALSE, due |-> FALSE, todo |-> <<>>, next |-> None]
  /\ store = [p \in Patches |-> None]
  /\ route = [cc1 |-> "surge", mask |-> {}, req |-> 0, asked |-> 0, wreq |-> None, set |-> 0,
              patch |-> None, unread |-> FALSE]
  /\ router = Fresh
  /\ levels = [said |-> Silent, unread |-> FALSE]
  /\ host = [mask |-> {}, depth |-> 0]
  /\ wheel = 0
  /\ now = 0

(***************************************************************************)
(* The screen: a touch changes what FxPolicy holds, and what it then       *)
(* publishes and sends is in todo.                                         *)
(***************************************************************************)
\* A touch while the browser is not busy with an earlier one.
Idle(held) == ui.todo = <<>> /\ ui.held \in held /\ now < MaxMoves

Touch(held) == Idle(held) /\ now' = now + 1

\* The loaded patch's own setup is written whole, and saved later.
Changed(u) ==
  [u EXCEPT !.own = [mask |-> u.mask, depth |-> u.depth, target |-> Resolved(u.own).target],
            !.due = TRUE]

Saved == IF ui.due THEN [store EXCEPT ![ui.patch] = ui.own] ELSE store

\* load_patch: Surge gets the patch at once, and may or may not keep its mod
\* wheel across it.
LoadPatch(p) ==
  /\ Idle({"none"}) /\ now' = now
  /\ \/ wheel' = wheel
     \/ wheel' = 0 /\ (ui.known \/ "forget" \in Trouble)
  /\ ui' = [ui EXCEPT !.todo = <<"loaded">>, !.next = p]
  /\ UNCHANGED <<store, route, router, levels, host>>

\* on_patch_loaded, when Surge has had its time
Loaded ==
  /\ ui.todo = <<"loaded">>
  /\ now' = now + 1
  /\ store' = Saved
  /\ LET own == store'[ui.next]
     IN  ui' = [ui EXCEPT !.patch = ui.next, !.own = own, !.due = FALSE,
                          !.mask = Resolved(own).mask, !.target = TargetOf(own, ui.global),
                          !.depth = Resolved(own).depth, !.req = Resolved(own).depth, !.asked = now',
                          !.todo = <<"publish", "resend">>, !.next = None]
  /\ UNCHANGED <<route, router, levels, host, wheel>>

\* The play-screen switch, drawn for a patch that uses the mod wheel.
FlipTarget ==
  /\ Touch({"none"}) /\ ui.patch \in Routed
  /\ LET u == [ui EXCEPT !.target = IF @ = "effect" THEN "patch_first" ELSE "effect"]
     IN  ui' = [Changed(u) EXCEPT !.own.target = u.target, !.todo = <<"publish">>]
  /\ UNCHANGED <<store, route, router, levels, host, wheel>>

\* Settings: the default target, for the loaded patch too unless it has its own.
SetGlobalDefault ==
  /\ Touch({"none"}) /\ ui.patch # None
  /\ \E target \in Targets \ {ui.global} :
       ui' = [ui EXCEPT !.global = target, !.mask = Resolved(ui.own).mask,
                        !.target = TargetOf(ui.own, target), !.todo = <<"publish">>]
  /\ UNCHANGED <<store, route, router, levels, host, wheel>>

ToggleEffect(e) ==
  /\ Touch({"none"}) /\ ui.patch # None
  /\ LET u == [ui EXCEPT !.mask = IF e \in @ THEN @ \ {e} ELSE @ \cup {e}]
     IN  ui' = [Changed(u) EXCEPT !.todo = <<"publish">>]
  /\ UNCHANGED <<store, route, router, levels, host, wheel>>

\* set_depth: the Effect fader asks for a depth; a drag writes only now and
\* then, a reset (final) always.
SetDepth(v, final) ==
  /\ Touch(IF final THEN {"none"} ELSE {"none", "effect"})
  /\ ui.mask # {}
  /\ \E throttled \in {FALSE, ~final} :
       LET u == [ui EXCEPT !.depth = v, !.req = v, !.asked = now',
                           !.held = IF final THEN "none" ELSE "effect", !.unsent = throttled,
                           !.todo = IF throttled THEN <<>> ELSE <<"publish">>]
       IN  ui' = Changed(u)
  /\ UNCHANGED <<store, route, router, levels, host, wheel>>

\* set_patch_mod: the Patch mod fader sends to Surge itself, and tells the
\* remapper.
WheelSet(v, throttled, u) ==
  [u EXCEPT !.wheel = v, !.known = TRUE, !.wreq = v, !.set = now', !.unsent = throttled,
            !.todo = IF throttled THEN <<"send">> ELSE <<"publish", "send">>]

SetPatchMod(v, final) ==
  /\ Touch(IF final THEN {"none"} ELSE {"none", "wheel"})
  /\ ui.patch \in Routed
  /\ \E throttled \in {FALSE, ~final} :
       ui' = [WheelSet(v, throttled, ui) EXCEPT !.held = IF final THEN "none" ELSE "wheel"]
  /\ UNCHANGED <<store, route, router, levels, host, wheel>>

\* Mutant: what a throttle held back is not written at the end.
ReleaseAndForget ==
  /\ ui.todo = <<>> /\ ui.held # "none"
  /\ ui' = [ui EXCEPT !.held = "none", !.unsent = FALSE]
  /\ UNCHANGED <<store, route, router, levels, host, wheel, now>>

\* finish_depth, finish_patch_mod: the finger is off the fader.
Release ==
  /\ ui.todo = <<>> /\ ui.held # "none"
  /\ ui' = [ui EXCEPT !.held = "none", !.unsent = FALSE,
                      !.todo = IF ui.unsent THEN <<"publish">> ELSE <<>>]
  /\ UNCHANGED <<store, route, router, levels, host, wheel, now>>

Publish ==
  /\ ui.todo # <<>> /\ Head(ui.todo) = "publish"
  /\ route' = [cc1 |-> Destination(ui.target, ui.patch), mask |-> ui.mask, req |-> ui.req, asked |-> ui.asked,
               wreq |-> ui.wreq, set |-> ui.set, patch |-> ui.patch, unread |-> TRUE]
  /\ ui' = [ui EXCEPT !.todo = Tail(@)]
  /\ UNCHANGED <<store, router, levels, host, wheel, now>>

Send ==
  /\ ui.todo = <<"send">>
  /\ wheel' = ui.wheel
  /\ ui' = [ui EXCEPT !.todo = <<>>]
  /\ UNCHANGED <<store, route, router, levels, host, now>>

\* _resend_patch_mod: after a load Surge gets the fader's value again.
Resend ==
  /\ ui.todo = <<"resend">>
  /\ now' = now
  /\ IF ui.known /\ ui.patch \in Routed
     THEN ui' = WheelSet(ui.wheel, FALSE, ui)
     ELSE ui' = [ui EXCEPT !.todo = <<>>]
  /\ UNCHANGED <<store, route, router, levels, host, wheel>>

\* Mutant: the knob's depth is taken whenever it was turned.
IsDepth(said) == said.depth # None /\ (said.source = "fader" => said.request = ui.asked)

\* The levels file: a depth the fader asked for is taken up if it is the last
\* one asked, the knob's if it moved after that.
IsCurrent(said) ==
  /\ said.depth # None
  /\ IF said.source = "fader" THEN said.request = ui.asked ELSE said.at > ui.asked

\* Mutant: the request keeps what the fader or the load asked for.
ShowDepth(said, u) ==
  IF u.held = "effect" \/ ~IsCurrent(said) \/ said.depth = u.depth THEN u
  ELSE IF said.source = "fader" THEN [u EXCEPT !.depth = said.depth]
  ELSE Changed([u EXCEPT !.depth = said.depth])

FollowDepth(said, u) ==
  IF u.held = "effect" \/ ~IsCurrent(said) \/ said.depth = u.depth THEN u
  ELSE IF said.source = "fader" THEN [u EXCEPT !.depth = said.depth]
  ELSE Changed([u EXCEPT !.depth = said.depth, !.req = said.depth])

FollowPatchMod(said, u) ==
  IF u.held = "wheel" \/ said.wheel = None \/ said.wheelAt = u.seen THEN u
  ELSE IF said.wheelAt <= u.set THEN [u EXCEPT !.seen = said.wheelAt]
  ELSE [u EXCEPT !.seen = said.wheelAt, !.known = TRUE, !.wheel = said.wheel]

\* poll_levels: save what is due, follow the levels file if it is new.
PollLevels(due) ==
  /\ ui.todo = <<>>
  /\ due \/ levels.unread
  /\ due => ui.due
  /\ store' = IF due THEN Saved ELSE store
  /\ LET u == [ui EXCEPT !.due = @ /\ ~due]
     IN  ui' = IF levels.unread THEN FollowPatchMod(levels.said, FollowDepth(levels.said, u)) ELSE u
  /\ levels' = [levels EXCEPT !.unread = FALSE]
  /\ UNCHANGED <<route, router, host, wheel, now>>

(***************************************************************************)
(* The remapper.                                                           *)
(***************************************************************************)
\* _set_depth; which patch it was made on is noted for KnobStaysWithPatch only.
DepthSet(v, source, request, r) ==
  [r EXCEPT !.depth = v, !.dirty = TRUE,
            !.said.depth = v, !.said.source = source, !.said.request = request,
            !.said.at = IF source = "knob" THEN now' ELSE 0,
            !.said.patch = r.patch]

\* What the knob at v makes of the value in force, None if it only says where
\* the knob is.
Follow(v, ref) ==
  IF ref = None THEN v
  ELSE IF router.anchor = None THEN None
  ELSE Scaled(router.anchor, v, ref)

\* consume, the knob routed to Surge
KnobToSurge(v) ==
  LET level == Follow(v, router.ref)
      r == [router EXCEPT !.anchor = v]
  IN  /\ router.cc1 = "surge"
      /\ IF level = None THEN router' = r /\ wheel' = wheel
         ELSE /\ wheel' = level
              /\ router' = [r EXCEPT !.ref = level, !.dirty = TRUE,
                                     !.said.wheel = level, !.said.wheelAt = now']
      /\ host' = host

\* consume, the knob routed to the effects
KnobToEffects(v) ==
  LET level == Follow(v, router.depth)
      r == [router EXCEPT !.anchor = v]
  IN  /\ router.cc1 = "fx"
      /\ IF router.mask = {} \/ level \in {None, router.depth}
         THEN router' = r /\ host' = host
         ELSE /\ router' = DepthSet(level, "knob", 0, r)
              /\ host' = [mask |-> router.mask, depth |-> level]
      /\ wheel' = wheel

\* The fader the knob moves.
Driven == IF router.cc1 = "fx" THEN "effect" ELSE "wheel"

Knob(v) ==
  /\ v # router.anchor
  /\ now < MaxMoves
  /\ now' = now + 1
  /\ ui.held = Driven => "held" \in Trouble
  /\ ui.todo \notin {<<>>, <<"loaded">>, <<"resend">>} => "overtake" \in Trouble
  /\ KnobToSurge(v) \/ KnobToEffects(v)
  /\ UNCHANGED <<ui, store, route, levels>>

\* Mutant: the knob's next move is not taken from the fader's value.
WheelSkipped(r) == [r EXCEPT !.set = route.set]

\* _read_route: the destination and the mask as published, the fader's wheel
\* unless the knob moved Surge's later, and the depth asked for if it was
\* asked anew.
WheelRead(r) ==
  IF route.set \in {0, r.set} THEN r
  ELSE IF r.said.wheel # None /\ route.set < r.said.wheelAt THEN [r EXCEPT !.set = route.set]
  ELSE [r EXCEPT !.set = route.set, !.ref = route.wreq]

DepthRead(r) ==
  IF route.asked \in {0, r.asked} THEN r
  ELSE DepthSet(route.req, "fader", route.asked, [r EXCEPT !.asked = route.asked])

RouteRead(r) ==
  DepthRead(WheelRead([r EXCEPT !.cc1 = route.cc1, !.mask = route.mask, !.patch = route.patch]))

\* refresh: read the route if it is new, publish what moved.
Refreshed(r, new) ==
  LET s == IF new THEN RouteRead(r) ELSE r
  IN  /\ router' = [s EXCEPT !.dirty = FALSE]
      /\ levels' = IF s.dirty THEN [said |-> s.said, unread |-> TRUE] ELSE levels
      /\ host' = IF s.depth # None /\ (s.asked # r.asked \/ s.mask # r.mask)
                 THEN [mask |-> s.mask, depth |-> s.depth] ELSE host
      /\ route' = [route EXCEPT !.unread = FALSE]

Refresh ==
  /\ route.unread \/ router.dirty
  /\ now' = now
  /\ Refreshed(router, route.unread)
  /\ UNCHANGED <<ui, store, wheel>>

\* The screen has heard what the knob did, and the route file has it, too.
Published ==
  /\ ~router.dirty /\ ~levels.unread
  /\ route.asked = ui.asked => route.req = ui.req
  /\ route.set = router.set => route.wreq = router.ref

Restart ==
  /\ Published \/ "revert" \in Trouble
  /\ now' = now
  /\ Refreshed(Fresh, TRUE)
  /\ UNCHANGED <<ui, store, wheel>>

Screen ==
  \/ \E p \in Patches : LoadPatch(p)
  \/ FlipTarget \/ SetGlobalDefault
  \/ \E e \in Effects : ToggleEffect(e)
  \/ \E v \in Stops : SetDepth(v, FALSE) \/ SetPatchMod(v, FALSE)
  \/ SetDepth(0, TRUE) \/ SetPatchMod(0, TRUE)
  \/ Release

Busy == Loaded \/ Publish \/ Send \/ Resend

Poll == \E due \in BOOLEAN : PollLevels(due)

Next == Screen \/ Busy \/ Poll \/ (\E v \in Travel : Knob(v)) \/ Refresh \/ Restart

Spec == Init /\ [][Next]_vars

\* A touch is worked off, the screen polls and the remapper's loop goes round.
FairSpec == Spec /\ WF_vars(Busy) /\ WF_vars(Poll) /\ WF_vars(Refresh)

(***************************************************************************)
(* Properties.                                                             *)
(***************************************************************************)
UiTodo == {<<>>, <<"loaded">>, <<"publish">>, <<"publish", "resend">>, <<"resend">>,
           <<"publish", "send">>, <<"send">>}

UiType == [patch : Patches \cup {None}, own : Setup \cup {None}, global : Targets,
           mask : Masks, target : Targets, depth : Travel, req : Travel, asked : Time,
           wheel : Travel, known : BOOLEAN, wreq : Travel \cup {None}, set : Time, seen : Time,
           held : {"none", "effect", "wheel"}, unsent : BOOLEAN, due : BOOLEAN,
           todo : UiTodo, next : Patches \cup {None}]

RouteType == [cc1 : {"surge", "fx"}, mask : Masks, req : Travel, asked : Time,
              wreq : Travel \cup {None}, set : Time, patch : Patches \cup {None}, unread : BOOLEAN]

SaidType == [depth : Travel \cup {None}, source : {"knob", "fader"}, request : Time, at : Time,
             wheel : Travel \cup {None}, wheelAt : Time, patch : Patches \cup {None}]

RouterType == [cc1 : {"surge", "fx"}, mask : Masks, depth : Travel \cup {None}, asked : Time, set : Time,
               ref : Travel \cup {None}, anchor : Travel \cup {None}, said : SaidType,
               dirty : BOOLEAN, patch : Patches \cup {None}]

\* The type invariant.
TypeOK ==
  /\ ui \in UiType
  /\ store \in [Patches -> Setup \cup {None}]
  /\ route \in RouteType
  /\ router \in RouterType
  /\ levels \in [said : SaidType, unread : BOOLEAN]
  /\ host \in [mask : Masks, depth : Travel]
  /\ wheel \in Travel
  /\ now \in Time

\* Screen, remapper, effects host and Surge agree.
Agree ==
  /\ router.depth = ui.depth /\ router.mask = ui.mask
  /\ host = [mask |-> ui.mask, depth |-> ui.depth]
  /\ ui.patch \in Routed /\ ui.known => wheel = ui.wheel

\* Once the player's hands are off, the faders come to show what sounds, for good:
\* knob and screen moved in turns, a load came between two reports, the remapper
\* restarted.  Not so for what Trouble names: a knob moved while its fader is held,
\* or between a touch and its publication, or a restart while what the knob did is
\* not yet in the files and on the screen.
FadersSettle == <>[](ui.patch # None /\ ui.held = "none" => Agree)

\* Nothing is on its way or waits to be saved.
AtRest ==
  /\ ui.patch # None /\ ui.todo = <<>> /\ ui.held = "none" /\ ~ui.due
  /\ ~route.unread /\ ~router.dirty /\ ~levels.unread

\* What sounds is what will come back with the patch: the setup in force when
\* all is at rest is the one its entry resolves to, through loads, flips, drags,
\* turns of the knob, and a restart of the remapper that finds what the knob did in
\* the files (one that does not breaks it: Trouble, "revert").
SetupIsKept ==
  AtRest =>
    LET own == store[ui.patch]
    IN  /\ Resolved(own).mask = router.mask /\ Resolved(own).depth = router.depth
        /\ Destination(TargetOf(own, ui.global), ui.patch) = router.cc1

\* A depth of the knob's becomes the loaded patch's own only if the knob was
\* turned on that patch: a report from before a load never lands in the new
\* patch's setup.
KnobStaysWithPatch ==
  [][ui'.req # ui.req /\ ui'.asked = ui.asked => levels.said.patch = ui.patch]_vars

\* The knob moves what sounds its own way, or not at all: whatever moved the
\* value under it (a load, a fader, a flip, a restart with nothing unpublished),
\* turning it up never makes the sound jump down to where the knob is.
Toward(from, to, before, after) ==
  IF to > from THEN after >= before ELSE after <= before

KnobNeverJumps ==
  [][/\ router.anchor # None /\ router'.anchor \notin {None, router.anchor}
     /\ ui.todo = <<>> /\ ~route.unread
     => /\ router.ref # None => Toward(router.anchor, router'.anchor, wheel, wheel')
        /\ Toward(router.anchor, router'.anchor, host.depth, host'.depth)]_vars

============================================================================
