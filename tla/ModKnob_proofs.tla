--------------------------- MODULE ModKnob_proofs ---------------------------
(***************************************************************************)
(* The knob, the faders and the two processes between them: the types, the *)
(* pickup law, and three properties, each with the troubles it needs ruled *)
(* out: a report of the knob's stays with its patch, the setup in force is *)
(* the one kept, and the knob never makes the sound jump.                  *)
(***************************************************************************)
EXTENDS ModKnob, TLAPS

-----------------------------------------------------------------------------
(* The pickup law. *)

\* A whole part of a division is at most the bound of what is divided.
LEMMA DivBound ==
  ASSUME NEW a \in Nat, NEW b \in Nat, b > 0, NEW c \in Nat, a <= c * b
  PROVE  a \div b \in 0..c
<1>1. a \div b \in Int /\ a = b * (a \div b) + (a % b) /\ a % b \in 0..(b - 1)
  OBVIOUS
<1> DEFINE q == a \div b
<1> HIDE DEF q
<1>2. q \in Int /\ b * q <= c * b /\ b * q > 0 - b
  BY <1>1 DEF q
<1>3. q <= c
  <2>1. SUFFICES ASSUME q >= c + 1 PROVE FALSE
    BY <1>2
  <2>2. b * q >= b * (c + 1)
    BY <1>2, <2>1
  <2>3. QED
    BY <1>2, <2>2
<1>4. q >= 0
  <2>1. SUFFICES ASSUME q <= 0 - 1 PROVE FALSE
    BY <1>2
  <2>2. b * q <= b * (0 - 1)
    BY <1>2, <2>1
  <2>3. QED
    BY <1>2, <2>2
<1>5. QED
  BY <1>2, <1>3, <1>4 DEF q

\* The pickup law keeps to the travel, and moves the value the knob's way.
THEOREM ScaledMoves ==
  ASSUME NEW prev \in Travel, NEW raw \in Travel, NEW ref \in Travel
  PROVE  Scaled(prev, raw, ref) \in Travel /\ Toward(prev, raw, ref, Scaled(prev, raw, ref))
<1>1. /\ Top \in Nat /\ prev \in Nat /\ raw \in Nat /\ ref \in Nat
      /\ prev <= Top /\ raw <= Top /\ ref <= Top
  BY KnobAssumption DEF Travel
<1>2. CASE raw < prev
  <2> DEFINE q == (ref * (prev - raw)) \div prev
  <2>1. prev - raw \in Nat /\ prev > 0 /\ prev - raw <= prev
    BY <1>1, <1>2
  <2>2. ref * (prev - raw) \in Nat /\ ref * (prev - raw) <= ref * prev
    BY <1>1, <2>1
  <2>3. q \in 0..ref
    BY <1>1, <2>1, <2>2, DivBound
  <2>4. Scaled(prev, raw, ref) = ref - q
    BY <1>1, <1>2 DEF Scaled
  <2> HIDE DEF q
  <2>5. QED
    BY <1>1, <1>2, <2>3, <2>4 DEF Travel, Toward
<1>3. CASE raw > prev
  <2> DEFINE q == ((Top - ref) * (raw - prev)) \div (Top - prev)
  <2>1. raw - prev \in Nat /\ Top - prev \in Nat /\ Top - prev > 0 /\ raw - prev <= Top - prev
        /\ Top - ref \in Nat
    BY <1>1, <1>3
  <2>2. /\ (Top - ref) * (raw - prev) \in Nat
        /\ (Top - ref) * (raw - prev) <= (Top - ref) * (Top - prev)
    BY <2>1
  <2>3. q \in 0..(Top - ref)
    BY <2>1, <2>2, DivBound
  <2>4. Scaled(prev, raw, ref) = ref + q
    BY <1>1, <1>3 DEF Scaled
  <2> HIDE DEF q
  <2>5. QED
    BY <1>1, <1>3, <2>3, <2>4 DEF Travel, Toward
<1>4. CASE raw = prev
  <2>1. Scaled(prev, raw, ref) = ref
    BY <1>1, <1>4 DEF Scaled
  <2>2. QED
    BY <1>1, <1>4, <2>1 DEF Travel, Toward
<1>5. QED
  BY <1>1, <1>2, <1>3, <1>4

-----------------------------------------------------------------------------
(* Types. *)

\* While a patch loads it is known which, and the clock can still go on.
LoadCanEnd == ui.todo = <<"loaded">> => ui.next \in Patches /\ now <= MaxMoves

TypeInv == TypeOK /\ LoadCanEnd

TypesConst ==
  /\ MaxMoves \in Nat /\ Top \in Nat /\ 0 \in Travel /\ {} \in Masks
  /\ Stops \subseteq Travel /\ Routed \subseteq Patches /\ None \notin Patches /\ None \notin Nat
  /\ Unset \in Setup /\ None \notin Time /\ None \notin Setup /\ None \notin Targets

LEMMA Constants == TypesConst
BY KnobAssumption, NoneAssumption DEF TypesConst, Travel, Masks, Unset, Setup, Time

LEMMA ChangedType ==
  ASSUME NEW u \in UiType
  PROVE  /\ Changed(u) \in UiType
         /\ Changed(u).own \in Setup
<1>1. Resolved(u.own).target \in Targets \cup {None}
  BY Constants DEF UiType, Resolved, Setup, TypesConst
<1> DEFINE own == [mask |-> u.mask, depth |-> u.depth, target |-> Resolved(u.own).target]
<1>2. own \in Setup
  BY <1>1 DEF Setup, UiType
<1>3. Changed(u) = [u EXCEPT !.own = own, !.due = TRUE]
  BY DEF Changed
<1> HIDE DEF own
<1>4. QED
  BY <1>2, <1>3 DEF UiType

LEMMA ResolvedType ==
  ASSUME NEW own \in Setup \cup {None}, NEW global \in Targets
  PROVE  Resolved(own) \in Setup /\ TargetOf(own, global) \in Targets
<1>1. Resolved(own) \in Setup
  BY Constants DEF TypesConst, Resolved
<1>2. QED
  BY <1>1 DEF TargetOf, Setup

\* The clock does not pass its bound.
LEMMA TimeGoesOn ==
  ASSUME TypeInv
  PROVE  /\ now \in 0..MaxMoves => now + 1 \in Time
         /\ now < MaxMoves => now + 1 \in 0..MaxMoves /\ now + 1 \in Time
BY Constants DEF TypesConst, TypeInv, TypeOK, Time

LEMMA TypeFlip == ASSUME TypeInv, FlipTarget PROVE ui' \in UiType
<1> DEFINE u == [ui EXCEPT !.target = IF @ = "effect" THEN "patch_first" ELSE "effect"]
<1>1. u \in UiType
  BY DEF TypeInv, TypeOK, UiType, Targets
<1>2. ui' = [Changed(u) EXCEPT !.own.target = u.target, !.todo = <<"publish">>]
  BY DEF FlipTarget
<1>3. Changed(u) \in UiType /\ Changed(u).own \in Setup
  BY <1>1, ChangedType
<1>4. [Changed(u).own EXCEPT !.target = u.target] \in Setup
  BY <1>1, <1>3 DEF UiType, Setup
<1> HIDE DEF u
<1>5. QED
  BY <1>2, <1>3, <1>4 DEF UiType, UiTodo

LEMMA TypeDefault == ASSUME TypeInv, SetGlobalDefault PROVE ui' \in UiType
<1>1. PICK target \in Targets :
        ui' = [ui EXCEPT !.global = target, !.mask = Resolved(ui.own).mask,
                         !.target = TargetOf(ui.own, target), !.todo = <<"publish">>]
  BY DEF SetGlobalDefault
<1>2. Resolved(ui.own).mask \in Masks /\ TargetOf(ui.own, target) \in Targets
  BY ResolvedType DEF TypeInv, TypeOK, UiType, Setup
<1>3. QED
  BY <1>1, <1>2 DEF TypeInv, TypeOK, UiType, UiTodo

LEMMA TypeToggle == ASSUME TypeInv, NEW e \in Effects, ToggleEffect(e) PROVE ui' \in UiType
<1> DEFINE u == [ui EXCEPT !.mask = IF e \in @ THEN @ \ {e} ELSE @ \cup {e}]
<1>1. u \in UiType
  BY DEF TypeInv, TypeOK, UiType, Masks
<1>2. ui' = [Changed(u) EXCEPT !.todo = <<"publish">>] /\ Changed(u) \in UiType
  BY <1>1, ChangedType DEF ToggleEffect
<1> HIDE DEF u
<1>3. QED
  BY <1>2 DEF UiType, UiTodo

LEMMA TypeDepth ==
  ASSUME TypeInv, NEW v \in Travel, NEW final \in BOOLEAN, SetDepth(v, final)
  PROVE  ui' \in UiType
<1>1. now' \in Time
  BY TimeGoesOn DEF SetDepth, Touch, Idle
<1>2. PICK throttled \in BOOLEAN :
        ui' = Changed([ui EXCEPT !.depth = v, !.req = v, !.asked = now',
                         !.held = IF final THEN "none" ELSE "effect", !.unsent = throttled,
                         !.todo = IF throttled THEN <<>> ELSE <<"publish">>])
  BY DEF SetDepth
<1>3. [ui EXCEPT !.depth = v, !.req = v, !.asked = now',
                 !.held = IF final THEN "none" ELSE "effect", !.unsent = throttled,
                 !.todo = IF throttled THEN <<>> ELSE <<"publish">>] \in UiType
  BY <1>1 DEF TypeInv, TypeOK, UiType, UiTodo
<1>4. QED
  BY <1>2, <1>3, ChangedType

\* WheelSet: the fader's value with its stamp.
LEMMA WheelSetType ==
  ASSUME NEW u \in UiType, NEW v \in Travel, NEW throttled \in BOOLEAN, now' \in Time
  PROVE  WheelSet(v, throttled, u) \in UiType
BY DEF WheelSet, UiType, UiTodo

LEMMA TypePatchMod ==
  ASSUME TypeInv, NEW v \in Travel, NEW final \in BOOLEAN, SetPatchMod(v, final)
  PROVE  ui' \in UiType
<1>1. now' \in Time
  BY TimeGoesOn DEF SetPatchMod, Touch, Idle
<1>2. PICK throttled \in BOOLEAN :
        ui' = [WheelSet(v, throttled, ui) EXCEPT !.held = IF final THEN "none" ELSE "wheel"]
  BY DEF SetPatchMod
<1>3. WheelSet(v, throttled, ui) \in UiType
  BY <1>1, WheelSetType DEF TypeInv, TypeOK
<1>4. QED
  BY <1>2, <1>3 DEF UiType

\* The browser's own steps after a touch.
LEMMA TypeLoaded == ASSUME TypeInv, Loaded PROVE TypeOK'
<1>1. ui.next \in Patches /\ now' \in Time
  BY TimeGoesOn, Constants DEF Loaded, TypeInv, LoadCanEnd, TypeOK, Time, TypesConst
<1>2. store' \in [Patches -> Setup \cup {None}] /\ ui \in UiType
  BY DEF Loaded, Saved, TypeInv, TypeOK, UiType
<1> DEFINE own == store'[ui.next]
<1>3. own \in Setup \cup {None}
  BY <1>1, <1>2
<1>4. /\ Resolved(own).mask \in Masks /\ Resolved(own).depth \in Travel
      /\ TargetOf(own, ui.global) \in Targets
  BY <1>2, <1>3, ResolvedType DEF UiType, Setup
<1>5. ui' = [ui EXCEPT !.patch = ui.next, !.own = own, !.due = FALSE,
               !.mask = Resolved(own).mask, !.target = TargetOf(own, ui.global),
               !.depth = Resolved(own).depth, !.req = Resolved(own).depth, !.asked = now',
               !.todo = <<"publish", "resend">>, !.next = None]
  BY DEF Loaded
<1> HIDE DEF own
<1>6. ui' \in UiType
  BY <1>1, <1>2, <1>3, <1>4, <1>5 DEF UiType, UiTodo
<1>7. QED
  BY <1>1, <1>2, <1>6 DEF Loaded, TypeInv, TypeOK

\* A publication is the first thing to do, whatever else there is.
LEMMA PublishFirst ==
  ASSUME ui.todo \in UiTodo, ui.todo # <<>>, Head(ui.todo) = "publish"
  PROVE  \/ ui.todo = <<"publish">> /\ Tail(ui.todo) = <<>>
         \/ ui.todo = <<"publish", "resend">> /\ Tail(ui.todo) = <<"resend">>
         \/ ui.todo = <<"publish", "send">> /\ Tail(ui.todo) = <<"send">>
<1>1. Head(<<"loaded">>) # "publish" /\ Head(<<"resend">>) # "publish" /\ Head(<<"send">>) # "publish"
  OBVIOUS
<1>2. /\ Tail(<<"publish">>) = <<>> /\ Tail(<<"publish", "resend">>) = <<"resend">>
      /\ Tail(<<"publish", "send">>) = <<"send">>
  OBVIOUS
<1>3. QED
  BY <1>1, <1>2, Zenon DEF UiTodo

LEMMA TypePublish == ASSUME TypeInv, Publish PROVE TypeOK'
<1>1. ui \in UiType /\ TypeOK
  BY DEF TypeInv, TypeOK
<1>2. Tail(ui.todo) \in UiTodo
  BY <1>1, PublishFirst DEF Publish, UiType, UiTodo
<1>3. Destination(ui.target, ui.patch) \in {"surge", "fx"}
  BY DEF Destination
<1>4. route' \in RouteType
  BY <1>1, <1>3 DEF Publish, UiType, RouteType
<1>5. ui' \in UiType
  BY <1>1, <1>2 DEF Publish, UiType
<1>6. QED
  BY <1>1, <1>4, <1>5 DEF Publish, TypeOK

LEMMA TypeResend == ASSUME TypeInv, Resend PROVE TypeOK'
<1>1. ui \in UiType /\ TypeOK /\ now' \in Time
  BY DEF TypeInv, TypeOK, Resend
<1>2. WheelSet(ui.wheel, FALSE, ui) \in UiType
  BY <1>1, WheelSetType DEF UiType
<1>3. [ui EXCEPT !.todo = <<>>] \in UiType
  BY <1>1 DEF UiType, UiTodo
<1>4. ui' \in UiType
  BY <1>2, <1>3 DEF Resend
<1>5. QED
  BY <1>1, <1>4 DEF Resend, TypeOK

\* What the screen makes of the levels file.
LEMMA FollowTypes ==
  ASSUME NEW said \in SaidType, NEW u \in UiType
  PROVE  FollowDepth(said, u) \in UiType /\ FollowPatchMod(said, u) \in UiType
<1>1. ASSUME said.depth \in Travel PROVE FollowDepth(said, u) \in UiType
  <2>1. [u EXCEPT !.depth = said.depth] \in UiType
    BY <1>1 DEF UiType
  <2>2. [u EXCEPT !.depth = said.depth, !.req = said.depth] \in UiType
    BY <1>1 DEF UiType
  <2>3. QED
    BY <2>1, <2>2, ChangedType DEF FollowDepth
<1>2. ASSUME said.depth = None PROVE FollowDepth(said, u) \in UiType
  BY <1>2 DEF FollowDepth, IsCurrent
<1>3. FollowDepth(said, u) \in UiType
  BY <1>1, <1>2 DEF SaidType
<1>4. FollowPatchMod(said, u) \in UiType
  <2>1. [u EXCEPT !.seen = said.wheelAt] \in UiType
    BY DEF SaidType, UiType
  <2>2. CASE said.wheel \in Travel
    <3>1. [u EXCEPT !.seen = said.wheelAt, !.known = TRUE, !.wheel = said.wheel] \in UiType
      BY <2>2 DEF SaidType, UiType
    <3>2. QED
      BY <2>1, <3>1 DEF FollowPatchMod
  <2>3. CASE said.wheel = None
    BY <2>3 DEF FollowPatchMod
  <2>4. QED
    BY <2>2, <2>3 DEF SaidType
<1>5. QED
  BY <1>3, <1>4

LEMMA FollowTodo ==
  ASSUME NEW said \in SaidType, NEW u \in UiType
  PROVE  FollowDepth(said, u).todo = u.todo /\ FollowPatchMod(said, u).todo = u.todo
BY DEF FollowDepth, FollowPatchMod, Changed, UiType

LEMMA PollTodo == ASSUME TypeOK, NEW due \in BOOLEAN, PollLevels(due) PROVE ui'.todo = ui.todo
<1> DEFINE u == [ui EXCEPT !.due = @ /\ ~due]
<1>1. u \in UiType /\ levels.said \in SaidType /\ u.todo = ui.todo
  BY DEF TypeOK, UiType
<1>2. ui' = IF levels.unread THEN FollowPatchMod(levels.said, FollowDepth(levels.said, u)) ELSE u
  BY DEF PollLevels
<1> HIDE DEF u
<1>3. QED
  BY <1>1, <1>2, FollowTodo, FollowTypes

LEMMA TypePoll == ASSUME TypeInv, NEW due \in BOOLEAN, PollLevels(due) PROVE TypeOK'
<1>1. TypeOK /\ ui \in UiType /\ levels.said \in SaidType
  BY DEF TypeInv, TypeOK
<1>2. store' \in [Patches -> Setup \cup {None}]
  BY <1>1 DEF PollLevels, Saved, TypeOK, UiType
<1> DEFINE u == [ui EXCEPT !.due = @ /\ ~due]
<1>3. u \in UiType
  BY <1>1 DEF UiType
<1>4. ui' = IF levels.unread THEN FollowPatchMod(levels.said, FollowDepth(levels.said, u)) ELSE u
  BY DEF PollLevels
<1> HIDE DEF u
<1>5. ui' \in UiType
  BY <1>1, <1>3, <1>4, FollowTypes
<1>6. levels' \in [said : SaidType, unread : BOOLEAN]
  BY <1>1 DEF PollLevels, TypeOK
<1>7. QED
  BY <1>1, <1>2, <1>5, <1>6 DEF PollLevels, TypeOK

\* The remapper's own operators.
LEMMA DepthSetType ==
  ASSUME NEW r \in RouterType, NEW v \in Travel, NEW source \in {"knob", "fader"},
         NEW request \in Time, now' \in Time
  PROVE  DepthSet(v, source, request, r) \in RouterType
<1>1. 0 \in Time
  BY Constants DEF TypesConst, Time
<1> DEFINE said == [r.said EXCEPT !.depth = v, !.source = source, !.request = request,
                                  !.at = IF source = "knob" THEN now' ELSE 0, !.patch = r.patch]
<1>2. r.said \in SaidType /\ r.patch \in Patches \cup {None}
  BY DEF RouterType
<1>3. said \in SaidType
  BY <1>1, <1>2 DEF SaidType
<1>4. DepthSet(v, source, request, r) = [r EXCEPT !.depth = v, !.dirty = TRUE, !.said = said]
  BY <1>2 DEF DepthSet, RouterType, SaidType
<1> HIDE DEF said
<1>5. QED
  BY <1>3, <1>4 DEF RouterType

LEMMA RouteReadType ==
  ASSUME NEW r \in RouterType, route \in RouteType, now' \in Time
  PROVE  RouteRead(r) \in RouterType
<1> DEFINE s == [r EXCEPT !.cc1 = route.cc1, !.mask = route.mask, !.patch = route.patch]
           w == WheelRead(s)
<1>1. s \in RouterType
  BY DEF RouterType, RouteType
<1> HIDE DEF s
<1>2. w \in RouterType
  BY <1>1 DEF WheelRead, RouterType, RouteType
<1> HIDE DEF w
<1>3. [w EXCEPT !.asked = route.asked] \in RouterType
  BY <1>2 DEF RouterType, RouteType
<1>4. DepthRead(w) \in RouterType
  BY <1>2, <1>3, DepthSetType DEF DepthRead, RouteType
<1>5. RouteRead(r) = DepthRead(w)
  BY DEF RouteRead, s, w
<1>6. QED
  BY <1>4, <1>5

LEMMA RefreshedTypes ==
  ASSUME TypeInv, NEW r \in RouterType, NEW new \in BOOLEAN, Refreshed(r, new), now' = now,
         UNCHANGED <<ui, store, wheel>>
  PROVE  TypeOK'
<1>1. TypeOK /\ route \in RouteType /\ now' \in Time
  BY DEF TypeInv, TypeOK
<1> DEFINE s == IF new THEN RouteRead(r) ELSE r
<1>2. s \in RouterType
  BY <1>1, RouteReadType
<1>3. /\ router' = [s EXCEPT !.dirty = FALSE]
      /\ levels' = (IF s.dirty THEN [said |-> s.said, unread |-> TRUE] ELSE levels)
      /\ host' = (IF s.depth # None /\ (s.asked # r.asked \/ s.mask # r.mask)
                 THEN [mask |-> s.mask, depth |-> s.depth] ELSE host)
      /\ route' = [route EXCEPT !.unread = FALSE]
  BY DEF Refreshed
<1> HIDE DEF s
<1>4. router' \in RouterType /\ s.said \in SaidType /\ s.mask \in Masks
      /\ s.depth \in Travel \cup {None}
  BY <1>2, <1>3 DEF RouterType
<1>5. route' \in RouteType
  BY <1>1, <1>3 DEF RouteType
<1>6. QED
  BY <1>1, <1>3, <1>4, <1>5 DEF TypeOK

\* A router that knows nothing yet.
LEMMA FreshType == Fresh \in RouterType
<1>1. 0 \in Time
  BY Constants DEF TypesConst, Time
<1>2. Silent \in SaidType
  BY <1>1 DEF Silent, SaidType
<1>3. QED
  BY <1>1, <1>2, Constants DEF Fresh, RouterType, TypesConst

LEMMA FollowValue ==
  ASSUME NEW v \in Travel, NEW ref \in Travel \cup {None}, TypeOK
  PROVE  Follow(v, ref) \in Travel \cup {None}
<1>1. router.anchor \in Travel \cup {None}
  BY DEF TypeOK, RouterType
<1>2. QED
  BY <1>1, ScaledMoves DEF Follow

LEMMA TypeKnob == ASSUME TypeInv, NEW v \in Travel, Knob(v) PROVE TypeOK'
<1>1. TypeOK /\ router \in RouterType /\ now' \in Time
  BY TimeGoesOn DEF TypeInv, TypeOK, Knob
<1> DEFINE r == [router EXCEPT !.anchor = v]
<1>2. r \in RouterType
  BY <1>1 DEF RouterType
<1>3. CASE KnobToSurge(v)
  <2> DEFINE level == Follow(v, router.ref)
  <2>1. level \in Travel \cup {None}
    BY <1>1, FollowValue DEF RouterType
  <2>2. /\ IF level = None THEN router' = r /\ wheel' = wheel
         ELSE /\ wheel' = level
              /\ router' = [r EXCEPT !.ref = level, !.dirty = TRUE,
                                     !.said.wheel = level, !.said.wheelAt = now']
        /\ host' = host
    BY <1>3 DEF KnobToSurge
  <2> HIDE DEF level, r
  <2>3. level # None =>
          [r EXCEPT !.ref = level, !.dirty = TRUE, !.said.wheel = level, !.said.wheelAt = now']
             \in RouterType
    BY <1>1, <1>2, <2>1 DEF RouterType, SaidType
  <2>4. router' \in RouterType /\ wheel' \in Travel
    BY <1>1, <1>2, <2>1, <2>2, <2>3 DEF TypeOK
  <2>5. QED
    BY <1>1, <2>2, <2>4 DEF Knob, TypeOK
<1>4. CASE KnobToEffects(v)
  <2> DEFINE level == Follow(v, router.depth)
  <2>1. level \in Travel \cup {None}
    BY <1>1, FollowValue DEF RouterType
  <2>2. /\ IF router.mask = {} \/ level \in {None, router.depth}
           THEN router' = r /\ host' = host
           ELSE /\ router' = DepthSet(level, "knob", 0, r)
                /\ host' = [mask |-> router.mask, depth |-> level]
        /\ wheel' = wheel
    BY <1>4 DEF KnobToEffects
  <2> HIDE DEF level, r
  <2>3. 0 \in Time /\ router.mask \in Masks
    BY <1>1, Constants DEF TypesConst, Time, RouterType
  <2>4. level # None => DepthSet(level, "knob", 0, r) \in RouterType
    BY <1>1, <1>2, <2>1, <2>3, DepthSetType
  <2>5. router' \in RouterType /\ host' \in [mask : Masks, depth : Travel]
    BY <1>1, <1>2, <2>1, <2>2, <2>3, <2>4 DEF TypeOK
  <2>6. QED
    BY <1>1, <2>2, <2>5 DEF Knob, TypeOK
<1>5. QED
  BY <1>3, <1>4 DEF Knob

LEMMA TypeLoad == ASSUME TypeInv, NEW p \in Patches, LoadPatch(p) PROVE TypeInv'
<1>1. TypeOK /\ ui \in UiType /\ wheel' \in Travel /\ now \in 0..MaxMoves
  BY Constants DEF TypeInv, TypeOK, LoadPatch, Idle, TypesConst, Time
<1>2. ui' = [ui EXCEPT !.todo = <<"loaded">>, !.next = p]
  BY DEF LoadPatch
<1>3. ui' \in UiType /\ ui'.next \in Patches
  BY <1>1, <1>2 DEF UiType, UiTodo
<1>4. QED
  BY <1>1, <1>3 DEF LoadPatch, TypeInv, TypeOK, LoadCanEnd

\* A touch, but for a load, changes only the screen, and no load is on its way after it.
LEMMA TypeTouch ==
  ASSUME TypeInv, ui' \in UiType, ui'.todo # <<"loaded">>, now' \in Time,
         UNCHANGED <<store, route, router, levels, host, wheel>>
  PROVE  TypeInv'
BY DEF TypeInv, TypeOK, LoadCanEnd

LEMMA TypeInvKeeps == TypeInv /\ [Next]_vars => TypeInv'
<1> SUFFICES ASSUME TypeInv, [Next]_vars PROVE TypeInv'
  OBVIOUS
<1>1. TypeOK /\ ui \in UiType /\ Stops \subseteq Travel /\ 0 \in Travel
  BY Constants DEF TypeInv, TypeOK, TypesConst
<1>3. ASSUME NEW p \in Patches, LoadPatch(p) PROVE TypeInv'
  BY <1>3, TypeLoad
<1>4. CASE FlipTarget
  <2>1. ui'.todo = <<"publish">> /\ now' \in Time
    BY <1>1, <1>4, TypeFlip, TimeGoesOn DEF FlipTarget, Touch, Idle, Changed, UiType
  <2>2. ui' \in UiType
    BY <1>4, TypeFlip
  <2>3. UNCHANGED <<store, route, router, levels, host, wheel>>
    BY <1>4 DEF FlipTarget
  <2>4. QED
    BY <2>1, <2>2, <2>3, TypeTouch
<1>5. CASE SetGlobalDefault
  <2>1. ui'.todo = <<"publish">> /\ now' \in Time
    BY <1>1, <1>5, TimeGoesOn DEF SetGlobalDefault, Touch, Idle, UiType
  <2>2. ui' \in UiType
    BY <1>5, TypeDefault
  <2>3. UNCHANGED <<store, route, router, levels, host, wheel>>
    BY <1>5 DEF SetGlobalDefault
  <2>4. QED
    BY <2>1, <2>2, <2>3, TypeTouch
<1>6. ASSUME NEW e \in Effects, ToggleEffect(e) PROVE TypeInv'
  <2>1. ui'.todo = <<"publish">> /\ now' \in Time
    BY <1>1, <1>6, TimeGoesOn DEF ToggleEffect, Touch, Idle, Changed, UiType
  <2>2. ui' \in UiType
    BY <1>6, TypeToggle
  <2>3. UNCHANGED <<store, route, router, levels, host, wheel>>
    BY <1>6 DEF ToggleEffect
  <2>4. QED
    BY <2>1, <2>2, <2>3, TypeTouch
<1>7. ASSUME NEW v \in Travel, NEW final \in BOOLEAN, SetDepth(v, final) PROVE TypeInv'
  <2>1. ui'.todo \in {<<>>, <<"publish">>} /\ now' \in Time
    BY <1>1, <1>7, TimeGoesOn DEF SetDepth, Touch, Idle, Changed, UiType
  <2>2. ui' \in UiType
    BY <1>7, TypeDepth
  <2>3. UNCHANGED <<store, route, router, levels, host, wheel>>
    BY <1>7 DEF SetDepth
  <2>4. QED
    BY <2>1, <2>2, <2>3, TypeTouch
<1>8. ASSUME NEW v \in Travel, NEW final \in BOOLEAN, SetPatchMod(v, final) PROVE TypeInv'
  <2>1. ui'.todo \in {<<"send">>, <<"publish", "send">>} /\ now' \in Time
    BY <1>1, <1>8, TimeGoesOn DEF SetPatchMod, Touch, Idle, WheelSet, UiType
  <2>2. ui' \in UiType
    BY <1>8, TypePatchMod
  <2>3. UNCHANGED <<store, route, router, levels, host, wheel>>
    BY <1>8 DEF SetPatchMod
  <2>4. QED
    BY <2>1, <2>2, <2>3, TypeTouch
<1>9. CASE Release
  <2>1. ui' \in UiType /\ ui'.todo \in {<<>>, <<"publish">>} /\ now' \in Time
    BY <1>1, <1>9 DEF Release, UiType, UiTodo, TypeOK
  <2>2. QED
    BY <1>9, <2>1, TypeTouch DEF Release
<1>10. CASE Loaded
  <2>1. ui'.todo = <<"publish", "resend">>
    BY <1>1, <1>10 DEF Loaded, UiType
  <2>2. QED
    BY <1>10, <2>1, TypeLoaded DEF TypeInv, LoadCanEnd
<1>11. CASE Publish
  <2>1. ui'.todo \in {<<>>, <<"resend">>, <<"send">>}
    BY <1>1, <1>11, PublishFirst DEF Publish, UiType
  <2>2. TypeOK'
    BY <1>11, TypePublish
  <2>3. QED
    BY <1>11, <2>1, <2>2 DEF TypeInv, LoadCanEnd
<1>12. CASE Send
  <2>1. ui' \in UiType /\ ui'.todo = <<>> /\ now' \in Time /\ wheel' \in Travel
    BY <1>1, <1>12 DEF Send, UiType, UiTodo, TypeOK
  <2>2. QED
    BY <1>1, <1>12, <2>1 DEF Send, TypeInv, TypeOK, LoadCanEnd
<1>13. CASE Resend
  <2>1. ui'.todo \in {<<>>, <<"publish", "send">>}
    BY <1>1, <1>13 DEF Resend, WheelSet, UiType
  <2>2. QED
    BY <1>13, <2>1, TypeResend DEF TypeInv, LoadCanEnd
<1>14. ASSUME NEW due \in BOOLEAN, PollLevels(due) PROVE TypeInv'
  <2>1. ui'.todo = <<>>
    BY <1>1, <1>14, PollTodo DEF PollLevels
  <2>2. QED
    BY <1>14, <2>1, TypePoll DEF TypeInv, LoadCanEnd
<1>15. ASSUME NEW v \in Travel, Knob(v) PROVE TypeInv'
  <2>1. ui' = ui /\ now' <= MaxMoves
    BY <1>15, TimeGoesOn, Constants DEF Knob, TypeInv, TypeOK, TypesConst, Time
  <2>2. QED
    BY <1>15, <2>1, TypeKnob DEF TypeInv, LoadCanEnd
<1>16. CASE Refresh
  <2>1. TypeOK'
    BY <1>1, <1>16, RefreshedTypes DEF Refresh, TypeOK, RouteType
  <2>2. QED
    BY <1>16, <2>1 DEF Refresh, TypeInv, LoadCanEnd
<1>17. CASE Restart
  <2>1. TypeOK'
    BY <1>17, FreshType, RefreshedTypes DEF Restart
  <2>2. QED
    BY <1>17, <2>1 DEF Restart, TypeInv, LoadCanEnd
<1>18. CASE UNCHANGED vars
  BY <1>18 DEF vars, TypeInv, TypeOK, LoadCanEnd
<1>19. QED
  BY <1>1, <1>3, <1>4, <1>5, <1>6, <1>7, <1>8, <1>9, <1>10, <1>11, <1>12, <1>13, <1>14, <1>15,
     <1>16, <1>17, <1>18 DEF Next, Screen, Busy, Poll

LEMMA TypeInit == Init => TypeInv
BY Constants DEF Init, TypeInv, TypeOK, LoadCanEnd, UiType, UiTodo, RouteType, RouterType, SaidType,
   Fresh, Silent, TypesConst, Time, Targets, Masks

LEMMA Types == Spec => []TypeInv
BY TypeInit, TypeInvKeeps, PTL DEF Spec

\* Whatever goes wrong between the two processes, every part of the state keeps its type.
THEOREM Typing == Spec => []TypeOK
<1>1. TypeInv => TypeOK
  BY DEF TypeInv
<1>2. QED
  BY <1>1, Types, PTL

-----------------------------------------------------------------------------
(* What each step of the screen does to the fields the invariants read. *)

\* What is left to do after a touch.
ToPublish(todo) == todo \in {<<"publish">>, <<"publish", "resend">>, <<"publish", "send">>}
ToResend(todo)  == todo \in {<<"publish", "resend">>, <<"resend">>}
ToSend(todo)    == todo \in {<<"publish", "send">>, <<"send">>}
ToLoad(todo)    == todo = <<"loaded">>

TodoFacts ==
  /\ ~ToPublish(<<>>) /\ ~ToResend(<<>>) /\ ~ToSend(<<>>) /\ ~ToLoad(<<>>)
  /\ ~ToPublish(<<"loaded">>) /\ ~ToResend(<<"loaded">>) /\ ~ToSend(<<"loaded">>) /\ ToLoad(<<"loaded">>)
  /\ ToPublish(<<"publish">>) /\ ~ToResend(<<"publish">>) /\ ~ToSend(<<"publish">>)
  /\ ~ToLoad(<<"publish">>)
  /\ ToPublish(<<"publish", "resend">>) /\ ToResend(<<"publish", "resend">>)
  /\ ~ToSend(<<"publish", "resend">>) /\ ~ToLoad(<<"publish", "resend">>)
  /\ ~ToPublish(<<"resend">>) /\ ToResend(<<"resend">>) /\ ~ToSend(<<"resend">>) /\ ~ToLoad(<<"resend">>)
  /\ ToPublish(<<"publish", "send">>) /\ ~ToResend(<<"publish", "send">>)
  /\ ToSend(<<"publish", "send">>) /\ ~ToLoad(<<"publish", "send">>)
  /\ ~ToPublish(<<"send">>) /\ ~ToResend(<<"send">>) /\ ToSend(<<"send">>) /\ ~ToLoad(<<"send">>)

LEMMA Todos == TodoFacts
<1>1. \A x, y, z : <<x>> # <<y, z>> /\ <<>> # <<x>> /\ <<>> # <<y, z>>
  OBVIOUS
<1>2. \A x, y : <<x>> = <<y>> => x = y
  OBVIOUS
<1>3. \A x, y, a, b : <<x, y>> = <<a, b>> => x = a /\ y = b
  OBVIOUS
<1>4. QED
  BY <1>1, <1>2, <1>3 DEF TodoFacts, ToPublish, ToResend, ToSend, ToLoad

SameSetup == ui'.own = ui.own /\ ui'.global = ui.global /\ ui'.mask = ui.mask /\ ui'.target = ui.target
SameDepth == ui'.depth = ui.depth /\ ui'.req = ui.req /\ ui'.asked = ui.asked
SameWheel == ui'.wheel = ui.wheel /\ ui'.known = ui.known /\ ui'.wreq = ui.wreq /\ ui'.set = ui.set
SameHands == ui'.held = ui.held /\ ui'.unsent = ui.unsent
ScreenOnly == UNCHANGED <<store, route, router, levels, host, wheel>>

\* The setup a touch leaves for the patch, still to be saved.
OwnIs(target) == ui'.own = [mask |-> ui'.mask, depth |-> ui'.depth, target |-> target] /\ ui'.due

LEMMA LoadSays ==
  ASSUME TypeInv, NEW p \in Patches, LoadPatch(p)
  PROVE  /\ SameSetup /\ SameDepth /\ SameWheel /\ SameHands /\ UNCHANGED <<store, route, router, levels, host, now>>
         /\ ui'.patch = ui.patch /\ ui'.due = ui.due
         /\ ui.todo = <<>> /\ ui'.todo = <<"loaded">> /\ ui.held = "none" /\ now < MaxMoves
         /\ wheel' = wheel \/ (wheel' = 0 /\ (ui.known \/ "forget" \in Trouble))
BY DEF TypeInv, TypeOK, UiType, LoadPatch, Idle, SameSetup, SameDepth, SameWheel, SameHands

LEMMA LoadedSays ==
  ASSUME TypeInv, Loaded
  PROVE  /\ SameWheel /\ SameHands /\ UNCHANGED <<route, router, levels, host, wheel>> /\ now' = now + 1
         /\ ui.next \in Patches /\ ui'.patch = ui.next /\ ui'.own = store'[ui.next]
         /\ ui'.global = ui.global /\ ~ui'.due
         /\ ui'.mask = Resolved(ui'.own).mask /\ ui'.target = TargetOf(ui'.own, ui'.global)
         /\ ui'.depth = Resolved(ui'.own).depth /\ ui'.req = Resolved(ui'.own).depth
         /\ ui'.asked = now + 1
         /\ ui.todo = <<"loaded">> /\ ui'.todo = <<"publish", "resend">>
<1> DEFINE own == store'[ui.next]
<1>1. ui \in UiType /\ now' = now + 1 /\ ui.next \in Patches
  BY DEF TypeInv, TypeOK, Loaded, LoadCanEnd
<1>2. ui' = [ui EXCEPT !.patch = ui.next, !.own = own, !.due = FALSE,
               !.mask = Resolved(own).mask, !.target = TargetOf(own, ui.global),
               !.depth = Resolved(own).depth, !.req = Resolved(own).depth, !.asked = now',
               !.todo = <<"publish", "resend">>, !.next = None]
  BY DEF Loaded
<1> HIDE DEF own
<1>3. /\ SameWheel /\ SameHands
      /\ ui'.patch = ui.next /\ ui'.own = own /\ ui'.global = ui.global /\ ~ui'.due
      /\ ui'.mask = Resolved(own).mask /\ ui'.target = TargetOf(own, ui.global)
      /\ ui'.depth = Resolved(own).depth /\ ui'.req = Resolved(own).depth /\ ui'.asked = now'
      /\ ui'.todo = <<"publish", "resend">>
  BY <1>1, <1>2 DEF UiType, SameWheel, SameHands
<1>4. own = store'[ui.next]
  BY DEF own
<1>5. QED
  BY <1>1, <1>3, <1>4 DEF Loaded

LEMMA FlipSays ==
  ASSUME TypeInv, FlipTarget
  PROVE  /\ SameDepth /\ SameWheel /\ SameHands /\ ScreenOnly /\ now' = now + 1
         /\ ui'.patch = ui.patch /\ ui.patch \in Routed /\ ui'.mask = ui.mask /\ ui'.global = ui.global
         /\ ui'.target \in Targets /\ OwnIs(ui'.target)
         /\ ui.todo = <<>> /\ ui'.todo = <<"publish">> /\ ui.held = "none"
<1> DEFINE u == [ui EXCEPT !.target = IF @ = "effect" THEN "patch_first" ELSE "effect"]
<1>1. /\ ui \in UiType /\ u \in UiType /\ u.depth = ui.depth /\ u.req = ui.req /\ u.asked = ui.asked
      /\ u.wheel = ui.wheel /\ u.known = ui.known /\ u.wreq = ui.wreq /\ u.set = ui.set
      /\ u.held = ui.held /\ u.unsent = ui.unsent /\ u.patch = ui.patch /\ u.mask = ui.mask
      /\ u.global = ui.global /\ u.target \in Targets
  BY DEF TypeInv, TypeOK, UiType, Targets
<1>2. ui' = [Changed(u) EXCEPT !.own.target = u.target, !.todo = <<"publish">>]
  BY DEF FlipTarget
<1> HIDE DEF u
<1>3. /\ SameDepth /\ SameWheel /\ SameHands /\ ui'.patch = ui.patch /\ ui'.mask = ui.mask
      /\ ui'.global = ui.global /\ ui'.target = u.target /\ ui'.todo = <<"publish">> /\ ui'.due
      /\ ui'.own = [mask |-> u.mask, depth |-> u.depth, target |-> u.target]
  BY <1>1, <1>2 DEF Changed, UiType, SameDepth, SameWheel, SameHands
<1>4. QED
  BY <1>1, <1>3 DEF FlipTarget, Touch, Idle, ScreenOnly, OwnIs, SameDepth

LEMMA DefaultSays ==
  ASSUME TypeInv, SetGlobalDefault
  PROVE  /\ SameDepth /\ SameWheel /\ SameHands /\ ScreenOnly /\ now' = now + 1
         /\ ui'.patch = ui.patch /\ ui.patch # None /\ ui'.own = ui.own /\ ui'.due = ui.due
         /\ ui'.mask = Resolved(ui.own).mask /\ ui'.target = TargetOf(ui.own, ui'.global)
         /\ ui.todo = <<>> /\ ui'.todo = <<"publish">> /\ ui.held = "none"
<1>1. ui \in UiType
  BY DEF TypeInv, TypeOK
<1>2. PICK target \in Targets :
        ui' = [ui EXCEPT !.global = target, !.mask = Resolved(ui.own).mask,
                         !.target = TargetOf(ui.own, target), !.todo = <<"publish">>]
  BY DEF SetGlobalDefault
<1>3. QED
  BY <1>1, <1>2 DEF SetGlobalDefault, Touch, Idle, UiType, SameDepth, SameWheel, SameHands, ScreenOnly

LEMMA ToggleSays ==
  ASSUME TypeInv, NEW e \in Effects, ToggleEffect(e)
  PROVE  /\ SameDepth /\ SameWheel /\ SameHands /\ ScreenOnly /\ now' = now + 1
         /\ ui'.patch = ui.patch /\ ui.patch # None
         /\ ui'.target = ui.target /\ ui'.global = ui.global /\ OwnIs(Resolved(ui.own).target)
         /\ ui.todo = <<>> /\ ui'.todo = <<"publish">> /\ ui.held = "none"
<1> DEFINE mask == IF e \in ui.mask THEN ui.mask \ {e} ELSE ui.mask \cup {e}
           u == [ui EXCEPT !.mask = mask]
<1>1. /\ ui \in UiType /\ u.depth = ui.depth /\ u.req = ui.req /\ u.asked = ui.asked
      /\ u.wheel = ui.wheel /\ u.known = ui.known /\ u.wreq = ui.wreq /\ u.set = ui.set
      /\ u.held = ui.held /\ u.unsent = ui.unsent /\ u.patch = ui.patch /\ u.target = ui.target
      /\ u.global = ui.global /\ u.own = ui.own
  BY DEF TypeInv, TypeOK, UiType
<1>2. ui' = [Changed(u) EXCEPT !.todo = <<"publish">>] /\ u \in UiType
  BY DEF ToggleEffect, TypeInv, TypeOK, UiType, Masks
<1> HIDE DEF u
<1>3. /\ SameDepth /\ SameWheel /\ SameHands /\ ui'.patch = ui.patch /\ ui'.mask = u.mask
      /\ ui'.target = ui.target
      /\ ui'.global = ui.global /\ ui'.todo = <<"publish">> /\ ui'.due
      /\ ui'.own = [mask |-> u.mask, depth |-> u.depth, target |-> Resolved(ui.own).target]
  BY <1>1, <1>2 DEF Changed, UiType, SameDepth, SameWheel, SameHands
<1>4. QED
  BY <1>1, <1>3 DEF ToggleEffect, Touch, Idle, ScreenOnly, OwnIs, SameDepth

LEMMA DepthSays ==
  ASSUME TypeInv, NEW v \in Travel, NEW final \in BOOLEAN, SetDepth(v, final)
  PROVE  /\ SameWheel /\ ScreenOnly /\ now' = now + 1
         /\ ui'.patch = ui.patch /\ ui'.mask = ui.mask /\ ui.mask # {}
         /\ ui'.target = ui.target /\ ui'.global = ui.global /\ OwnIs(Resolved(ui.own).target)
         /\ ui'.depth = v /\ ui'.req = v /\ ui'.asked = now + 1
         /\ ui.todo = <<>> /\ ui.held \in {"none", "effect"}
         /\ \/ ui'.todo = <<>> /\ ui'.held = "effect" /\ ui'.unsent
            \/ ui'.todo = <<"publish">> /\ ui'.held \in {"none", "effect"} /\ ~ui'.unsent
<1>1. PICK throttled \in {FALSE, ~final} :
        ui' = Changed([ui EXCEPT !.depth = v, !.req = v, !.asked = now',
                         !.held = IF final THEN "none" ELSE "effect", !.unsent = throttled,
                         !.todo = IF throttled THEN <<>> ELSE <<"publish">>])
  BY DEF SetDepth
<1> DEFINE u == [ui EXCEPT !.depth = v, !.req = v, !.asked = now',
                           !.held = IF final THEN "none" ELSE "effect", !.unsent = throttled,
                           !.todo = IF throttled THEN <<>> ELSE <<"publish">>]
<1>2. /\ ui \in UiType /\ u.depth = v /\ u.req = v /\ u.asked = now'
      /\ u.wheel = ui.wheel /\ u.known = ui.known /\ u.wreq = ui.wreq /\ u.set = ui.set
      /\ u.held = (IF final THEN "none" ELSE "effect") /\ u.unsent = throttled
      /\ u.patch = ui.patch /\ u.target = ui.target /\ u.mask = ui.mask
      /\ u.global = ui.global /\ u.own = ui.own /\ u.todo = (IF throttled THEN <<>> ELSE <<"publish">>)
  BY DEF TypeInv, TypeOK, UiType
<1>3. now' \in Time
  BY TimeGoesOn DEF SetDepth, Touch, Idle
<1>4. u \in UiType
  BY <1>3 DEF TypeInv, TypeOK, UiType, UiTodo
<1>5. ui' = Changed(u)
  BY <1>1
<1> HIDE DEF u
<1>6. /\ SameWheel /\ ui'.patch = ui.patch /\ ui'.mask = ui.mask /\ ui'.target = ui.target
      /\ ui'.global = ui.global /\ ui'.todo = u.todo /\ ui'.due /\ ui'.held = u.held
      /\ ui'.unsent = u.unsent /\ ui'.depth = v /\ ui'.req = v /\ ui'.asked = now'
      /\ ui'.own = [mask |-> ui.mask, depth |-> v, target |-> Resolved(ui.own).target]
  BY <1>2, <1>4, <1>5 DEF Changed, UiType, SameWheel
<1>7. QED
  BY <1>2, <1>6 DEF SetDepth, Touch, Idle, ScreenOnly, OwnIs

LEMMA PatchModSays ==
  ASSUME TypeInv, NEW v \in Travel, NEW final \in BOOLEAN, SetPatchMod(v, final)
  PROVE  /\ SameSetup /\ SameDepth /\ ScreenOnly /\ now' = now + 1
         /\ ui'.patch = ui.patch /\ ui.patch \in Routed /\ ui'.due = ui.due
         /\ ui'.wheel = v /\ ui'.known /\ ui'.wreq = v /\ ui'.set = now + 1
         /\ ui.todo = <<>> /\ ui.held \in {"none", "wheel"}
         /\ \/ ui'.todo = <<"send">> /\ ui'.held = "wheel" /\ ui'.unsent
            \/ ui'.todo = <<"publish", "send">> /\ ui'.held \in {"none", "wheel"} /\ ~ui'.unsent
<1>1. PICK throttled \in {FALSE, ~final} :
        ui' = [WheelSet(v, throttled, ui) EXCEPT !.held = IF final THEN "none" ELSE "wheel"]
  BY DEF SetPatchMod
<1>2. ui \in UiType
  BY DEF TypeInv, TypeOK
<1>3. /\ SameSetup /\ SameDepth /\ ui'.patch = ui.patch /\ ui'.due = ui.due
      /\ ui'.wheel = v /\ ui'.known /\ ui'.wreq = v /\ ui'.set = now'
      /\ ui'.held = (IF final THEN "none" ELSE "wheel") /\ ui'.unsent = throttled
      /\ ui'.todo = (IF throttled THEN <<"send">> ELSE <<"publish", "send">>)
  BY <1>1, <1>2 DEF WheelSet, UiType, SameSetup, SameDepth
<1>4. QED
  BY <1>3 DEF SetPatchMod, Touch, Idle, ScreenOnly

LEMMA ReleaseSays ==
  ASSUME TypeInv, Release
  PROVE  /\ SameSetup /\ SameDepth /\ SameWheel /\ ScreenOnly /\ now' = now
         /\ ui'.patch = ui.patch /\ ui'.due = ui.due /\ ui'.held = "none" /\ ~ui'.unsent
         /\ ui.todo = <<>> /\ ui'.todo = IF ui.unsent THEN <<"publish">> ELSE <<>>
BY DEF Release, TypeInv, TypeOK, UiType, SameSetup, SameDepth, SameWheel, ScreenOnly

LEMMA PublishSays ==
  ASSUME TypeInv, Publish
  PROVE  /\ SameSetup /\ SameDepth /\ SameWheel /\ SameHands
         /\ UNCHANGED <<store, router, levels, host, wheel, now>>
         /\ ui'.patch = ui.patch /\ ui'.due = ui.due
         /\ route'.cc1 = Destination(ui.target, ui.patch) /\ route'.mask = ui.mask
         /\ route'.req = ui.req /\ route'.asked = ui.asked /\ route'.wreq = ui.wreq
         /\ route'.set = ui.set /\ route'.patch = ui.patch /\ route'.unread
         /\ \/ ui.todo = <<"publish">> /\ ui'.todo = <<>>
            \/ ui.todo = <<"publish", "resend">> /\ ui'.todo = <<"resend">>
            \/ ui.todo = <<"publish", "send">> /\ ui'.todo = <<"send">>
<1>1. ui \in UiType /\ ui' = [ui EXCEPT !.todo = Tail(ui.todo)]
  BY DEF TypeInv, TypeOK, Publish
<1>2. /\ SameSetup /\ SameDepth /\ SameWheel /\ SameHands /\ ui'.patch = ui.patch /\ ui'.due = ui.due
      /\ ui'.todo = Tail(ui.todo)
  BY <1>1 DEF UiType, SameSetup, SameDepth, SameWheel, SameHands
<1>3. \/ ui.todo = <<"publish">> /\ ui'.todo = <<>>
      \/ ui.todo = <<"publish", "resend">> /\ ui'.todo = <<"resend">>
      \/ ui.todo = <<"publish", "send">> /\ ui'.todo = <<"send">>
  BY <1>1, <1>2, PublishFirst DEF UiType, Publish
<1>4. QED
  BY <1>2, <1>3 DEF Publish

LEMMA SendSays ==
  ASSUME TypeInv, Send
  PROVE  /\ SameSetup /\ SameDepth /\ SameWheel /\ SameHands
         /\ UNCHANGED <<store, route, router, levels, host, now>>
         /\ ui'.patch = ui.patch /\ ui'.due = ui.due /\ wheel' = ui.wheel
         /\ ui.todo = <<"send">> /\ ui'.todo = <<>>
BY DEF Send, TypeInv, TypeOK, UiType, SameSetup, SameDepth, SameWheel, SameHands

LEMMA ResendSays ==
  ASSUME TypeInv, Resend
  PROVE  /\ SameSetup /\ SameDepth /\ ui'.held = ui.held /\ ScreenOnly /\ now' = now
         /\ ui'.patch = ui.patch /\ ui'.due = ui.due /\ ui.todo = <<"resend">>
         /\ IF ui.known /\ ui.patch \in Routed
            THEN /\ ui'.wheel = ui.wheel /\ ui'.known /\ ui'.wreq = ui.wheel /\ ui'.set = now
                 /\ ui'.todo = <<"publish", "send">> /\ ~ui'.unsent
            ELSE SameWheel /\ ui'.todo = <<>> /\ ui'.unsent = ui.unsent
<1>1. ui \in UiType /\ now' = now
  BY DEF TypeInv, TypeOK, Resend
<1>2. CASE ui.known /\ ui.patch \in Routed
  <2>1. ui' = WheelSet(ui.wheel, FALSE, ui)
    BY <1>2 DEF Resend
  <2>2. QED
    BY <1>1, <1>2, <2>1 DEF Resend, WheelSet, UiType, SameSetup, SameDepth, SameHands, ScreenOnly
<1>3. CASE ~(ui.known /\ ui.patch \in Routed)
  <2>1. ui' = [ui EXCEPT !.todo = <<>>]
    BY <1>3 DEF Resend
  <2>2. QED
    BY <1>1, <1>3, <2>1 DEF Resend, UiType, SameSetup, SameDepth, SameWheel, SameHands, ScreenOnly
<1>4. QED
  BY <1>2, <1>3

\* What a poll takes from the levels file.
DepthTaken(said, v) == v.depth = said.depth /\ said.depth \in Travel /\ IsCurrent(said)

LEMMA FollowDepthSays ==
  ASSUME NEW said \in SaidType, NEW u \in UiType, NEW v, v = FollowDepth(said, u)
  PROVE  /\ v \in UiType /\ v.patch = u.patch /\ v.global = u.global /\ v.mask = u.mask
         /\ v.target = u.target /\ v.asked = u.asked /\ v.wheel = u.wheel /\ v.known = u.known
         /\ v.wreq = u.wreq /\ v.set = u.set /\ v.held = u.held /\ v.unsent = u.unsent /\ v.todo = u.todo
         /\ \/ v = u
            \/ v.depth = said.depth /\ IsCurrent(said) /\ said.source = "fader" /\ v.req = u.req
               /\ v.own = u.own /\ v.due = u.due
            \/ /\ v.depth = said.depth /\ IsCurrent(said) /\ said.source = "knob" /\ v.req = said.depth
               /\ v.own = [mask |-> u.mask, depth |-> said.depth, target |-> Resolved(u.own).target]
               /\ v.due
         /\ IsCurrent(said) /\ u.held # "effect" => v.depth = said.depth
<1>1. v \in UiType
  BY FollowTypes
<1>2. CASE u.held = "effect" \/ ~IsCurrent(said) \/ said.depth = u.depth
  <2>1. v = u
    BY <1>2 DEF FollowDepth
  <2>2. QED
    BY <1>1, <1>2, <2>1
<1>3. CASE ~(u.held = "effect" \/ ~IsCurrent(said) \/ said.depth = u.depth) /\ said.source = "fader"
  <2>1. v = [u EXCEPT !.depth = said.depth]
    BY <1>3 DEF FollowDepth
  <2>2. QED
    BY <1>1, <1>3, <2>1 DEF UiType
<1>4. CASE ~(u.held = "effect" \/ ~IsCurrent(said) \/ said.depth = u.depth) /\ said.source = "knob"
  <2>1. v = Changed([u EXCEPT !.depth = said.depth, !.req = said.depth])
    BY <1>4 DEF FollowDepth
  <2>2. QED
    BY <1>1, <1>4, <2>1 DEF UiType, Changed
<1>5. QED
  BY <1>2, <1>3, <1>4 DEF SaidType

LEMMA FollowPatchModSays ==
  ASSUME NEW said \in SaidType, NEW u \in UiType, NEW v, v = FollowPatchMod(said, u)
  PROVE  /\ v.patch = u.patch /\ v.global = u.global /\ v.mask = u.mask
         /\ v.target = u.target /\ v.asked = u.asked /\ v.depth = u.depth /\ v.req = u.req
         /\ v.own = u.own /\ v.due = u.due
         /\ v.wreq = u.wreq /\ v.set = u.set /\ v.held = u.held /\ v.unsent = u.unsent /\ v.todo = u.todo
         /\ \/ v.wheel = u.wheel /\ v.known = u.known
            \/ v.wheel = said.wheel /\ v.known /\ said.wheel # None /\ said.wheelAt > u.set
<1>1. CASE v = u
  BY <1>1
<1>2. CASE v = [u EXCEPT !.seen = said.wheelAt]
  BY <1>2 DEF UiType
<1>3. CASE /\ v = [u EXCEPT !.seen = said.wheelAt, !.known = TRUE, !.wheel = said.wheel]
           /\ said.wheel # None /\ said.wheelAt > u.set
  BY <1>3 DEF UiType
<1>4. said.wheelAt \in Nat /\ u.set \in Nat
  BY Constants DEF SaidType, UiType, Time, TypesConst
<1>5. \/ v = u
      \/ v = [u EXCEPT !.seen = said.wheelAt]
      \/ /\ v = [u EXCEPT !.seen = said.wheelAt, !.known = TRUE, !.wheel = said.wheel]
         /\ said.wheel # None /\ ~(said.wheelAt <= u.set)
  BY DEF FollowPatchMod
<1>6. ~(said.wheelAt <= u.set) => said.wheelAt > u.set
  BY <1>4
<1>7. QED
  BY <1>1, <1>2, <1>3, <1>5, <1>6

LEMMA PollSays ==
  ASSUME TypeInv, NEW due \in BOOLEAN, PollLevels(due)
  PROVE  /\ UNCHANGED <<route, router, host, wheel, now>> /\ ~levels'.unread /\ levels'.said = levels.said
         /\ ui'.patch = ui.patch /\ ui'.global = ui.global /\ ui'.mask = ui.mask /\ ui'.target = ui.target
         /\ ui'.asked = ui.asked /\ ui'.wreq = ui.wreq /\ ui'.set = ui.set /\ SameHands
         /\ ui.todo = <<>> /\ ui'.todo = <<>>
         /\ (due => ui.due) /\ store' = IF due THEN Saved ELSE store
         /\ \/ ui'.depth = ui.depth /\ ui'.req = ui.req /\ ui'.own = ui.own /\ ui'.due = (ui.due /\ ~due)
            \/ /\ levels.unread /\ ui'.depth = levels.said.depth /\ IsCurrent(levels.said)
               /\ levels.said.source = "fader" /\ ui'.req = ui.req
               /\ ui'.own = ui.own /\ ui'.due = (ui.due /\ ~due)
            \/ /\ levels.unread /\ ui'.depth = levels.said.depth /\ IsCurrent(levels.said)
               /\ levels.said.source = "knob" /\ ui'.req = levels.said.depth
               /\ OwnIs(Resolved(ui.own).target)
         /\ levels.unread /\ IsCurrent(levels.said) /\ ui.held # "effect" => ui'.depth = levels.said.depth
         /\ \/ ui'.wheel = ui.wheel /\ ui'.known = ui.known
            \/ /\ ui'.wheel = levels.said.wheel /\ ui'.known /\ levels.said.wheel # None
               /\ levels.said.wheelAt > ui.set
<1> DEFINE said == levels.said
           u == [ui EXCEPT !.due = @ /\ ~due]
           d == FollowDepth(said, u)
<1>1. /\ u \in UiType /\ said \in SaidType
      /\ u.patch = ui.patch /\ u.global = ui.global /\ u.mask = ui.mask /\ u.own = ui.own
      /\ u.target = ui.target /\ u.asked = ui.asked /\ u.wheel = ui.wheel /\ u.known = ui.known
      /\ u.wreq = ui.wreq /\ u.set = ui.set /\ u.held = ui.held /\ u.unsent = ui.unsent
      /\ u.todo = ui.todo /\ u.depth = ui.depth /\ u.req = ui.req /\ u.due = (ui.due /\ ~due)
  BY DEF TypeInv, TypeOK, UiType
<1>2. ui' = IF levels.unread THEN FollowPatchMod(said, d) ELSE u
  BY DEF PollLevels
<1>3. /\ UNCHANGED <<route, router, host, wheel, now>> /\ ~levels'.unread /\ levels'.said = levels.said
      /\ (due => ui.due) /\ store' = (IF due THEN Saved ELSE store) /\ ui.todo = <<>>
      /\ IsCurrent(said) = IsCurrent(levels.said)
  BY DEF PollLevels, TypeInv, TypeOK
<1> HIDE DEF u
<1>4. CASE ~levels.unread
  BY <1>1, <1>2, <1>3, <1>4 DEF SameHands
<1>5. CASE levels.unread
  <2>1. /\ d \in UiType /\ d.patch = u.patch /\ d.global = u.global /\ d.mask = u.mask
        /\ d.target = u.target /\ d.asked = u.asked /\ d.wheel = u.wheel /\ d.known = u.known
        /\ d.wreq = u.wreq /\ d.set = u.set /\ d.held = u.held /\ d.unsent = u.unsent /\ d.todo = u.todo
        /\ \/ d = u
           \/ d.depth = said.depth /\ IsCurrent(said) /\ said.source = "fader" /\ d.req = u.req
              /\ d.own = u.own /\ d.due = u.due
           \/ /\ d.depth = said.depth /\ IsCurrent(said) /\ said.source = "knob" /\ d.req = said.depth
              /\ d.own = [mask |-> u.mask, depth |-> said.depth, target |-> Resolved(u.own).target]
              /\ d.due
        /\ IsCurrent(said) /\ u.held # "effect" => d.depth = said.depth
    BY <1>1, FollowDepthSays
  <2> HIDE DEF d
  <2>2. ui' = FollowPatchMod(said, d)
    BY <1>2, <1>5
  <2>3. /\ ui'.patch = d.patch /\ ui'.global = d.global /\ ui'.mask = d.mask
        /\ ui'.target = d.target /\ ui'.asked = d.asked /\ ui'.depth = d.depth /\ ui'.req = d.req
        /\ ui'.own = d.own /\ ui'.due = d.due
        /\ ui'.wreq = d.wreq /\ ui'.set = d.set /\ ui'.held = d.held /\ ui'.unsent = d.unsent
        /\ ui'.todo = d.todo
        /\ \/ ui'.wheel = d.wheel /\ ui'.known = d.known
           \/ ui'.wheel = said.wheel /\ ui'.known /\ said.wheel # None /\ said.wheelAt > d.set
    BY <1>1, <2>1, <2>2, FollowPatchModSays
  <2>4. QED
    BY <1>1, <1>3, <1>5, <2>1, <2>3 DEF SameHands, OwnIs
<1>6. QED
  BY <1>4, <1>5

(* What each step of the remapper does. *)

KnobStill == router'.cc1 = router.cc1 /\ router'.mask = router.mask /\ router'.asked = router.asked
             /\ router'.set = router.set /\ router'.patch = router.patch
SaidDepthStill ==
  /\ router'.depth = router.depth /\ router'.said.depth = router.said.depth
  /\ router'.said.source = router.said.source /\ router'.said.request = router.said.request
  /\ router'.said.at = router.said.at /\ router'.said.patch = router.said.patch
SaidWheelStill ==
  /\ router'.ref = router.ref /\ router'.said.wheel = router.said.wheel
  /\ router'.said.wheelAt = router.said.wheelAt

LEMMA DepthSetSays ==
  ASSUME NEW r \in RouterType, NEW v, NEW source, NEW request, NEW s, s = DepthSet(v, source, request, r)
  PROVE  /\ s.cc1 = r.cc1 /\ s.mask = r.mask /\ s.asked = r.asked /\ s.set = r.set /\ s.ref = r.ref
         /\ s.anchor = r.anchor /\ s.patch = r.patch /\ s.depth = v /\ s.dirty
         /\ s.said.depth = v /\ s.said.source = source /\ s.said.request = request
         /\ s.said.at = (IF source = "knob" THEN now' ELSE 0) /\ s.said.patch = r.patch
         /\ s.said.wheel = r.said.wheel /\ s.said.wheelAt = r.said.wheelAt
<1> DEFINE said == [r.said EXCEPT !.depth = v, !.source = source, !.request = request,
                                  !.at = IF source = "knob" THEN now' ELSE 0, !.patch = r.patch]
<1>1. r.said \in SaidType
  BY DEF RouterType
<1>2. /\ said.depth = v /\ said.source = source /\ said.request = request
      /\ said.at = (IF source = "knob" THEN now' ELSE 0) /\ said.patch = r.patch
      /\ said.wheel = r.said.wheel /\ said.wheelAt = r.said.wheelAt
  BY <1>1 DEF SaidType
<1>3. s = [r EXCEPT !.depth = v, !.dirty = TRUE, !.said = said]
  BY <1>1 DEF DepthSet, RouterType, SaidType
<1> HIDE DEF said
<1>4. QED
  BY <1>2, <1>3 DEF RouterType

LEMMA KnobSays ==
  ASSUME TypeInv, NEW v \in Travel, Knob(v)
  PROVE  /\ UNCHANGED <<ui, store, route, levels>> /\ now' = now + 1 /\ now < MaxMoves
         /\ KnobStill /\ router'.anchor = v /\ v # router.anchor
         /\ ui.held = Driven => "held" \in Trouble
         /\ ui.todo \notin {<<>>, <<"loaded">>, <<"resend">>} => "overtake" \in Trouble
         /\ \/ UNCHANGED <<wheel, host>> /\ SaidDepthStill /\ SaidWheelStill
               /\ router'.dirty = router.dirty /\ router'.said = router.said
            \/ /\ router.cc1 = "surge" /\ host' = host /\ SaidDepthStill
               /\ wheel' = Follow(v, router.ref) /\ wheel' \in Travel
               /\ router'.ref = wheel' /\ router'.dirty
               /\ router'.said.wheel = wheel' /\ router'.said.wheelAt = now + 1
            \/ /\ router.cc1 = "fx" /\ wheel' = wheel /\ SaidWheelStill
               /\ router.mask # {} /\ router'.depth = Follow(v, router.depth) /\ router'.depth \in Travel
               /\ router'.dirty /\ router'.said.depth = router'.depth /\ router'.said.source = "knob"
               /\ router'.said.request = 0 /\ router'.said.at = now + 1
               /\ router'.said.patch = router.patch
               /\ host' = [mask |-> router.mask, depth |-> router'.depth]
<1> DEFINE r == [router EXCEPT !.anchor = v]
<1>1. /\ TypeOK /\ router \in RouterType /\ router.said \in SaidType /\ now' = now + 1
      /\ UNCHANGED <<ui, store, route, levels>> /\ now < MaxMoves /\ v # router.anchor
      /\ (ui.held = Driven => "held" \in Trouble)
      /\ (ui.todo \notin {<<>>, <<"loaded">>, <<"resend">>} => "overtake" \in Trouble)
  BY DEF TypeInv, TypeOK, RouterType, Knob
<1>2. /\ r \in RouterType /\ r.cc1 = router.cc1 /\ r.mask = router.mask /\ r.depth = router.depth
      /\ r.asked = router.asked /\ r.set = router.set /\ r.ref = router.ref /\ r.anchor = v
      /\ r.said = router.said /\ r.dirty = router.dirty /\ r.patch = router.patch
  BY <1>1 DEF RouterType
<1>3. CASE KnobToSurge(v)
  <2> DEFINE level == Follow(v, router.ref)
  <2>1. level \in Travel \cup {None}
    BY <1>1, FollowValue DEF RouterType
  <2>2. /\ IF level = None THEN router' = r /\ wheel' = wheel
         ELSE /\ wheel' = level
              /\ router' = [r EXCEPT !.ref = level, !.dirty = TRUE,
                                     !.said.wheel = level, !.said.wheelAt = now']
        /\ host' = host /\ router.cc1 = "surge"
    BY <1>3 DEF KnobToSurge
  <2> HIDE DEF r
  <2>3. CASE level = None
    BY <1>1, <1>2, <2>2, <2>3 DEF KnobStill, SaidDepthStill, SaidWheelStill
  <2>4. CASE level # None
    <3> DEFINE said == [r.said EXCEPT !.wheel = level, !.wheelAt = now']
    <3>1. /\ said.depth = router.said.depth /\ said.source = router.said.source
          /\ said.request = router.said.request /\ said.at = router.said.at
          /\ said.patch = router.said.patch /\ said.wheel = level /\ said.wheelAt = now'
      BY <1>1, <1>2 DEF SaidType
    <3>2. router' = [r EXCEPT !.ref = level, !.dirty = TRUE, !.said = said]
      BY <1>1, <1>2, <2>2, <2>4 DEF RouterType, SaidType
    <3> HIDE DEF said
    <3>3. /\ KnobStill /\ router'.anchor = v /\ SaidDepthStill /\ router'.ref = level /\ router'.dirty
          /\ router'.said.wheel = level /\ router'.said.wheelAt = now'
      BY <1>1, <1>2, <3>1, <3>2 DEF KnobStill, SaidDepthStill, RouterType
    <3>4. QED
      BY <1>1, <2>1, <2>2, <2>4, <3>3
  <2>5. QED
    BY <2>3, <2>4
<1>4. CASE KnobToEffects(v)
  <2> DEFINE level == Follow(v, router.depth)
  <2>1. level \in Travel \cup {None}
    BY <1>1, FollowValue DEF RouterType
  <2>2. /\ IF router.mask = {} \/ level \in {None, router.depth}
           THEN router' = r /\ host' = host
           ELSE /\ router' = DepthSet(level, "knob", 0, r)
                /\ host' = [mask |-> router.mask, depth |-> level]
        /\ wheel' = wheel /\ router.cc1 = "fx"
    BY <1>4 DEF KnobToEffects
  <2> HIDE DEF r
  <2>3. CASE router.mask = {} \/ level \in {None, router.depth}
    BY <1>1, <1>2, <2>2, <2>3 DEF KnobStill, SaidDepthStill, SaidWheelStill
  <2>4. CASE ~(router.mask = {} \/ level \in {None, router.depth})
    <3>1. /\ KnobStill /\ router'.anchor = v /\ SaidWheelStill /\ router'.depth = level /\ router'.dirty
          /\ router'.said.depth = level /\ router'.said.source = "knob" /\ router'.said.request = 0
          /\ router'.said.at = now' /\ router'.said.patch = router.patch
      BY <1>1, <1>2, <2>2, <2>4, DepthSetSays DEF KnobStill, SaidWheelStill
    <3>2. QED
      BY <1>1, <2>1, <2>2, <2>4, <3>1
  <2>5. QED
    BY <2>3, <2>4
<1>5. QED
  BY <1>3, <1>4 DEF Knob

\* The remapper's reading of the route file, field by field.
LEMMA RouteReadSays ==
  ASSUME TypeOK, now' \in Time, NEW r \in RouterType, NEW s, s = RouteRead(r)
  PROVE  /\ s \in RouterType /\ s.cc1 = route.cc1 /\ s.mask = route.mask /\ s.patch = route.patch
         /\ s.anchor = r.anchor
         /\ s.said.wheel = r.said.wheel /\ s.said.wheelAt = r.said.wheelAt
         /\ IF route.set \in {0, r.set} THEN s.set = r.set /\ s.ref = r.ref
            ELSE /\ s.set = route.set
                 /\ s.ref = IF r.said.wheel # None /\ route.set < r.said.wheelAt THEN r.ref ELSE route.wreq
         /\ IF route.asked \in {0, r.asked}
            THEN s.asked = r.asked /\ s.depth = r.depth /\ s.said = r.said /\ s.dirty = r.dirty
            ELSE /\ s.asked = route.asked /\ s.depth = route.req /\ s.dirty
                 /\ s.said.depth = route.req /\ s.said.source = "fader" /\ s.said.request = route.asked
                 /\ s.said.at = 0 /\ s.said.patch = route.patch
<1> DEFINE q == [r EXCEPT !.cc1 = route.cc1, !.mask = route.mask, !.patch = route.patch]
           w == WheelRead(q)
<1>1. route \in RouteType /\ s \in RouterType
  BY RouteReadType DEF TypeOK
<1>2. /\ q \in RouterType /\ q.cc1 = route.cc1 /\ q.mask = route.mask /\ q.patch = route.patch
      /\ q.anchor = r.anchor /\ q.said = r.said /\ q.set = r.set /\ q.ref = r.ref /\ q.asked = r.asked
      /\ q.depth = r.depth /\ q.dirty = r.dirty
  BY <1>1 DEF RouterType, RouteType
<1> HIDE DEF q
<1>3. /\ w \in RouterType /\ w.cc1 = route.cc1 /\ w.mask = route.mask /\ w.patch = route.patch
      /\ w.anchor = r.anchor /\ w.said = r.said /\ w.asked = r.asked
      /\ w.depth = r.depth /\ w.dirty = r.dirty
      /\ IF route.set \in {0, r.set} THEN w.set = r.set /\ w.ref = r.ref
         ELSE /\ w.set = route.set
              /\ w.ref = IF r.said.wheel # None /\ route.set < r.said.wheelAt THEN r.ref ELSE route.wreq
  BY <1>1, <1>2 DEF WheelRead, RouterType, RouteType
<1>4. s = DepthRead(w)
  BY DEF RouteRead, q
<1> HIDE DEF w
<1>5. CASE route.asked \in {0, r.asked}
  <2>1. s = w
    BY <1>3, <1>4, <1>5 DEF DepthRead
  <2>2. QED
    BY <1>1, <1>3, <1>5, <2>1
<1>6. CASE route.asked \notin {0, r.asked}
  <2> DEFINE x == [w EXCEPT !.asked = route.asked]
  <2>1. /\ x \in RouterType /\ x.cc1 = w.cc1 /\ x.mask = w.mask /\ x.patch = w.patch
        /\ x.anchor = w.anchor /\ x.said = w.said /\ x.asked = route.asked /\ x.set = w.set /\ x.ref = w.ref
        /\ w.said \in SaidType
    BY <1>1, <1>3 DEF RouterType, RouteType
  <2>2. s = DepthSet(route.req, "fader", route.asked, x)
    BY <1>3, <1>4, <1>6 DEF DepthRead
  <2> HIDE DEF x
  <2>3. /\ s.cc1 = x.cc1 /\ s.mask = x.mask /\ s.patch = x.patch /\ s.anchor = x.anchor
        /\ s.set = x.set /\ s.ref = x.ref /\ s.asked = x.asked /\ s.depth = route.req /\ s.dirty
        /\ s.said.wheel = x.said.wheel /\ s.said.wheelAt = x.said.wheelAt
        /\ s.said.depth = route.req /\ s.said.source = "fader" /\ s.said.request = route.asked
        /\ s.said.at = 0 /\ s.said.patch = x.patch
    BY <2>1, <2>2, DepthSetSays
  <2>4. QED
    BY <1>1, <1>3, <1>6, <2>1, <2>3
<1>7. QED
  BY <1>5, <1>6

\* Where a refresh starts from: the router as it was, or a fresh one.
LEMMA RefreshedSays ==
  ASSUME TypeInv, NEW r \in RouterType, NEW new \in BOOLEAN, Refreshed(r, new), now' = now
  PROVE  /\ router'.cc1 = (IF new THEN route.cc1 ELSE r.cc1)
         /\ router'.mask = (IF new THEN route.mask ELSE r.mask)
         /\ router'.patch = (IF new THEN route.patch ELSE r.patch)
         /\ router'.anchor = r.anchor
         /\ router'.said.wheel = r.said.wheel /\ router'.said.wheelAt = r.said.wheelAt
         /\ IF ~new \/ route.set \in {0, r.set} THEN router'.set = r.set /\ router'.ref = r.ref
            ELSE /\ router'.set = route.set
                 /\ router'.ref = IF r.said.wheel # None /\ route.set < r.said.wheelAt THEN r.ref
                                  ELSE route.wreq
         /\ IF ~new \/ route.asked \in {0, r.asked}
            THEN /\ router'.asked = r.asked /\ router'.depth = r.depth /\ router'.said = r.said
                 /\ levels' = IF r.dirty THEN [said |-> router'.said, unread |-> TRUE] ELSE levels
            ELSE /\ router'.asked = route.asked /\ router'.depth = route.req
                 /\ router'.said.depth = route.req /\ router'.said.source = "fader"
                 /\ router'.said.request = route.asked
                 /\ router'.said.at = 0 /\ router'.said.patch = route.patch
                 /\ levels' = [said |-> router'.said, unread |-> TRUE]
         /\ ~router'.dirty
         /\ host' = IF router'.depth # None /\ (router'.asked # r.asked \/ router'.mask # r.mask)
                    THEN [mask |-> router'.mask, depth |-> router'.depth] ELSE host
         /\ ~route'.unread /\ route'.cc1 = route.cc1 /\ route'.mask = route.mask /\ route'.req = route.req
         /\ route'.asked = route.asked /\ route'.wreq = route.wreq /\ route'.set = route.set
         /\ route'.patch = route.patch
<1> DEFINE s == IF new THEN RouteRead(r) ELSE r
<1>1. TypeOK /\ route \in RouteType /\ now' \in Time
  BY DEF TypeInv, TypeOK
<1>2. /\ router' = [s EXCEPT !.dirty = FALSE]
      /\ levels' = (IF s.dirty THEN [said |-> s.said, unread |-> TRUE] ELSE levels)
      /\ host' = (IF s.depth # None /\ (s.asked # r.asked \/ s.mask # r.mask)
                 THEN [mask |-> s.mask, depth |-> s.depth] ELSE host)
      /\ route' = [route EXCEPT !.unread = FALSE]
  BY DEF Refreshed
<1>3. new => s = RouteRead(r)
  OBVIOUS
<1>4. ~new => s = r
  OBVIOUS
<1>5. s \in RouterType
  BY <1>1, <1>3, <1>4, RouteReadType
<1> HIDE DEF s
<1>6. /\ router'.cc1 = s.cc1 /\ router'.mask = s.mask /\ router'.patch = s.patch
      /\ router'.anchor = s.anchor /\ router'.said = s.said /\ router'.set = s.set /\ router'.ref = s.ref
      /\ router'.asked = s.asked /\ router'.depth = s.depth /\ ~router'.dirty
      /\ s.dirty \in BOOLEAN
  BY <1>2, <1>5 DEF RouterType
<1>7. /\ ~route'.unread /\ route'.cc1 = route.cc1 /\ route'.mask = route.mask /\ route'.req = route.req
      /\ route'.asked = route.asked /\ route'.wreq = route.wreq /\ route'.set = route.set
      /\ route'.patch = route.patch
  BY <1>1, <1>2 DEF RouteType
<1>8. CASE ~new
  BY <1>2, <1>4, <1>6, <1>7, <1>8
<1>9. CASE new
  <2>1. /\ s.cc1 = route.cc1 /\ s.mask = route.mask /\ s.patch = route.patch /\ s.anchor = r.anchor
        /\ s.said.wheel = r.said.wheel /\ s.said.wheelAt = r.said.wheelAt
        /\ IF route.set \in {0, r.set} THEN s.set = r.set /\ s.ref = r.ref
           ELSE /\ s.set = route.set
                /\ s.ref = IF r.said.wheel # None /\ route.set < r.said.wheelAt THEN r.ref ELSE route.wreq
        /\ IF route.asked \in {0, r.asked}
           THEN s.asked = r.asked /\ s.depth = r.depth /\ s.said = r.said /\ s.dirty = r.dirty
           ELSE /\ s.asked = route.asked /\ s.depth = route.req /\ s.dirty
                /\ s.said.depth = route.req /\ s.said.source = "fader" /\ s.said.request = route.asked
                /\ s.said.at = 0 /\ s.said.patch = route.patch
    BY <1>1, <1>3, <1>9, RouteReadSays
  <2>2. QED
    BY <1>2, <1>6, <1>7, <1>9, <2>1
<1>10. QED
  BY <1>8, <1>9

-----------------------------------------------------------------------------
(* A report of the knob's is of the patch it was made on.                  *)

\* The knob keeps still between a touch and what the touch has to publish.
KnobWaits == "overtake" \notin Trouble

\* The remapper has read what the file says, the file says what the screen asked.
StampsInOrder ==
  /\ router.asked <= route.asked /\ route.asked <= ui.asked /\ ui.asked <= now
  /\ router.set <= route.set /\ route.set <= ui.set /\ ui.set <= now
  /\ router.said.at <= now /\ levels.said.at <= now /\ router.said.wheelAt <= now
  /\ ToResend(ui.todo) => ui.set < now

RouteIsRead ==
  /\ ~route.unread => /\ router.asked = route.asked /\ router.set = route.set
                      /\ router.mask = route.mask /\ router.cc1 = route.cc1
  /\ router.asked = route.asked => router.patch = route.patch

RouteIsOfPatch ==
  /\ route.asked = ui.asked => route.patch = ui.patch
  /\ ~ToPublish(ui.todo) => /\ route.patch = ui.patch /\ route.mask = ui.mask
                            /\ route.cc1 = Destination(ui.target, ui.patch)

\* A report the screen would take up, or will yet be given.
KnobOfPatch ==
  /\ router.said.source = "knob" /\ router.said.at > ui.asked /\ router.asked = route.asked
       => router.said.patch = ui.patch
  /\ levels.said.source = "knob" /\ levels.said.at > ui.asked => levels.said.patch = ui.patch

PatchInv == StampsInOrder /\ RouteIsRead /\ RouteIsOfPatch /\ KnobOfPatch

Stamps ==
  /\ now \in Nat /\ ui.asked \in Nat /\ ui.set \in Nat /\ route.asked \in Nat /\ route.set \in Nat
  /\ router.asked \in Nat /\ router.set \in Nat
  /\ router.said.at \in Nat /\ router.said.wheelAt \in Nat
  /\ levels.said.at \in Nat /\ levels.said.wheelAt \in Nat

LEMMA StampsAreTimes == TypeOK => Stamps
BY Constants DEF TypesConst, Time, TypeOK, UiType, RouteType, RouterType, SaidType, Stamps

\* A step of the screen that leaves the files and the router alone.
ScreenStep ==
  /\ UNCHANGED <<route, router, levels>> /\ now' \in {now, now + 1}
  /\ \/ ui'.asked = ui.asked /\ ui'.patch = ui.patch
     \/ ui'.asked = now + 1 /\ now' = now + 1
  /\ ui'.set = ui.set \/ (ui'.set = now' /\ (now' = now + 1 \/ ToResend(ui.todo)))
  /\ ToResend(ui'.todo) => ui'.set < now'
  /\ \/ ToPublish(ui'.todo)
     \/ /\ ~ToPublish(ui.todo) /\ ui'.patch = ui.patch /\ ui'.mask = ui.mask
        /\ ui'.target = ui.target

LEMMA PatchInvOfScreen ==
  ASSUME Stamps, PatchInv, ScreenStep
  PROVE  PatchInv'
<1>1. StampsInOrder'
  BY DEF PatchInv, StampsInOrder, Stamps, ScreenStep
<1>2. RouteIsRead'
  BY DEF PatchInv, RouteIsRead, ScreenStep
<1>3. RouteIsOfPatch'
  BY DEF PatchInv, RouteIsOfPatch, StampsInOrder, Stamps, ScreenStep
<1>4. KnobOfPatch'
  BY DEF PatchInv, KnobOfPatch, StampsInOrder, Stamps, ScreenStep
<1>5. QED
  BY <1>1, <1>2, <1>3, <1>4 DEF PatchInv

LEMMA PatchInvOfPublish ==
  ASSUME TypeInv, PatchInv, Publish
  PROVE  PatchInv'
<1>1. Stamps /\ TodoFacts
  BY Todos, StampsAreTimes DEF TypeInv
<1>2. /\ SameSetup /\ SameDepth /\ SameWheel
      /\ UNCHANGED <<router, levels, now>> /\ ui'.patch = ui.patch
      /\ route'.cc1 = Destination(ui.target, ui.patch) /\ route'.mask = ui.mask
      /\ route'.asked = ui.asked /\ route'.set = ui.set /\ route'.patch = ui.patch /\ route'.unread
      /\ \/ ui.todo = <<"publish">> /\ ui'.todo = <<>>
         \/ ui.todo = <<"publish", "resend">> /\ ui'.todo = <<"resend">>
         \/ ui.todo = <<"publish", "send">> /\ ui'.todo = <<"send">>
  BY PublishSays
<1>a. ToResend(ui'.todo) => ToResend(ui.todo)
  BY <1>1, <1>2 DEF TodoFacts
<1>3. StampsInOrder'
  BY <1>1, <1>2, <1>a DEF PatchInv, StampsInOrder, Stamps, SameDepth, SameWheel
<1>4. RouteIsRead'
  BY <1>1, <1>2 DEF PatchInv, RouteIsRead, RouteIsOfPatch, StampsInOrder, Stamps
<1>5. RouteIsOfPatch'
  BY <1>2 DEF RouteIsOfPatch, SameSetup
<1>6. KnobOfPatch'
  BY <1>1, <1>2 DEF PatchInv, KnobOfPatch, StampsInOrder, Stamps, SameDepth
<1>7. QED
  BY <1>3, <1>4, <1>5, <1>6 DEF PatchInv

LEMMA PatchInvOfKnob ==
  ASSUME TypeInv, PatchInv, KnobWaits, NEW v \in Travel, Knob(v)
  PROVE  PatchInv'
<1>1. Stamps /\ TodoFacts
  BY Todos, StampsAreTimes DEF TypeInv
<1>2. /\ UNCHANGED <<ui, route, levels>> /\ now' = now + 1 /\ KnobStill
      /\ ~ToPublish(ui.todo)
      /\ \/ SaidDepthStill /\ (SaidWheelStill \/ router'.said.wheelAt = now + 1)
         \/ /\ router'.said.source = "knob" /\ SaidWheelStill
            /\ router'.said.at = now + 1 /\ router'.said.patch = router.patch
  BY <1>1, KnobSays DEF TodoFacts, KnobWaits
<1>3. StampsInOrder'
  BY <1>1, <1>2 DEF PatchInv, StampsInOrder, Stamps, SaidDepthStill, SaidWheelStill, KnobStill
<1>4. RouteIsRead' /\ RouteIsOfPatch'
  BY <1>2 DEF PatchInv, RouteIsRead, RouteIsOfPatch, KnobStill
<1>5. KnobOfPatch'
  BY <1>1, <1>2 DEF PatchInv, KnobOfPatch, RouteIsRead, RouteIsOfPatch, KnobStill, SaidDepthStill
<1>6. QED
  BY <1>3, <1>4, <1>5 DEF PatchInv

\* A refresh of the router as it is, of the file's news or not, or of a fresh one.
LEMMA PatchInvOfRefreshed ==
  ASSUME TypeInv, PatchInv, NEW r \in {router, Fresh}, NEW new \in BOOLEAN, Refreshed(r, new),
         (r = router /\ new = route.unread) \/ (r = Fresh /\ new),
         UNCHANGED <<ui, now>>
  PROVE  PatchInv'
<1>1. Stamps /\ r \in RouterType
  BY StampsAreTimes, FreshType DEF TypeInv, TypeOK
<1>2. /\ r.asked \in Nat /\ r.set \in Nat /\ r.said.at \in Nat /\ r.said.wheelAt \in Nat
      /\ r.asked <= route.asked /\ r.set <= route.set /\ r.said.at <= now /\ r.said.wheelAt <= now
      /\ r = Fresh => r.asked = 0 /\ r.set = 0 /\ r.said.source = "fader"
  BY <1>1 DEF PatchInv, StampsInOrder, Stamps, Fresh, Silent
<1>3. /\ router'.cc1 = (IF new THEN route.cc1 ELSE r.cc1)
      /\ router'.mask = (IF new THEN route.mask ELSE r.mask)
      /\ router'.patch = (IF new THEN route.patch ELSE r.patch)
      /\ router'.said.wheelAt = r.said.wheelAt
      /\ router'.set = (IF new THEN route.set ELSE r.set)
      /\ router'.asked = (IF new THEN route.asked ELSE r.asked)
      /\ \/ router'.said = r.said /\ (levels'.said = router'.said \/ levels' = levels)
            /\ (~new \/ r.asked = route.asked)
         \/ router'.said.source = "fader" /\ router'.said.at = 0 /\ levels'.said = router'.said
      /\ ~route'.unread /\ route'.cc1 = route.cc1 /\ route'.mask = route.mask
      /\ route'.asked = route.asked /\ route'.set = route.set /\ route'.patch = route.patch
  <2>1. TypeInv /\ now' = now
    OBVIOUS
  <2>2. QED
    BY <1>1, <1>2, <2>1, RefreshedSays DEF Stamps
<1>4. StampsInOrder'
  BY <1>1, <1>2, <1>3 DEF PatchInv, StampsInOrder, Stamps
<1>5. RouteIsRead'
  BY <1>1, <1>2, <1>3 DEF PatchInv, RouteIsRead, StampsInOrder, Stamps
<1>6. RouteIsOfPatch'
  BY <1>3 DEF PatchInv, RouteIsOfPatch
<1>7. KnobOfPatch'
  BY <1>1, <1>2, <1>3 DEF PatchInv, KnobOfPatch, RouteIsRead, StampsInOrder, Stamps
<1>8. QED
  BY <1>4, <1>5, <1>6, <1>7 DEF PatchInv

LEMMA PatchInvKeeps == TypeInv /\ KnobWaits /\ PatchInv /\ [Next]_vars => PatchInv'
<1> SUFFICES ASSUME TypeInv, KnobWaits, PatchInv, [Next]_vars PROVE PatchInv'
  OBVIOUS
<1>1. Stamps /\ TodoFacts /\ Stops \subseteq Travel /\ 0 \in Travel
  BY Todos, StampsAreTimes, Constants DEF TypeInv, TypesConst
<1>2. now + 1 \in Nat /\ now + 1 > now /\ ui.set < now + 1 /\ ui.set <= now
  BY <1>1 DEF Stamps, PatchInv, StampsInOrder
<1>3. ASSUME NEW p \in Patches, LoadPatch(p) PROVE PatchInv'
  <2>1. ScreenStep
    BY <1>1, <1>2, <1>3, LoadSays DEF ScreenStep, TodoFacts, SameSetup, SameDepth, SameWheel
  <2>2. QED
    BY <1>1, <2>1, PatchInvOfScreen
<1>4. CASE FlipTarget
  <2>1. ScreenStep
    BY <1>1, <1>2, <1>4, FlipSays DEF ScreenStep, TodoFacts, ScreenOnly, SameDepth, SameWheel
  <2>2. QED
    BY <1>1, <2>1, PatchInvOfScreen
<1>5. CASE SetGlobalDefault
  <2>1. ScreenStep
    BY <1>1, <1>2, <1>5, DefaultSays DEF ScreenStep, TodoFacts, ScreenOnly, SameDepth, SameWheel
  <2>2. QED
    BY <1>1, <2>1, PatchInvOfScreen
<1>6. ASSUME NEW e \in Effects, ToggleEffect(e) PROVE PatchInv'
  <2>1. ScreenStep
    BY <1>1, <1>2, <1>6, ToggleSays DEF ScreenStep, TodoFacts, ScreenOnly, SameDepth, SameWheel
  <2>2. QED
    BY <1>1, <2>1, PatchInvOfScreen
<1>7. ASSUME NEW v \in Travel, NEW final \in BOOLEAN, SetDepth(v, final) PROVE PatchInv'
  <2>1. ScreenStep
    BY <1>1, <1>2, <1>7, DepthSays DEF ScreenStep, TodoFacts, ScreenOnly, SameWheel
  <2>2. QED
    BY <1>1, <2>1, PatchInvOfScreen
<1>8. ASSUME NEW v \in Travel, NEW final \in BOOLEAN, SetPatchMod(v, final) PROVE PatchInv'
  <2>1. ScreenStep
    BY <1>1, <1>2, <1>8, PatchModSays DEF ScreenStep, TodoFacts, ScreenOnly, SameSetup, SameDepth
  <2>2. QED
    BY <1>1, <2>1, PatchInvOfScreen
<1>9. CASE Release
  <2>1. ScreenStep
    BY <1>1, <1>2, <1>9, ReleaseSays DEF ScreenStep, TodoFacts, ScreenOnly, SameSetup, SameDepth, SameWheel
  <2>2. QED
    BY <1>1, <2>1, PatchInvOfScreen
<1>10. CASE Loaded
  <2>1. ScreenStep
    BY <1>1, <1>2, <1>10, LoadedSays DEF ScreenStep, TodoFacts, SameWheel
  <2>2. QED
    BY <1>1, <2>1, PatchInvOfScreen
<1>11. CASE Publish
  BY <1>11, PatchInvOfPublish
<1>12. CASE Send
  <2>1. ScreenStep
    BY <1>1, <1>2, <1>12, SendSays DEF ScreenStep, TodoFacts, SameSetup, SameDepth, SameWheel
  <2>2. QED
    BY <1>1, <2>1, PatchInvOfScreen
<1>13. CASE Resend
  <2>1. ScreenStep
    BY <1>1, <1>2, <1>13, ResendSays DEF ScreenStep, TodoFacts, ScreenOnly, SameSetup, SameDepth, SameWheel
  <2>2. QED
    BY <1>1, <2>1, PatchInvOfScreen
<1>14. ASSUME NEW due \in BOOLEAN, PollLevels(due) PROVE PatchInv'
  <2>1. /\ UNCHANGED <<route, router, now>> /\ levels'.said = levels.said
        /\ ui'.patch = ui.patch /\ ui'.mask = ui.mask /\ ui'.target = ui.target
        /\ ui'.asked = ui.asked /\ ui'.set = ui.set /\ ui.todo = ui'.todo
    BY <1>14, PollSays
  <2>2. QED
    BY <2>1 DEF PatchInv, StampsInOrder, RouteIsRead, RouteIsOfPatch, KnobOfPatch
<1>15. ASSUME NEW v \in Travel, Knob(v) PROVE PatchInv'
  BY <1>15, PatchInvOfKnob
<1>16. CASE Refresh
  <2>1. Refreshed(router, route.unread) /\ UNCHANGED <<ui, now>> /\ route.unread \in BOOLEAN
    BY <1>16 DEF Refresh, TypeInv, TypeOK, RouteType
  <2>2. QED
    BY <2>1, PatchInvOfRefreshed
<1>17. CASE Restart
  BY <1>17, PatchInvOfRefreshed DEF Restart
<1>18. CASE UNCHANGED vars
  BY <1>18 DEF vars, PatchInv, StampsInOrder, RouteIsRead, RouteIsOfPatch, KnobOfPatch
<1>19. QED
  BY <1>1, <1>3, <1>4, <1>5, <1>6, <1>7, <1>8, <1>9, <1>10, <1>11, <1>12, <1>13, <1>14, <1>15,
     <1>16, <1>17, <1>18 DEF Next, Screen, Busy, Poll

LEMMA PatchInvInit == Init => PatchInv
<1> SUFFICES ASSUME Init PROVE PatchInv
  OBVIOUS
<1>1. /\ ui.todo = <<>> /\ ui.asked = 0 /\ ui.set = 0 /\ ui.patch = None /\ ui.mask = {}
      /\ route.asked = 0 /\ route.set = 0 /\ route.patch = None /\ route.mask = {}
      /\ route.cc1 = "surge" /\ now = 0 /\ levels.said = Silent /\ router = Fresh
      /\ Destination(ui.target, ui.patch) = "surge"
  BY Constants DEF Init, Destination, TypesConst
<1>2. /\ router.asked = 0 /\ router.set = 0 /\ router.mask = {} /\ router.cc1 = "surge"
      /\ router.patch = None /\ router.said = Silent
      /\ Silent.at = 0 /\ Silent.wheelAt = 0 /\ Silent.source = "fader"
  BY <1>1 DEF Fresh, Silent
<1>3. QED
  BY <1>1, <1>2, Todos DEF PatchInv, StampsInOrder, RouteIsRead, RouteIsOfPatch, KnobOfPatch, TodoFacts

LEMMA ReportsOfPatch == ASSUME KnobWaits PROVE Spec => [](TypeInv /\ PatchInv)
<1>1. TypeInv /\ PatchInv /\ [Next]_vars => (TypeInv /\ PatchInv)'
  BY TypeInvKeeps, PatchInvKeeps
<1>2. Init => TypeInv /\ PatchInv
  BY TypeInit, PatchInvInit
<1>3. QED
  BY <1>1, <1>2, PTL DEF Spec

\* As long as the knob keeps still between a touch and its publication, a depth the
\* knob made on one patch never becomes another patch's own.
THEOREM KnobsPatch == ASSUME KnobWaits PROVE Spec => KnobStaysWithPatch
<1> DEFINE Stays == ui'.req # ui.req /\ ui'.asked = ui.asked => levels.said.patch = ui.patch
<1>1. ASSUME TypeInv, PatchInv, [Next]_vars PROVE Stays
  <2>1. Stamps /\ Stops \subseteq Travel /\ 0 \in Travel /\ ui.asked < now + 1
    BY <1>1, StampsAreTimes, Constants DEF TypeInv, TypesConst, Stamps, PatchInv, StampsInOrder
  <2>2. ASSUME NEW p \in Patches, LoadPatch(p) PROVE Stays
    BY <1>1, <2>2, LoadSays DEF SameDepth
  <2>3. CASE FlipTarget
    BY <1>1, <2>3, FlipSays DEF SameDepth
  <2>4. CASE SetGlobalDefault
    BY <1>1, <2>4, DefaultSays DEF SameDepth
  <2>5. ASSUME NEW e \in Effects, ToggleEffect(e) PROVE Stays
    BY <1>1, <2>5, ToggleSays DEF SameDepth
  <2>6. ASSUME NEW v \in Travel, NEW final \in BOOLEAN, SetDepth(v, final) PROVE Stays
    <3>1. ui'.asked = now + 1
      BY <1>1, <2>6, DepthSays
    <3>2. QED
      BY <2>1, <3>1 DEF Stamps
  <2>7. ASSUME NEW v \in Travel, NEW final \in BOOLEAN, SetPatchMod(v, final) PROVE Stays
    BY <1>1, <2>7, PatchModSays DEF SameDepth
  <2>8. CASE Release
    BY <1>1, <2>8, ReleaseSays DEF SameDepth
  <2>9. CASE Loaded
    <3>1. ui'.asked = now + 1
      BY <1>1, <2>9, LoadedSays
    <3>2. QED
      BY <2>1, <3>1 DEF Stamps
  <2>10. CASE Publish
    BY <1>1, <2>10, PublishSays DEF SameDepth
  <2>11. CASE Send
    BY <1>1, <2>11, SendSays DEF SameDepth
  <2>12. CASE Resend
    BY <1>1, <2>12, ResendSays DEF SameDepth
  <2>13. ASSUME NEW due \in BOOLEAN, PollLevels(due) PROVE Stays
    <3>1. \/ ui'.req = ui.req
          \/ levels.said.source = "knob" /\ IsCurrent(levels.said)
      BY <1>1, <2>13, PollSays
    <3>2. QED
      BY <1>1, <3>1 DEF IsCurrent, PatchInv, KnobOfPatch
  <2>14. CASE \E v \in Travel : Knob(v)
    BY <2>14 DEF Knob
  <2>15. CASE Refresh \/ Restart
    BY <2>15 DEF Refresh, Restart
  <2>16. CASE UNCHANGED vars
    BY <2>16 DEF vars
  <2>17. QED
    BY <1>1, <2>1, <2>2, <2>3, <2>4, <2>5, <2>6, <2>7, <2>8, <2>9, <2>10, <2>11, <2>12, <2>13, <2>14,
       <2>15, <2>16 DEF Next, Screen, Busy, Poll
<1>2. QED
  <2>1. TypeInv /\ PatchInv /\ [Next]_vars
        => [ui'.req # ui.req /\ ui'.asked = ui.asked => levels.said.patch = ui.patch]_vars
    BY <1>1
  <2>2. QED
    BY <2>1, ReportsOfPatch, PTL DEF Spec, KnobStaysWithPatch

-----------------------------------------------------------------------------
(* The setup in force is the one saved.                                    *)

\* Besides, the knob keeps off a fader that is held, and the remapper restarts
\* only when all it had to say is published.
HandsApart == {"held", "overtake", "revert"} \cap Trouble = {}

\* What the screen shows is what the patch's entry resolves to, saved or yet due.
OwnIsShown ==
  /\ ui.patch # None => /\ Resolved(ui.own).mask = ui.mask /\ Resolved(ui.own).depth = ui.req
                        /\ TargetOf(ui.own, ui.global) = ui.target
                        /\ ~ui.due => store[ui.patch] = ui.own
                        /\ ui.asked # 0
  /\ ui.depth = ui.req

\* A depth asked for and not yet in the file will be, and no report gets past it.
DepthPending ==
  /\ route.asked # ui.asked => ToPublish(ui.todo) \/ (ui.held = "effect" /\ ui.unsent)
  /\ route.asked # ui.asked \/ ui.held = "effect"
       => router.said.at <= ui.asked /\ levels.said.at <= ui.asked
  /\ ToLoad(ui.todo) \/ ToResend(ui.todo) => ui.held = "none"
  /\ router.said.request <= ui.asked /\ levels.said.request <= ui.asked

\* The depth in force is the one the router reports, and what it had to say is said.
RouterSays ==
  /\ router.depth = router.said.depth
  /\ router.asked # 0 => router.depth # None
  /\ router.depth # None /\ router.said.source = "fader" => router.said.request = router.asked
  /\ router.said.source = "knob" => router.said.at > router.asked
  /\ ~router.dirty => levels.said = router.said \/ router.said = Silent

\* The two kinds of report that IsCurrent lets through.
Current(said) == said.depth # None /\ said.source = "knob" /\ said.at > ui.asked
Answers(said) == said.depth # None /\ said.source = "fader" /\ said.request = ui.asked

\* The answer to a request is the depth requested, unless the knob has moved since.
DepthFollows ==
  /\ Answers(router.said) => router.said.depth = ui.req
  /\ Answers(levels.said) => levels.said.depth = ui.req
  /\ Current(levels.said) => /\ router.asked = ui.asked
                             /\ levels.unread => router.said.source = "knob"
                             /\ ~levels.unread => levels.said.depth = ui.req
  /\ route.asked = ui.asked /\ route.req # ui.req => router.asked = ui.asked

SetupInv == OwnIsShown /\ DepthPending /\ RouterSays /\ DepthFollows

Requests == router.said.request \in Nat /\ levels.said.request \in Nat

LEMMA RequestsAreTimes == TypeOK => Requests
BY Constants DEF TypesConst, Time, TypeOK, RouterType, SaidType, Requests

\* An own setup resolves to itself.
LEMMA OwnResolves ==
  ASSUME NEW own, NEW mask \in Masks, NEW depth \in Travel, NEW target \in Targets \cup {None},
         own = [mask |-> mask, depth |-> depth, target |-> target]
  PROVE  /\ Resolved(own).mask = mask /\ Resolved(own).depth = depth /\ Resolved(own).target = target
         /\ \A global : TargetOf(own, global) = IF target = None THEN global ELSE target
<1>1. own \in Setup
  BY DEF Setup
<1>2. Resolved(own) = own
  BY <1>1, Constants DEF Resolved, TypesConst
<1>3. QED
  BY <1>2 DEF TargetOf

\* A step of the screen that asks for no depth and follows no report.
DepthStill ==
  /\ UNCHANGED <<route, router, levels>> /\ SameDepth
  /\ ToPublish(ui.todo) => ToPublish(ui'.todo)
  /\ ui.held = "effect" /\ ui.unsent => ToPublish(ui'.todo) \/ (ui'.held = "effect" /\ ui'.unsent)
  /\ ui'.held = "effect" => ui.held = "effect"
  /\ ToLoad(ui'.todo) \/ ToResend(ui'.todo) => ui'.held = "none"

LEMMA DepthStillKeeps ==
  ASSUME SetupInv, DepthStill
  PROVE  DepthPending' /\ RouterSays' /\ DepthFollows'
<1>1. DepthPending'
  BY DEF SetupInv, DepthPending, DepthStill, SameDepth
<1>2. RouterSays'
  BY DEF SetupInv, RouterSays, DepthStill
<1>3. DepthFollows'
  BY DEF SetupInv, DepthFollows, Answers, Current, DepthStill, SameDepth
<1>4. QED
  BY <1>1, <1>2, <1>3

\* A new depth asked for, by the fader or by a load.
DepthAsked ==
  /\ UNCHANGED <<route, router, levels>> /\ ui'.asked = now + 1
  /\ ToPublish(ui'.todo) \/ (ui'.held = "effect" /\ ui'.unsent)
  /\ ToLoad(ui'.todo) \/ ToResend(ui'.todo) => ui'.held = "none"

LEMMA DepthAskedKeeps ==
  ASSUME Stamps, Requests, PatchInv, SetupInv, DepthAsked
  PROVE  DepthPending' /\ RouterSays' /\ DepthFollows'
<1>1. DepthPending'
  BY DEF SetupInv, DepthPending, DepthAsked, PatchInv, StampsInOrder, Stamps, Requests
<1>2. RouterSays'
  BY DEF SetupInv, RouterSays, DepthAsked
<1>3. DepthFollows'
  BY DEF DepthFollows, Answers, Current, DepthAsked, PatchInv, StampsInOrder, Stamps, Requests,
         SetupInv, DepthPending
<1>4. QED
  BY <1>1, <1>2, <1>3

\* The screen's setup and its entry unchanged.
SetupStill == SameSetup /\ ui'.depth = ui.depth /\ ui'.req = ui.req /\ ui'.asked = ui.asked
              /\ ui'.patch = ui.patch /\ ui'.due = ui.due /\ store' = store

LEMMA OwnStill == ASSUME OwnIsShown, SetupStill PROVE OwnIsShown'
BY DEF OwnIsShown, SetupStill, SameSetup

\* The screen's setup written whole.
LEMMA OwnWritten ==
  ASSUME TypeOK', OwnIsShown, NEW target \in Targets \cup {None}, OwnIs(target),
         ui'.depth = ui'.req, ui'.patch = ui.patch,
         ui.patch # None => ui'.asked # 0 /\ ui'.target = IF target = None THEN ui'.global ELSE target
  PROVE  OwnIsShown'
<1>1. ui'.mask \in Masks /\ ui'.depth \in Travel
  BY DEF TypeOK, UiType
<1>2. /\ Resolved(ui'.own).mask = ui'.mask /\ Resolved(ui'.own).depth = ui'.depth
      /\ TargetOf(ui'.own, ui'.global) = IF target = None THEN ui'.global ELSE target
  BY <1>1, OwnResolves DEF OwnIs
<1>3. QED
  BY <1>2 DEF OwnIsShown, OwnIs

LEMMA SetupInvOfDepth ==
  ASSUME TypeInv, TypeOK', PatchInv, SetupInv, NEW v \in Travel, NEW final \in BOOLEAN, SetDepth(v, final)
  PROVE  SetupInv'
<1>1. Stamps /\ Requests /\ TodoFacts
  BY StampsAreTimes, RequestsAreTimes, Todos DEF TypeInv
<1>2. /\ ScreenOnly /\ ui'.patch = ui.patch
      /\ ui'.target = ui.target /\ ui'.global = ui.global /\ OwnIs(Resolved(ui.own).target)
      /\ ui'.depth = v /\ ui'.req = v /\ ui'.asked = now + 1
      /\ \/ ui'.todo = <<>> /\ ui'.held = "effect" /\ ui'.unsent
         \/ ui'.todo = <<"publish">>
  BY DepthSays
<1>3. DepthAsked
  BY <1>1, <1>2 DEF DepthAsked, TodoFacts, ScreenOnly
<1>4. Resolved(ui.own).target \in Targets \cup {None}
  BY ResolvedType DEF TypeInv, TypeOK, UiType, Setup
<1>a. ui'.asked # 0
  BY <1>1, <1>2 DEF Stamps
<1>5. OwnIsShown'
  BY <1>2, <1>4, <1>a, OwnWritten DEF SetupInv, OwnIsShown, TargetOf
<1>6. QED
  BY <1>1, <1>3, <1>5, DepthAskedKeeps DEF SetupInv

LEMMA SetupInvOfLoaded ==
  ASSUME TypeInv, PatchInv, SetupInv, Loaded
  PROVE  SetupInv'
<1>1. Stamps /\ Requests /\ TodoFacts
  BY StampsAreTimes, RequestsAreTimes, Todos DEF TypeInv
<1>2. /\ UNCHANGED <<route, router, levels>> /\ SameHands
      /\ ui'.patch = ui.next /\ ui'.own = store'[ui.next] /\ ui'.asked = now + 1
      /\ ui'.mask = Resolved(ui'.own).mask /\ ui'.target = TargetOf(ui'.own, ui'.global)
      /\ ui'.depth = Resolved(ui'.own).depth /\ ui'.req = Resolved(ui'.own).depth
      /\ ui.todo = <<"loaded">> /\ ui'.todo = <<"publish", "resend">>
  BY LoadedSays
<1>3. DepthAsked
  BY <1>1, <1>2 DEF DepthAsked, TodoFacts, SetupInv, DepthPending, SameHands
<1>4. OwnIsShown'
  BY <1>1, <1>2 DEF OwnIsShown, Stamps
<1>5. QED
  BY <1>1, <1>3, <1>4, DepthAskedKeeps DEF SetupInv

LEMMA SetupInvOfPublish ==
  ASSUME TypeInv, PatchInv, SetupInv, Publish
  PROVE  SetupInv'
<1>1. Stamps /\ TodoFacts
  BY StampsAreTimes, Todos DEF TypeInv
<1>2. /\ SameSetup /\ SameDepth /\ SameHands /\ UNCHANGED <<store, router, levels>>
      /\ ui'.patch = ui.patch /\ ui'.due = ui.due
      /\ route'.req = ui.req /\ route'.asked = ui.asked
      /\ (ToLoad(ui'.todo) \/ ToResend(ui'.todo) => ToResend(ui.todo))
  BY <1>1, PublishSays DEF TodoFacts
<1>3. OwnIsShown'
  BY <1>2, OwnStill DEF SetupInv, SetupStill, SameDepth
<1>4. DepthPending'
  BY <1>2 DEF SetupInv, DepthPending, SameDepth, SameHands
<1>5. RouterSays'
  BY <1>2 DEF SetupInv, RouterSays
<1>6. DepthFollows'
  BY <1>2 DEF SetupInv, DepthFollows, Answers, Current, SameDepth
<1>7. QED
  BY <1>3, <1>4, <1>5, <1>6 DEF SetupInv

LEMMA SetupInvOfPoll ==
  ASSUME TypeInv, TypeOK', PatchInv, SetupInv, NEW due \in BOOLEAN, PollLevels(due)
  PROVE  SetupInv'
<1> DEFINE said == levels.said
<1>1. Stamps /\ TodoFacts /\ said \in SaidType /\ None \notin Travel
  BY StampsAreTimes, Todos, Constants DEF TypeInv, TypeOK, TypesConst, Travel
<1>2. /\ UNCHANGED <<route, router>> /\ ~levels'.unread /\ levels'.said = levels.said
      /\ ui'.patch = ui.patch /\ ui'.global = ui.global /\ ui'.mask = ui.mask /\ ui'.target = ui.target
      /\ ui'.asked = ui.asked /\ SameHands /\ ui.todo = <<>> /\ ui'.todo = <<>>
      /\ (due => ui.due) /\ store' = (IF due THEN Saved ELSE store)
      /\ \/ ui'.depth = ui.depth /\ ui'.req = ui.req /\ ui'.own = ui.own /\ ui'.due = (ui.due /\ ~due)
         \/ /\ ui'.depth = said.depth /\ IsCurrent(said)
            /\ said.source = "fader" /\ ui'.req = ui.req
            /\ ui'.own = ui.own /\ ui'.due = (ui.due /\ ~due)
         \/ /\ levels.unread /\ ui'.depth = said.depth /\ IsCurrent(said)
            /\ said.source = "knob" /\ ui'.req = said.depth
            /\ OwnIs(Resolved(ui.own).target)
      /\ levels.unread /\ IsCurrent(said) /\ ui.held # "effect" => ui'.depth = said.depth
  BY PollSays
<1>3. (IsCurrent(said) <=> Current(said) \/ Answers(said)) /\ ~(Current(said) /\ Answers(said))
  BY <1>1 DEF IsCurrent, Current, Answers, SaidType
<1>4. ui'.depth = ui'.req
  BY <1>2, <1>3 DEF SetupInv, OwnIsShown, DepthFollows, Answers, IsCurrent
<1>5. CASE ui'.own = ui.own /\ ui'.req = ui.req /\ ui'.due = (ui.due /\ ~due)
  <2>1. due /\ ui.patch # None => store'[ui.patch] = ui.own
    BY <1>2, Constants DEF Saved, TypeInv, TypeOK, UiType
  <2>2. OwnIsShown'
    BY <1>2, <1>4, <1>5, <2>1 DEF SetupInv, OwnIsShown
  <2>3. DepthPending' /\ RouterSays'
    BY <1>2 DEF SetupInv, DepthPending, RouterSays, SameHands
  <2>4. Current(said) /\ levels.unread => ui'.req = said.depth
    BY <1>1, <1>2, <1>3, <1>4 DEF SetupInv, DepthPending, Stamps, Current
  <2>5. DepthFollows'
    BY <1>2, <1>5, <2>4 DEF SetupInv, DepthFollows, Answers, Current
  <2>6. QED
    BY <2>2, <2>3, <2>5 DEF SetupInv
<1>6. CASE /\ levels.unread /\ Current(said) /\ ui'.req = said.depth
           /\ OwnIs(Resolved(ui.own).target)
  <2>1. Resolved(ui.own).target \in Targets \cup {None}
    BY ResolvedType DEF TypeInv, TypeOK, UiType, Setup
  <2>2. OwnIsShown'
    BY <1>2, <1>4, <1>6, <2>1, OwnWritten DEF SetupInv, OwnIsShown, TargetOf
  <2>3. DepthPending' /\ RouterSays'
    BY <1>2 DEF SetupInv, DepthPending, RouterSays, SameHands
  <2>4. DepthFollows'
    BY <1>2, <1>3, <1>6 DEF SetupInv, DepthFollows, Answers, Current
  <2>5. QED
    BY <2>2, <2>3, <2>4 DEF SetupInv
<1>7. QED
  BY <1>2, <1>3, <1>5, <1>6 DEF Answers

LEMMA SetupInvOfKnob ==
  ASSUME TypeInv, PatchInv, SetupInv, HandsApart, NEW v \in Travel, Knob(v)
  PROVE  SetupInv'
<1>1. Stamps /\ Requests /\ TodoFacts /\ None \notin Travel
  BY StampsAreTimes, RequestsAreTimes, Todos, Constants DEF TypeInv, TypesConst, Travel
<1>2. /\ UNCHANGED <<ui, store, route, levels>> /\ KnobStill
      /\ ~ToPublish(ui.todo) /\ ui.held # Driven
      /\ \/ SaidDepthStill /\ (router'.dirty \/ (router'.dirty = router.dirty /\ router'.said = router.said))
         \/ /\ router.cc1 = "fx" /\ router'.depth \in Travel /\ router'.dirty
            /\ router'.said.depth = router'.depth /\ router'.said.source = "knob"
            /\ router'.said.request = 0 /\ router'.said.at = now + 1
  BY <1>1, KnobSays DEF TodoFacts, HandsApart
<1>3. OwnIsShown'
  BY <1>2 DEF SetupInv, OwnIsShown
<1>4. CASE SaidDepthStill /\ (router'.dirty \/ (router'.dirty = router.dirty /\ router'.said = router.said))
  <2>1. DepthPending'
    BY <1>2, <1>4 DEF SetupInv, DepthPending, SaidDepthStill
  <2>2. RouterSays'
    BY <1>2, <1>4 DEF SetupInv, RouterSays, SaidDepthStill, KnobStill
  <2>3. DepthFollows'
    BY <1>2, <1>4 DEF SetupInv, DepthFollows, Answers, Current, SaidDepthStill, KnobStill
  <2>4. QED
    BY <1>3, <2>1, <2>2, <2>3 DEF SetupInv
<1>5. CASE /\ router.cc1 = "fx" /\ router'.depth \in Travel /\ router'.dirty
           /\ router'.said.depth = router'.depth /\ router'.said.source = "knob"
           /\ router'.said.request = 0 /\ router'.said.at = now + 1
  <2>1. ui.held # "effect" /\ route.asked = ui.asked
    BY <1>2, <1>5 DEF Driven, SetupInv, DepthPending
  <2>2. DepthPending'
    BY <1>1, <1>2, <1>5, <2>1 DEF SetupInv, DepthPending, Stamps
  <2>3. RouterSays'
    BY <1>1, <1>2, <1>5 DEF SetupInv, RouterSays, KnobStill, Stamps, PatchInv, StampsInOrder
  <2>4. DepthFollows'
    BY <1>2, <1>5 DEF SetupInv, DepthFollows, Answers, Current, KnobStill
  <2>5. QED
    BY <1>3, <2>2, <2>3, <2>4 DEF SetupInv
<1>6. QED
  BY <1>2, <1>4, <1>5

\* A refresh of the router as it is, or a restart with all published.
LEMMA SetupInvOfRefreshed ==
  ASSUME TypeInv, PatchInv, SetupInv, NEW r \in {router, Fresh}, NEW new \in BOOLEAN, Refreshed(r, new),
         (r = router /\ new = route.unread) \/ (r = Fresh /\ new /\ Published),
         UNCHANGED <<ui, store, now>>
  PROVE  SetupInv'
<1>1. Stamps /\ Requests /\ r \in RouterType /\ None \notin Travel /\ route.req \in Travel
  BY StampsAreTimes, RequestsAreTimes, FreshType, Constants
     DEF TypeInv, TypeOK, TypesConst, Travel, RouteType
<1>2. /\ r.asked \in Nat /\ r.asked <= route.asked
      /\ r = Fresh => r.asked = 0 /\ r.said = Silent /\ r.depth = None /\ ~r.dirty
      /\ Silent.depth = None /\ Silent.source = "fader" /\ Silent.request = 0 /\ Silent.at = 0
  BY <1>1 DEF PatchInv, StampsInOrder, Stamps, Fresh, Silent
<1>3. /\ router'.asked = (IF new THEN route.asked ELSE r.asked)
      /\ \/ /\ ~new \/ r.asked = route.asked
            /\ router'.asked = r.asked /\ router'.depth = r.depth /\ router'.said = r.said
            /\ levels' = IF r.dirty THEN [said |-> router'.said, unread |-> TRUE] ELSE levels
         \/ /\ new /\ r.asked # route.asked /\ route.asked # 0
            /\ router'.asked = route.asked /\ router'.depth = route.req
            /\ router'.said.depth = route.req /\ router'.said.source = "fader"
            /\ router'.said.request = route.asked /\ router'.said.at = 0
            /\ levels' = [said |-> router'.said, unread |-> TRUE]
      /\ ~router'.dirty /\ route'.req = route.req /\ route'.asked = route.asked
  <2>1. TypeInv /\ now' = now
    OBVIOUS
  <2>2. QED
    BY <1>1, <1>2, <2>1, RefreshedSays DEF Stamps
<1>4. OwnIsShown'
  BY DEF SetupInv, OwnIsShown
<1>5. CASE /\ new /\ r.asked # route.asked /\ route.asked # 0
           /\ router'.asked = route.asked /\ router'.depth = route.req
           /\ router'.said.depth = route.req /\ router'.said.source = "fader"
           /\ router'.said.request = route.asked /\ router'.said.at = 0
           /\ levels' = [said |-> router'.said, unread |-> TRUE]
  <2>1. route.asked = ui.asked => route.req = ui.req
    BY <1>5 DEF SetupInv, DepthFollows, Published
  <2>2. levels'.said = router'.said
    BY <1>5
  <2>3. DepthPending'
    BY <1>1, <1>3, <1>5, <2>2 DEF SetupInv, DepthPending, PatchInv, StampsInOrder, Stamps
  <2>4. RouterSays'
    BY <1>1, <1>3, <1>5, <2>2 DEF RouterSays
  <2>5. DepthFollows'
    BY <1>3, <1>5, <2>1, <2>2 DEF DepthFollows, Answers, Current
  <2>6. QED
    BY <1>4, <2>3, <2>4, <2>5 DEF SetupInv
<1>6. CASE /\ ~new \/ r.asked = route.asked
           /\ router'.asked = r.asked /\ router'.depth = r.depth /\ router'.said = r.said
           /\ levels' = IF r.dirty THEN [said |-> router'.said, unread |-> TRUE] ELSE levels
  <2>1. r.asked = route.asked
    BY <1>2, <1>6 DEF PatchInv, RouteIsRead
  <2>2. CASE r = Fresh /\ Published
    <3>1. levels' = levels /\ router'.said = Silent /\ router'.depth = None /\ router'.asked = 0
          /\ route.asked = 0
      BY <1>2, <1>6, <2>1, <2>2
    <3>2. router.asked = 0
      BY <1>1, <3>1 DEF PatchInv, StampsInOrder, Stamps
    <3>3. DepthPending'
      BY <1>1, <1>2, <1>3, <3>1 DEF SetupInv, DepthPending, Stamps
    <3>4. RouterSays'
      BY <1>2, <3>1 DEF RouterSays
    <3>5. DepthFollows'
      BY <1>2, <1>3, <2>2, <3>1, <3>2 DEF SetupInv, DepthFollows, Answers, Current, Published
    <3>6. QED
      BY <1>4, <3>3, <3>4, <3>5 DEF SetupInv
  <2>3. CASE r = router /\ router.dirty
    <3>1. levels'.said = router.said /\ levels'.unread /\ router'.said = router.said
      BY <1>6, <2>3
    <3>2. DepthPending'
      BY <1>3, <3>1 DEF SetupInv, DepthPending
    <3>3. RouterSays'
      BY <1>3, <1>6, <2>3, <3>1 DEF SetupInv, RouterSays
    <3>4. Current(router.said) => router.asked = ui.asked
      BY <1>1, <2>1, <2>3 DEF SetupInv, DepthPending, Stamps, Current
    <3>5. DepthFollows'
      BY <1>3, <1>6, <2>3, <3>1, <3>4 DEF SetupInv, DepthFollows, Answers, Current
    <3>6. QED
      BY <1>4, <3>2, <3>3, <3>5 DEF SetupInv
  <2>4. CASE r = router /\ ~router.dirty
    <3>1. levels' = levels /\ router'.said = router.said
      BY <1>6, <2>4
    <3>2. DepthPending' /\ RouterSays'
      BY <1>3, <1>6, <2>4, <3>1 DEF SetupInv, DepthPending, RouterSays
    <3>3. DepthFollows'
      BY <1>3, <1>6, <2>4, <3>1 DEF SetupInv, DepthFollows, Answers, Current
    <3>4. QED
      BY <1>4, <3>2, <3>3 DEF SetupInv
  <2>5. QED
    BY <2>2, <2>3, <2>4
<1>7. QED
  BY <1>3, <1>5, <1>6

LEMMA SetupInvKeeps ==
  TypeInv /\ PatchInv /\ HandsApart /\ SetupInv /\ [Next]_vars => SetupInv'
<1> SUFFICES ASSUME TypeInv, PatchInv, HandsApart, SetupInv, [Next]_vars PROVE SetupInv'
  OBVIOUS
<1>1. /\ TodoFacts /\ Stops \subseteq Travel /\ 0 \in Travel /\ TypeOK' /\ ui \in UiType
      /\ None \notin Targets
  BY Todos, TypeInvKeeps, Constants DEF TypeInv, TypeOK, TypesConst
<1>2. ASSUME SetupStill, DepthStill PROVE SetupInv'
  BY <1>2, OwnStill, DepthStillKeeps DEF SetupInv
<1>3. Resolved(ui.own).target \in Targets \cup {None}
  BY <1>1, ResolvedType DEF UiType, Setup
<1>4. ASSUME NEW p \in Patches, LoadPatch(p) PROVE SetupInv'
  <2>1. DepthStill
    BY <1>1, <1>4, LoadSays DEF DepthStill, TodoFacts, SameHands
  <2>2. SetupStill
    BY <1>4, LoadSays DEF SetupStill, SameDepth
  <2>3. QED
    BY <1>2, <2>1, <2>2
<1>5. CASE FlipTarget
  <2>1. DepthStill
    BY <1>1, <1>5, FlipSays DEF DepthStill, TodoFacts, SameHands, ScreenOnly
  <2>2. OwnIsShown'
    BY <1>1, <1>5, FlipSays, OwnWritten DEF SetupInv, OwnIsShown, SameDepth
  <2>3. QED
    BY <2>1, <2>2, DepthStillKeeps DEF SetupInv
<1>6. CASE SetGlobalDefault
  <2>1. DepthStill
    BY <1>1, <1>6, DefaultSays DEF DepthStill, TodoFacts, SameHands, ScreenOnly
  <2>2. OwnIsShown'
    BY <1>6, DefaultSays DEF SetupInv, OwnIsShown, SameDepth, ScreenOnly
  <2>3. QED
    BY <2>1, <2>2, DepthStillKeeps DEF SetupInv
<1>7. ASSUME NEW e \in Effects, ToggleEffect(e) PROVE SetupInv'
  <2>1. DepthStill
    BY <1>1, <1>7, ToggleSays DEF DepthStill, TodoFacts, SameHands, ScreenOnly
  <2>2. OwnIsShown'
    BY <1>1, <1>3, <1>7, ToggleSays, OwnWritten DEF SetupInv, OwnIsShown, SameDepth, TargetOf
  <2>3. QED
    BY <2>1, <2>2, DepthStillKeeps DEF SetupInv
<1>8. ASSUME NEW v \in Travel, NEW final \in BOOLEAN, SetDepth(v, final) PROVE SetupInv'
  BY <1>1, <1>8, SetupInvOfDepth
<1>9. ASSUME NEW v \in Travel, NEW final \in BOOLEAN, SetPatchMod(v, final) PROVE SetupInv'
  <2>1. DepthStill
    BY <1>1, <1>9, PatchModSays DEF DepthStill, TodoFacts, ScreenOnly
  <2>2. SetupStill
    BY <1>9, PatchModSays DEF SetupStill, SameDepth, ScreenOnly
  <2>3. QED
    BY <1>2, <2>1, <2>2
<1>10. CASE Release
  <2>1. DepthStill
    BY <1>1, <1>10, ReleaseSays DEF DepthStill, TodoFacts, ScreenOnly
  <2>2. SetupStill
    BY <1>10, ReleaseSays DEF SetupStill, SameDepth, ScreenOnly
  <2>3. QED
    BY <1>2, <2>1, <2>2
<1>11. CASE Loaded
  BY <1>11, SetupInvOfLoaded
<1>12. CASE Publish
  BY <1>12, SetupInvOfPublish
<1>13. CASE Send
  <2>1. DepthStill
    BY <1>1, <1>13, SendSays DEF DepthStill, TodoFacts, SameHands
  <2>2. SetupStill
    BY <1>13, SendSays DEF SetupStill, SameDepth
  <2>3. QED
    BY <1>2, <2>1, <2>2
<1>14. CASE Resend
  <2>1. DepthStill
    BY <1>1, <1>14, ResendSays DEF DepthStill, TodoFacts, ScreenOnly, SetupInv, DepthPending
  <2>2. SetupStill
    BY <1>14, ResendSays DEF SetupStill, SameDepth, ScreenOnly
  <2>3. QED
    BY <1>2, <2>1, <2>2
<1>15. ASSUME NEW due \in BOOLEAN, PollLevels(due) PROVE SetupInv'
  BY <1>1, <1>15, SetupInvOfPoll
<1>16. ASSUME NEW v \in Travel, Knob(v) PROVE SetupInv'
  BY <1>16, SetupInvOfKnob
<1>17. CASE Refresh
  <2>1. Refreshed(router, route.unread) /\ UNCHANGED <<ui, store, now>> /\ route.unread \in BOOLEAN
    BY <1>17 DEF Refresh, TypeInv, TypeOK, RouteType
  <2>2. QED
    BY <2>1, SetupInvOfRefreshed
<1>18. CASE Restart
  <2>1. Refreshed(Fresh, TRUE) /\ Published /\ UNCHANGED <<ui, store, now>>
    BY <1>18 DEF Restart, HandsApart
  <2>2. QED
    BY <2>1, SetupInvOfRefreshed
<1>19. CASE UNCHANGED vars
  BY <1>19 DEF vars, SetupInv, OwnIsShown, DepthPending, RouterSays, DepthFollows, Answers, Current
<1>20. QED
  BY <1>1, <1>4, <1>5, <1>6, <1>7, <1>8, <1>9, <1>10, <1>11, <1>12, <1>13, <1>14, <1>15,
     <1>16, <1>17, <1>18, <1>19 DEF Next, Screen, Busy, Poll

LEMMA SetupInvInit == Init => SetupInv
<1> SUFFICES ASSUME Init PROVE SetupInv
  OBVIOUS
<1>1. /\ ui.todo = <<>> /\ ui.asked = 0 /\ ui.patch = None /\ ui.depth = 0 /\ ui.req = 0 /\ ui.held = "none"
      /\ route.asked = 0 /\ route.req = 0 /\ levels.said = Silent /\ router = Fresh
  BY DEF Init
<1>2. /\ router.asked = 0 /\ router.depth = None /\ router.said = Silent
      /\ Silent.at = 0 /\ Silent.depth = None /\ Silent.source = "fader" /\ Silent.request = 0
  BY <1>1 DEF Fresh, Silent
<1>3. QED
  BY <1>1, <1>2, Todos DEF SetupInv, OwnIsShown, DepthPending, RouterSays, DepthFollows, Answers, Current,
     TodoFacts

LEMMA SetupsAreKept == ASSUME HandsApart PROVE Spec => [](TypeInv /\ PatchInv /\ SetupInv)
<1>1. KnobWaits
  BY DEF HandsApart, KnobWaits
<1>2. TypeInv /\ PatchInv /\ SetupInv /\ [Next]_vars => (TypeInv /\ PatchInv /\ SetupInv)'
  BY <1>1, TypeInvKeeps, PatchInvKeeps, SetupInvKeeps
<1>3. Init => TypeInv /\ PatchInv /\ SetupInv
  BY TypeInit, PatchInvInit, SetupInvInit
<1>4. QED
  BY <1>2, <1>3, PTL DEF Spec

\* With the knob off a held fader and no restart before the news is out, what sounds when
\* all is at rest is what the patch's saved entry will bring back.
THEOREM SetupKept == ASSUME HandsApart PROVE Spec => []SetupIsKept
<1>1. ASSUME TypeInv, PatchInv, SetupInv, AtRest PROVE SetupIsKept
  <2>1. Stamps /\ TodoFacts /\ store[ui.patch] = ui.own
    BY <1>1, StampsAreTimes, Todos DEF TypeInv, AtRest, SetupInv, OwnIsShown
  <2>2. /\ Resolved(ui.own).mask = ui.mask /\ Resolved(ui.own).depth = ui.req
        /\ TargetOf(ui.own, ui.global) = ui.target /\ ui.asked # 0
    BY <1>1 DEF AtRest, SetupInv, OwnIsShown
  <2>3. /\ route.asked = ui.asked /\ router.asked = ui.asked
        /\ router.mask = ui.mask /\ router.cc1 = Destination(ui.target, ui.patch)
    BY <1>1, <2>1 DEF AtRest, TodoFacts, SetupInv, DepthPending, PatchInv, RouteIsRead, RouteIsOfPatch
  <2>4. router.depth # None /\ router.depth = router.said.depth
    BY <1>1, <2>2, <2>3 DEF SetupInv, RouterSays
  <2>5. CASE router.said.source = "fader"
    <3>1. Answers(router.said)
      BY <1>1, <2>3, <2>4, <2>5 DEF SetupInv, RouterSays, Answers
    <3>2. QED
      BY <1>1, <2>1, <2>2, <2>3, <2>4, <3>1 DEF SetupInv, DepthFollows, SetupIsKept
  <2>6. CASE router.said.source = "knob"
    <3>1. levels.said = router.said /\ router.said.at > ui.asked
      BY <1>1, <2>3, <2>6 DEF SetupInv, RouterSays, AtRest, Silent
    <3>2. Current(levels.said)
      BY <2>4, <2>6, <3>1 DEF Current
    <3>3. QED
      BY <1>1, <2>1, <2>2, <2>3, <2>4, <3>1, <3>2 DEF SetupInv, DepthFollows, SetupIsKept, AtRest
  <2>7. QED
    BY <1>1, <2>5, <2>6 DEF TypeInv, TypeOK, RouterType, SaidType
<1>2. TypeInv /\ PatchInv /\ SetupInv => SetupIsKept
  BY <1>1 DEF SetupIsKept
<1>3. QED
  BY <1>2, SetupsAreKept, PTL

-----------------------------------------------------------------------------
(* The knob never makes the sound jump.                                    *)

\* Nothing goes wrong between the two processes, and Surge keeps its wheel.
NoTrouble == Trouble = {}

\* The host plays the router's depth, and the knob has one to start from
\* wherever there is an effect to drive.
HostHasDepth ==
  /\ router.depth # None => host.depth = router.depth
  /\ router.mask # {} => router.asked # 0
  /\ route.mask # {} => route.asked # 0
  /\ ui.mask # {} => ui.asked # 0

ToReload(todo) == ToLoad(todo) \/ ToResend(todo)

\* A wheel value set on the screen and not yet in the file will be.
WheelPending ==
  route.set # ui.set => /\ ToPublish(ui.todo) \/ (ui.held = "wheel" /\ ui.unsent)
                        /\ router.said.wheelAt <= ui.set
                        /\ ~ToSend(ui.todo) => wheel = ui.wreq
                        /\ ~ToReload(ui.todo)

\* What is still to be sent to Surge is what the router was or will be told.
WheelSending ==
  ToSend(ui.todo) => /\ ui.known /\ ui.set # 0 /\ ui.wreq = ui.wheel /\ router.said.wheelAt <= ui.set
                     /\ ToPublish(ui.todo) => route.set < ui.set
                     /\ ~ToPublish(ui.todo) /\ router.set = ui.set => router.ref = ui.wreq

WheelTold ==
  /\ route.set = ui.set => route.wreq = ui.wreq
  /\ route.set # router.set /\ ~router.dirty => router.said.wheelAt <= route.set
  /\ ~ui.known => ui.set = 0 /\ (router.ref # None => wheel = router.ref)
  /\ ToResend(ui.todo) => ui.patch # None

\* The value the router goes on from once it has read the route file.
KnobIsLater == router.said.wheel # None /\ route.set < router.said.wheelAt
Heir == IF router.set = route.set \/ KnobIsLater THEN router.ref ELSE route.wreq

\* It is Surge's, but while a load or a fader has yet to send.
WheelIsRef ==
  route.set = ui.set /\ ~ToReload(ui.todo) /\ ~ToSend(ui.todo)
    => (ui.patch \in Routed \cup {None} /\ Heir # None => wheel = Heir)

WheelInv == WheelPending /\ WheelSending /\ WheelTold /\ WheelIsRef

\* A step of the screen that has to do with neither Surge nor the wheel's fader.
WheelStill ==
  /\ UNCHANGED <<route, router, wheel>> /\ ui'.wreq = ui.wreq /\ ui'.set = ui.set
  /\ ui.known => ui'.known
  /\ ~ToSend(ui.todo) /\ ~ToSend(ui'.todo)
  /\ ToPublish(ui.todo) => ToPublish(ui'.todo)
  /\ ui.held = "wheel" /\ ui.unsent => ToPublish(ui'.todo) \/ (ui'.held = "wheel" /\ ui'.unsent)
  /\ \/ ~ToReload(ui.todo) /\ ~ToReload(ui'.todo) /\ ui'.patch = ui.patch
     \/ ToReload(ui.todo) /\ ToReload(ui'.todo) /\ ui'.patch # None

LEMMA WheelStillKeeps == ASSUME WheelInv, WheelStill PROVE WheelInv'
<1>1. WheelPending'
  BY DEF WheelInv, WheelPending, WheelStill
<1>2. WheelSending'
  BY DEF WheelSending, WheelStill
<1>3. WheelTold'
  BY DEF WheelInv, WheelTold, WheelStill, ToReload
<1>4. WheelIsRef'
  BY DEF WheelInv, WheelIsRef, WheelStill, Heir, KnobIsLater
<1>5. QED
  BY <1>1, <1>2, <1>3, <1>4 DEF WheelInv

LEMMA WheelInvOfLoad ==
  ASSUME TypeInv, NoTrouble, WheelInv, NEW p \in Patches, LoadPatch(p) PROVE WheelInv'
<1>1. /\ SameWheel /\ UNCHANGED <<route, router>> /\ ui.held = "none"
      /\ ~ToPublish(ui.todo) /\ ~ToSend(ui'.todo) /\ ToReload(ui'.todo) /\ ~ToResend(ui'.todo)
      /\ wheel' = wheel \/ ui.known
  BY Todos, LoadSays DEF TodoFacts, NoTrouble, ToReload
<1>2. route.set = ui.set
  BY <1>1 DEF WheelInv, WheelPending
<1>3. WheelPending' /\ WheelSending' /\ WheelIsRef'
  BY <1>1, <1>2 DEF WheelPending, WheelSending, WheelIsRef, SameWheel
<1>4. WheelTold'
  BY <1>1 DEF WheelInv, WheelTold, SameWheel
<1>5. QED
  BY <1>3, <1>4 DEF WheelInv

LEMMA WheelInvOfPatchMod ==
  ASSUME TypeInv, PatchInv, WheelInv, NEW v \in Travel, NEW final \in BOOLEAN, SetPatchMod(v, final)
  PROVE  WheelInv'
<1>1. Stamps
  BY StampsAreTimes DEF TypeInv
<1>2. /\ UNCHANGED <<route, router>>
      /\ ui'.wheel = v /\ ui'.known /\ ui'.wreq = v /\ ui'.set = now + 1
      /\ ToSend(ui'.todo) /\ ~ToReload(ui'.todo)
      /\ ToPublish(ui'.todo) \/ (ui'.held = "wheel" /\ ui'.unsent)
  BY Todos, PatchModSays DEF TodoFacts, ScreenOnly, ToReload
<1>3. /\ route.set < now + 1 /\ router.set < now + 1 /\ router.said.wheelAt <= now + 1
      /\ now + 1 # 0
  BY <1>1 DEF PatchInv, StampsInOrder, Stamps
<1>4. WheelPending' /\ WheelSending'
  BY <1>1, <1>2, <1>3 DEF WheelPending, WheelSending, Stamps
<1>5. WheelTold'
  BY <1>1, <1>2, <1>3 DEF WheelInv, WheelTold, ToReload, Stamps
<1>6. WheelIsRef'
  BY <1>2 DEF WheelIsRef
<1>7. QED
  BY <1>4, <1>5, <1>6 DEF WheelInv

LEMMA WheelInvOfPublish == ASSUME TypeInv, PatchInv, WheelInv, Publish PROVE WheelInv'
<1>1. Stamps
  BY StampsAreTimes DEF TypeInv
<1>2. /\ SameWheel /\ SameHands /\ UNCHANGED <<router, wheel>> /\ ui'.patch = ui.patch
      /\ route'.wreq = ui.wreq /\ route'.set = ui.set
      /\ ToPublish(ui.todo) /\ ~ToPublish(ui'.todo)
      /\ (ToSend(ui'.todo) <=> ToSend(ui.todo)) /\ (ToReload(ui'.todo) <=> ToReload(ui.todo))
      /\ (ToResend(ui'.todo) <=> ToResend(ui.todo))
  BY Todos, PublishSays DEF TodoFacts, ToReload
<1>3. router.set <= route.set /\ route.set <= ui.set
  BY DEF PatchInv, StampsInOrder
<1>4. WheelPending'
  BY <1>2 DEF WheelPending, SameWheel
<1>5. WheelSending'
  BY <1>1, <1>2, <1>3 DEF WheelInv, WheelSending, SameWheel, Stamps
<1>6. WheelTold'
  BY <1>2 DEF WheelInv, WheelPending, WheelTold, SameWheel
<1>7. WheelIsRef'
  <2>1. CASE route.set = ui.set
    BY <1>2, <2>1 DEF WheelInv, WheelIsRef, WheelTold, Heir, KnobIsLater, SameWheel
  <2>2. CASE route.set # ui.set
    <3>1. router.set # ui.set /\ ~(ui.set < router.said.wheelAt)
      BY <1>1, <1>3, <2>2 DEF WheelInv, WheelPending, Stamps
    <3>2. Heir' = ui.wreq
      BY <1>2, <3>1 DEF Heir, KnobIsLater
    <3>3. QED
      BY <1>2, <2>2, <3>2 DEF WheelInv, WheelPending, WheelIsRef
  <2>3. QED
    BY <2>1, <2>2
<1>8. QED
  BY <1>4, <1>5, <1>6, <1>7 DEF WheelInv

LEMMA WheelInvOfSend == ASSUME TypeInv, WheelInv, Send PROVE WheelInv'
<1>1. Stamps
  BY StampsAreTimes DEF TypeInv
<1>2. /\ SameWheel /\ SameHands /\ UNCHANGED <<route, router>> /\ ui'.patch = ui.patch /\ wheel' = ui.wheel
      /\ ToSend(ui.todo) /\ ~ToPublish(ui.todo)
      /\ ~ToPublish(ui'.todo) /\ ~ToSend(ui'.todo) /\ ~ToReload(ui'.todo) /\ ~ToResend(ui'.todo)
  BY Todos, SendSays DEF TodoFacts, ToReload
<1>3. ui.known /\ ui.wreq = ui.wheel /\ ~(ui.set < router.said.wheelAt)
      /\ (router.set = ui.set => router.ref = ui.wreq)
  BY <1>1, <1>2 DEF WheelInv, WheelSending, Stamps
<1>4. WheelPending' /\ WheelSending' /\ WheelTold'
  BY <1>2, <1>3 DEF WheelInv, WheelPending, WheelSending, WheelTold, SameWheel, SameHands
<1>5. WheelIsRef'
  BY <1>2, <1>3 DEF WheelInv, WheelIsRef, WheelTold, Heir, KnobIsLater, SameWheel
<1>6. QED
  BY <1>4, <1>5 DEF WheelInv

LEMMA WheelInvOfResend ==
  ASSUME TypeInv, PatchInv, SetupInv, WheelInv, Resend PROVE WheelInv'
<1>1. Stamps /\ TodoFacts
  BY StampsAreTimes, Todos DEF TypeInv
<1>2. /\ UNCHANGED <<route, router, wheel>> /\ ui'.patch = ui.patch /\ ui.todo = <<"resend">>
      /\ ToResend(ui.todo) /\ ToReload(ui.todo)
  BY <1>1, ResendSays DEF TodoFacts, ScreenOnly, ToReload
<1>3. route.set = ui.set /\ ui.patch # None /\ ui.set < now
      /\ router.set <= route.set /\ router.said.wheelAt <= now
  BY <1>2 DEF WheelInv, WheelPending, WheelTold, PatchInv, StampsInOrder
<1>4. CASE ui.known /\ ui.patch \in Routed
  <2>1. /\ ui'.wheel = ui.wheel /\ ui'.known /\ ui'.wreq = ui.wheel /\ ui'.set = now
        /\ ToPublish(ui'.todo) /\ ToSend(ui'.todo) /\ ~ToReload(ui'.todo) /\ ~ToResend(ui'.todo)
    BY <1>1, <1>4, ResendSays DEF TodoFacts, ToReload
  <2>2. now # 0 /\ route.set < now /\ route.set # now
    BY <1>1, <1>3 DEF Stamps
  <2>3. WheelPending' /\ WheelSending'
    BY <1>2, <1>3, <2>1, <2>2 DEF WheelPending, WheelSending
  <2>4. WheelTold' /\ WheelIsRef'
    BY <1>2, <2>1, <2>2 DEF WheelInv, WheelTold, WheelIsRef
  <2>5. QED
    BY <2>3, <2>4 DEF WheelInv
<1>5. CASE ~(ui.known /\ ui.patch \in Routed)
  <2>1. /\ SameWheel
        /\ ~ToPublish(ui'.todo) /\ ~ToSend(ui'.todo) /\ ~ToReload(ui'.todo) /\ ~ToResend(ui'.todo)
    BY <1>1, <1>5, ResendSays DEF TodoFacts, ToReload
  <2>2. WheelPending' /\ WheelSending' /\ WheelTold'
    BY <1>2, <1>3, <2>1 DEF WheelInv, WheelPending, WheelSending, WheelTold, SameWheel
  <2>3. ui.patch \in Routed => Heir = router.ref /\ (router.ref # None => wheel = router.ref)
    BY <1>1, <1>3, <1>5 DEF WheelInv, WheelTold, Heir, Stamps
  <2>4. WheelIsRef'
    BY <1>2, <1>3, <2>3 DEF WheelIsRef, Heir, KnobIsLater
  <2>5. QED
    BY <2>2, <2>4 DEF WheelInv
<1>6. QED
  BY <1>4, <1>5

LEMMA WheelInvOfKnob ==
  ASSUME TypeInv, PatchInv, NoTrouble, WheelInv, NEW v \in Travel, Knob(v) PROVE WheelInv'
<1>1. Stamps /\ TodoFacts /\ None \notin Travel
  BY StampsAreTimes, Todos, Constants DEF TypeInv, TypesConst, Travel
<1>2. /\ UNCHANGED <<ui, route>> /\ KnobStill
      /\ ~ToPublish(ui.todo) /\ ~ToSend(ui.todo) /\ ui.held # Driven
      /\ \/ wheel' = wheel /\ SaidWheelStill /\ (router'.dirty \/ router'.dirty = router.dirty)
         \/ /\ router.cc1 = "surge" /\ wheel' \in Travel /\ router'.ref = wheel' /\ router'.dirty
            /\ router'.said.wheel = wheel' /\ router'.said.wheelAt = now + 1
  BY <1>1, KnobSays DEF TodoFacts, NoTrouble
<1>3. CASE wheel' = wheel /\ SaidWheelStill /\ (router'.dirty \/ router'.dirty = router.dirty)
  <2>1. WheelPending' /\ WheelSending' /\ WheelTold'
    BY <1>2, <1>3 DEF WheelInv, WheelPending, WheelSending, WheelTold, KnobStill, SaidWheelStill
  <2>2. Heir' = Heir
    BY <1>2, <1>3 DEF Heir, KnobIsLater, KnobStill, SaidWheelStill
  <2>3. WheelIsRef'
    BY <1>2, <1>3, <2>2 DEF WheelInv, WheelIsRef
  <2>4. QED
    BY <2>1, <2>3 DEF WheelInv
<1>4. CASE /\ router.cc1 = "surge" /\ wheel' \in Travel /\ router'.ref = wheel' /\ router'.dirty
           /\ router'.said.wheel = wheel' /\ router'.said.wheelAt = now + 1
  <2>1. route.set = ui.set /\ route.set < now + 1
    BY <1>1, <1>2, <1>4 DEF Driven, WheelInv, WheelPending, PatchInv, StampsInOrder, Stamps
  <2>2. WheelPending' /\ WheelSending' /\ WheelTold'
    BY <1>2, <1>4, <2>1 DEF WheelInv, WheelPending, WheelSending, WheelTold
  <2>3. WheelIsRef'
    BY <1>1, <1>2, <1>4, <2>1 DEF WheelIsRef, Heir, KnobIsLater
  <2>4. QED
    BY <2>2, <2>3 DEF WheelInv
<1>5. QED
  BY <1>2, <1>3, <1>4

LEMMA WheelInvOfRefreshed ==
  ASSUME TypeInv, PatchInv, WheelInv, NEW r \in {router, Fresh}, NEW new \in BOOLEAN, Refreshed(r, new),
         (r = router /\ new = route.unread) \/ (r = Fresh /\ new /\ Published),
         UNCHANGED <<ui, wheel, now>>
  PROVE  WheelInv'
<1>1. Stamps /\ r \in RouterType
  BY StampsAreTimes, FreshType DEF TypeInv, TypeOK
<1>2. /\ r.set \in Nat /\ r.set <= route.set /\ r.said.wheelAt <= router.said.wheelAt
      /\ r.said.wheelAt \in Nat
      /\ r = Fresh => r.set = 0 /\ r.said.wheel = None /\ r.ref = None
  BY <1>1 DEF PatchInv, StampsInOrder, Stamps, Fresh, Silent
<1>3. /\ router'.said.wheel = r.said.wheel /\ router'.said.wheelAt = r.said.wheelAt
      /\ router'.set = route.set
      /\ router'.ref = IF r.set = route.set \/ (r.said.wheel # None /\ route.set < r.said.wheelAt)
                       THEN r.ref ELSE route.wreq
      /\ ~router'.dirty /\ route'.wreq = route.wreq /\ route'.set = route.set
  <2>1. TypeInv /\ now' = now
    OBVIOUS
  <2>2. ~new => r.set = route.set
    BY DEF PatchInv, RouteIsRead
  <2>3. QED
    BY <1>1, <1>2, <2>1, <2>2, RefreshedSays DEF Stamps
<1>4. CASE r = router
  <2>1. router'.ref = Heir
    BY <1>3, <1>4 DEF Heir, KnobIsLater
  <2>2. WheelPending'
    BY <1>3, <1>4 DEF WheelInv, WheelPending
  <2>3. WheelSending'
    BY <1>1, <1>3, <1>4, <2>1 DEF WheelInv, WheelSending, WheelTold, Heir, KnobIsLater, Stamps
  <2>4. WheelTold'
    BY <1>1, <1>2, <1>3, <1>4 DEF WheelInv, WheelTold, Stamps, PatchInv, StampsInOrder
  <2>5. Heir' = Heir
    BY <1>3, <2>1 DEF Heir
  <2>6. WheelIsRef'
    BY <1>3, <2>5 DEF WheelInv, WheelIsRef
  <2>7. QED
    BY <2>2, <2>3, <2>4, <2>6 DEF WheelInv
<1>5. CASE r = Fresh /\ Published
  <2>1. router'.ref = IF route.set = 0 THEN None ELSE route.wreq
    BY <1>1, <1>2, <1>3, <1>5 DEF Stamps
  <2>2. WheelPending'
    BY <1>1, <1>2, <1>3 DEF WheelInv, WheelPending, Stamps
  <2>3. WheelSending'
    BY <1>1, <1>2, <1>3, <2>1 DEF WheelInv, WheelSending, WheelTold, Stamps
  <2>4. WheelTold'
    BY <1>1, <1>2, <1>3, <2>1 DEF WheelInv, WheelTold, Stamps, PatchInv, StampsInOrder
  <2>5. Heir = route.wreq
    BY <1>1, <1>5 DEF Published, Heir, KnobIsLater, WheelInv, WheelTold, Stamps
  <2>6. WheelIsRef'
    BY <1>3, <2>1, <2>5 DEF WheelInv, WheelIsRef, Heir
  <2>7. QED
    BY <2>2, <2>3, <2>4, <2>6 DEF WheelInv
<1>6. QED
  BY <1>4, <1>5

LEMMA WheelInvKeeps ==
  TypeInv /\ PatchInv /\ SetupInv /\ NoTrouble /\ WheelInv /\ [Next]_vars => WheelInv'
<1> SUFFICES ASSUME TypeInv, PatchInv, SetupInv, NoTrouble, WheelInv, [Next]_vars PROVE WheelInv'
  OBVIOUS
<1>1. TodoFacts /\ Stops \subseteq Travel /\ 0 \in Travel /\ None \notin Patches
  BY Todos, Constants DEF TypesConst
<1>2. ASSUME NEW p \in Patches, LoadPatch(p) PROVE WheelInv'
  BY <1>2, WheelInvOfLoad
<1>3. CASE FlipTarget
  <2>1. WheelStill
    BY <1>1, <1>3, FlipSays DEF WheelStill, TodoFacts, ScreenOnly, SameWheel, SameHands, ToReload
  <2>2. QED
    BY <2>1, WheelStillKeeps
<1>4. CASE SetGlobalDefault
  <2>1. WheelStill
    BY <1>1, <1>4, DefaultSays DEF WheelStill, TodoFacts, ScreenOnly, SameWheel, SameHands, ToReload
  <2>2. QED
    BY <2>1, WheelStillKeeps
<1>5. ASSUME NEW e \in Effects, ToggleEffect(e) PROVE WheelInv'
  <2>1. WheelStill
    BY <1>1, <1>5, ToggleSays DEF WheelStill, TodoFacts, ScreenOnly, SameWheel, SameHands, ToReload
  <2>2. QED
    BY <2>1, WheelStillKeeps
<1>6. ASSUME NEW v \in Travel, NEW final \in BOOLEAN, SetDepth(v, final) PROVE WheelInv'
  <2>1. WheelStill
    BY <1>1, <1>6, DepthSays DEF WheelStill, TodoFacts, ScreenOnly, SameWheel, ToReload
  <2>2. QED
    BY <2>1, WheelStillKeeps
<1>7. ASSUME NEW v \in Travel, NEW final \in BOOLEAN, SetPatchMod(v, final) PROVE WheelInv'
  BY <1>7, WheelInvOfPatchMod
<1>8. CASE Release
  <2>1. WheelStill
    BY <1>1, <1>8, ReleaseSays DEF WheelStill, TodoFacts, ScreenOnly, SameWheel, ToReload
  <2>2. QED
    BY <2>1, WheelStillKeeps
<1>9. CASE Loaded
  <2>1. WheelStill
    BY <1>1, <1>9, LoadedSays DEF WheelStill, TodoFacts, SameWheel, SameHands, ToReload
  <2>2. QED
    BY <2>1, WheelStillKeeps
<1>10. CASE Publish
  BY <1>10, WheelInvOfPublish
<1>11. CASE Send
  BY <1>11, WheelInvOfSend
<1>12. CASE Resend
  BY <1>12, WheelInvOfResend
<1>13. ASSUME NEW due \in BOOLEAN, PollLevels(due) PROVE WheelInv'
  <2>1. WheelStill
    BY <1>1, <1>13, PollSays DEF WheelStill, TodoFacts, SameHands, ToReload
  <2>2. QED
    BY <2>1, WheelStillKeeps
<1>14. ASSUME NEW v \in Travel, Knob(v) PROVE WheelInv'
  BY <1>14, WheelInvOfKnob
<1>15. CASE Refresh
  <2>1. Refreshed(router, route.unread) /\ UNCHANGED <<ui, wheel, now>> /\ route.unread \in BOOLEAN
    BY <1>15 DEF Refresh, TypeInv, TypeOK, RouteType
  <2>2. QED
    BY <2>1, WheelInvOfRefreshed
<1>16. CASE Restart
  <2>1. Refreshed(Fresh, TRUE) /\ Published /\ UNCHANGED <<ui, wheel, now>>
    BY <1>16 DEF Restart, NoTrouble
  <2>2. QED
    BY <2>1, WheelInvOfRefreshed
<1>17. CASE UNCHANGED vars
  BY <1>17 DEF vars, WheelInv, WheelPending, WheelSending, WheelTold, WheelIsRef, Heir, KnobIsLater
<1>18. QED
  BY <1>1, <1>2, <1>3, <1>4, <1>5, <1>6, <1>7, <1>8, <1>9, <1>10, <1>11, <1>12, <1>13, <1>14, <1>15,
     <1>16, <1>17 DEF Next, Screen, Busy, Poll

\* The host's depth needs no more than the stamps in order.
LEMMA HostKeeps ==
  TypeInv /\ PatchInv /\ SetupInv /\ HostHasDepth /\ [Next]_vars => HostHasDepth'
<1> SUFFICES ASSUME TypeInv, PatchInv, SetupInv, HostHasDepth, [Next]_vars PROVE HostHasDepth'
  OBVIOUS
<1>1. /\ Stamps /\ Stops \subseteq Travel /\ 0 \in Travel /\ now + 1 # 0 /\ None \notin Patches
      /\ Routed \subseteq Patches
  BY StampsAreTimes, Constants DEF TypeInv, TypesConst, Stamps
<1> DEFINE HostStill == /\ UNCHANGED <<route, router, host>>
                        /\ \/ ui'.mask = ui.mask /\ ui'.asked = ui.asked
                           \/ ui'.asked # 0
<1>2. ASSUME HostStill PROVE HostHasDepth'
  BY <1>2 DEF HostHasDepth
<1>3. ui.patch # None => ui.asked # 0
  BY DEF SetupInv, OwnIsShown
<1>4. ASSUME NEW p \in Patches, LoadPatch(p) PROVE HostHasDepth'
  BY <1>2, <1>4, LoadSays DEF SameSetup, SameDepth
<1>5. CASE FlipTarget
  BY <1>2, <1>5, FlipSays DEF SameDepth, ScreenOnly
<1>6. CASE SetGlobalDefault
  BY <1>2, <1>3, <1>6, DefaultSays DEF SameDepth, ScreenOnly
<1>7. ASSUME NEW e \in Effects, ToggleEffect(e) PROVE HostHasDepth'
  BY <1>2, <1>3, <1>7, ToggleSays DEF SameDepth, ScreenOnly
<1>8. ASSUME NEW v \in Travel, NEW final \in BOOLEAN, SetDepth(v, final) PROVE HostHasDepth'
  BY <1>1, <1>2, <1>8, DepthSays DEF ScreenOnly
<1>9. ASSUME NEW v \in Travel, NEW final \in BOOLEAN, SetPatchMod(v, final) PROVE HostHasDepth'
  BY <1>2, <1>9, PatchModSays DEF SameSetup, SameDepth, ScreenOnly
<1>10. CASE Release
  BY <1>2, <1>10, ReleaseSays DEF SameSetup, SameDepth, ScreenOnly
<1>11. CASE Loaded
  BY <1>1, <1>2, <1>11, LoadedSays
<1>12. CASE Publish
  <2>1. /\ UNCHANGED <<router, host>> /\ route'.mask = ui.mask /\ route'.asked = ui.asked
        /\ ui'.mask = ui.mask /\ ui'.asked = ui.asked
    BY <1>12, PublishSays DEF SameSetup, SameDepth
  <2>2. QED
    BY <2>1 DEF HostHasDepth
<1>13. CASE Send
  BY <1>2, <1>13, SendSays DEF SameSetup, SameDepth
<1>14. CASE Resend
  BY <1>2, <1>14, ResendSays DEF SameSetup, SameDepth, ScreenOnly
<1>15. ASSUME NEW due \in BOOLEAN, PollLevels(due) PROVE HostHasDepth'
  BY <1>2, <1>15, PollSays
<1>16. ASSUME NEW v \in Travel, Knob(v) PROVE HostHasDepth'
  <2>1. /\ UNCHANGED <<ui, route>> /\ router'.mask = router.mask /\ router'.asked = router.asked
        /\ \/ router'.depth = router.depth /\ host' = host
           \/ host' = [mask |-> router.mask, depth |-> router'.depth]
    BY <1>16, KnobSays DEF KnobStill, SaidDepthStill
  <2>2. QED
    BY <2>1 DEF HostHasDepth
<1>17. ASSUME NEW r \in {router, Fresh}, NEW new \in BOOLEAN, Refreshed(r, new),
              (r = router /\ new = route.unread) \/ (r = Fresh /\ new), UNCHANGED <<ui, now>>
       PROVE  HostHasDepth'
  <2>1. r \in RouterType /\ route.req \in Travel
    BY FreshType DEF TypeInv, TypeOK, RouteType
  <2>2. /\ r.asked \in Nat /\ r.asked <= route.asked
        /\ r.depth # None => host.depth = r.depth
        /\ r.mask # {} => r.asked # 0
    BY <1>1 DEF PatchInv, StampsInOrder, Stamps, Fresh, HostHasDepth
  <2>3. now' = now
    BY <1>17
  <2>4. /\ router'.mask = (IF new THEN route.mask ELSE r.mask)
        /\ router'.asked = (IF new THEN route.asked ELSE r.asked)
        /\ \/ router'.asked = r.asked /\ router'.depth = r.depth
           \/ router'.asked # r.asked /\ router'.depth = route.req
        /\ host' = IF router'.depth # None /\ (router'.asked # r.asked \/ router'.mask # r.mask)
                   THEN [mask |-> router'.mask, depth |-> router'.depth] ELSE host
        /\ route'.mask = route.mask /\ route'.asked = route.asked
    BY <1>1, <1>17, <2>1, <2>2, <2>3, RefreshedSays DEF Stamps
  <2>5. router'.depth # None => host'.depth = router'.depth
    BY <2>2, <2>4
  <2>6. QED
    BY <1>17, <2>2, <2>4, <2>5 DEF HostHasDepth
<1>18. CASE Refresh
  <2>1. Refreshed(router, route.unread) /\ UNCHANGED <<ui, now>> /\ route.unread \in BOOLEAN
    BY <1>18 DEF Refresh, TypeInv, TypeOK, RouteType
  <2>2. QED
    BY <1>17, <2>1
<1>19. CASE Restart
  BY <1>17, <1>19 DEF Restart
<1>20. CASE UNCHANGED vars
  BY <1>20 DEF vars, HostHasDepth
<1>21. QED
  BY <1>1, <1>4, <1>5, <1>6, <1>7, <1>8, <1>9, <1>10, <1>11, <1>12, <1>13, <1>14, <1>15,
     <1>16, <1>18, <1>19, <1>20 DEF Next, Screen, Busy, Poll

LEMMA WheelInit == Init => WheelInv /\ HostHasDepth
<1> SUFFICES ASSUME Init PROVE WheelInv /\ HostHasDepth
  OBVIOUS
<1>1. /\ ui.todo = <<>> /\ ui.set = 0 /\ ui.wreq = None /\ ui.mask = {}
      /\ route.set = 0 /\ route.mask = {} /\ route.wreq = None /\ router = Fresh
  BY DEF Init
<1>2. router.depth = None /\ router.mask = {} /\ router.set = 0 /\ router.ref = None
  BY <1>1 DEF Fresh
<1>3. QED
  BY <1>1, <1>2, Todos
     DEF WheelInv, WheelPending, WheelSending, WheelTold, WheelIsRef, Heir, HostHasDepth, TodoFacts

JumpInv == TypeInv /\ PatchInv /\ SetupInv /\ WheelInv /\ HostHasDepth

LEMMA JumpInvAlways == ASSUME NoTrouble PROVE Spec => []JumpInv
<1>1. KnobWaits /\ HandsApart
  BY DEF HandsApart, KnobWaits, NoTrouble
<1>2. JumpInv /\ [Next]_vars => JumpInv'
  <2> SUFFICES ASSUME JumpInv, [Next]_vars PROVE JumpInv'
    OBVIOUS
  <2>1. TypeInv' /\ PatchInv'
    BY <1>1, TypeInvKeeps, PatchInvKeeps DEF JumpInv
  <2>2. SetupInv'
    BY <1>1, SetupInvKeeps DEF JumpInv
  <2>3. WheelInv'
    BY WheelInvKeeps DEF JumpInv
  <2>4. HostHasDepth'
    BY HostKeeps DEF JumpInv
  <2>5. QED
    BY <2>1, <2>2, <2>3, <2>4 DEF JumpInv
<1>3. Init => JumpInv
  BY TypeInit, PatchInvInit, SetupInvInit, WheelInit DEF JumpInv
<1>4. QED
  BY <1>2, <1>3, PTL DEF Spec

\* Only the knob moves the knob; what it does then is the pickup law's.
LEMMA KnobMoves ==
  ASSUME JumpInv, NoTrouble, NEW v \in Travel, Knob(v),
         router.anchor # None, ui.todo = <<>>, ~route.unread
  PROVE  /\ router.ref # None => Toward(router.anchor, router'.anchor, wheel, wheel')
         /\ Toward(router.anchor, router'.anchor, host.depth, host'.depth)
<1>1. /\ Stamps /\ TodoFacts /\ TypeInv /\ TypeOK /\ None \notin Travel /\ Top \in Nat
      /\ Routed \subseteq Patches
  BY StampsAreTimes, Todos, Constants DEF JumpInv, TypeInv, TypesConst, Travel
<1>2. /\ router.anchor \in Travel /\ router.ref \in Travel \cup {None} /\ wheel \in Travel
      /\ router.depth \in Travel \cup {None} /\ host.depth \in Travel
  BY <1>1 DEF TypeOK, RouterType
<1>3. \A x \in Travel : Toward(router.anchor, v, x, x)
  BY <1>1 DEF Toward, Travel
<1>4. /\ router'.anchor = v /\ ui.held # Driven
      /\ \/ wheel' = wheel /\ host' = host
         \/ router.cc1 = "surge" /\ host' = host /\ wheel' = Follow(v, router.ref)
         \/ /\ router.cc1 = "fx" /\ wheel' = wheel /\ router.mask # {}
            /\ router'.depth = Follow(v, router.depth)
            /\ host' = [mask |-> router.mask, depth |-> router'.depth]
  BY <1>1, KnobSays DEF NoTrouble
<1>5. CASE wheel' = wheel /\ host' = host
  BY <1>2, <1>3, <1>4, <1>5
<1>6. CASE router.cc1 = "surge" /\ host' = host /\ wheel' = Follow(v, router.ref)
  <2>1. /\ route.set = ui.set /\ router.set = route.set
        /\ Destination(ui.target, ui.patch) = "surge"
    BY <1>1, <1>4, <1>6
       DEF JumpInv, WheelInv, WheelPending, TodoFacts, Driven, PatchInv, RouteIsRead, RouteIsOfPatch
  <2>2. ui.patch \in Routed \cup {None}
    BY <1>1, <2>1 DEF Destination, TypeOK, UiType
  <2>3. router.ref # None => wheel = router.ref
    BY <1>1, <2>1, <2>2 DEF JumpInv, WheelInv, WheelIsRef, TodoFacts, ToReload, Heir
  <2>4. router.ref # None => wheel' = Scaled(router.anchor, v, wheel)
    BY <1>6, <2>3 DEF Follow
  <2>5. router.ref # None => Toward(router.anchor, v, wheel, wheel')
    BY <1>2, <2>4, ScaledMoves
  <2>6. QED
    BY <1>2, <1>3, <1>4, <1>6, <2>5
<1>7. CASE /\ router.cc1 = "fx" /\ wheel' = wheel /\ router.mask # {}
           /\ router'.depth = Follow(v, router.depth)
           /\ host' = [mask |-> router.mask, depth |-> router'.depth]
  <2>1. router.depth # None /\ host.depth = router.depth
    BY <1>7 DEF JumpInv, HostHasDepth, SetupInv, RouterSays
  <2>2. host'.depth = Scaled(router.anchor, v, host.depth)
    BY <1>7, <2>1 DEF Follow
  <2>3. Toward(router.anchor, v, host.depth, host'.depth)
    BY <1>2, <2>2, ScaledMoves
  <2>4. QED
    BY <1>2, <1>3, <1>4, <1>7, <2>3
<1>8. QED
  BY <1>4, <1>5, <1>6, <1>7

\* With nothing out of the ordinary, a turn of the knob takes what sounds its own way or
\* leaves it, wherever the value was moved to in the meantime.
THEOREM NoJump == ASSUME NoTrouble PROVE Spec => KnobNeverJumps
<1>1. ASSUME JumpInv, [Next]_vars,
             router.anchor # None, router'.anchor \notin {None, router.anchor},
             ui.todo = <<>>, ~route.unread
      PROVE  /\ router.ref # None => Toward(router.anchor, router'.anchor, wheel, wheel')
             /\ Toward(router.anchor, router'.anchor, host.depth, host'.depth)
  <2>1. ASSUME NEW r \in {router, Fresh}, NEW new \in BOOLEAN, Refreshed(r, new), now' = now
        PROVE  router'.anchor \in {None, router.anchor}
    <3>1. TypeInv /\ r \in RouterType
      BY <1>1, FreshType DEF JumpInv, TypeInv, TypeOK
    <3>a. r.anchor \in {None, router.anchor}
      BY DEF Fresh
    <3>2. router'.anchor = r.anchor
      BY <2>1, <3>1, RefreshedSays
    <3>3. QED
      BY <3>a, <3>2
  <2>2. ~Refresh
    BY <1>1, <2>1 DEF Refresh, JumpInv, TypeInv, TypeOK, RouteType
  <2>3. ~Restart
    BY <1>1, <2>1 DEF Restart
  <2>4. ~UNCHANGED router
    BY <1>1
  <2>5. PICK v \in Travel : Knob(v)
    BY <1>1, <2>2, <2>3, <2>4 DEF Next, Screen, Busy, Poll, LoadPatch, FlipTarget, SetGlobalDefault,
       ToggleEffect, SetDepth, SetPatchMod, Release, Loaded, Publish, Send, Resend, PollLevels, vars
  <2>6. QED
    BY <1>1, <2>5, KnobMoves
<1>2. JumpInv /\ [Next]_vars
      => [/\ router.anchor # None /\ router'.anchor \notin {None, router.anchor}
          /\ ui.todo = <<>> /\ ~route.unread
          => /\ router.ref # None => Toward(router.anchor, router'.anchor, wheel, wheel')
             /\ Toward(router.anchor, router'.anchor, host.depth, host'.depth)]_vars
  BY <1>1
<1>3. QED
  BY <1>2, JumpInvAlways, PTL DEF Spec, KnobNeverJumps
==============================================================================
