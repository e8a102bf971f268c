------------------------------ MODULE LivePath ------------------------------
(***************************************************************************)
(* Where the live signal goes.  The synthesiser (Surge) feeds the speakers *)
(* and every loop input, directly or through two optional inserts:         *)
(*                                                                         *)
(*   surge -> [fx] -+-> [mon] -> playback                                  *)
(*                  +-> loop                                               *)
(*                                                                         *)
(* One JACK graph is edited, one connection at a time, by processes that   *)
(* do not know of each other: the wiring thread of each insert             *)
(* (mpe-fx-host.c, mpe-live-monitor.c), the restore script run after an    *)
(* insert has stopped and by the watchdog, and the wiring script run after *)
(* Surge or the looper started.  The scripts act on a listing of the graph *)
(* that may be out of date when their connections are made.                *)
(*                                                                         *)
(* A loop input stands for all of them.  jackd itself stays up: when it    *)
(* goes every client is restarted with it.                                 *)
(***************************************************************************)
EXTENDS Naturals, SequencesExt, FiniteSets

CONSTANTS
  Channels,      \* left and right
  Enabled,       \* the inserts switched on: a subset of {"fx", "mon"}
  Meter,         \* whether the peak meter, a sensor of the watchdog, runs
  MaxFaults,     \* bound: deaths, stops and restarts of clients
  MaxGlitches    \* bound: JACK calls that fail, listings included

ASSUME LivePathAssumption ==
  /\ IsFiniteSet(Channels) /\ Channels # {}
  /\ Channels \subseteq Nat
  /\ Enabled \subseteq {"fx", "mon"}
  /\ Meter \in BOOLEAN
  /\ MaxFaults \in Nat /\ MaxGlitches \in Nat

VARIABLES
  edges,      \* connections <<output, input, channel>> of the JACK graph
  up,         \* the clients whose ports are on the graph
  life,       \* each insert: off, on, leaving (SIGTERM seen) or stopped
  wanted,     \* the inserts the operator wants running
  todo,       \* each insert: the calls left of its current wiring pass
  detached,   \* g_direct_detached of the monitor
  clean,      \* no call of the monitor's current restore or detach failed
  file,       \* live-monitor.state: what the monitor last claimed
  script,     \* each script: Idle, or what it read and has left to do
  due,        \* starts (of surge, of the looper) not yet followed by wiring
  faults, glitches,   \* used up so far; some may be from the start
  missed      \* history: a call of a restore script failed for good, or Surge
              \* started over loops it does not reach and nobody could tell

vars == <<edges, up, life, wanted, todo, detached, clean, file, script, due,
          faults, glitches, missed>>

Inserts == {"fx", "mon"}
Clients == {"surge", "looper"} \cup Inserts
Outputs == {"surge", "fx", "mon"}
Inputs  == {"fx", "mon", "loop", "playback"}
Edge    == Outputs \X Inputs \X Channels
Idle    == [running |-> FALSE, plan |-> {}, failed |-> FALSE, carried |-> FALSE]
\* A monitor state file that is not there claims nothing either.
NoClaim == [carrying |-> FALSE, detached |-> FALSE]

\* restore-direct-monitor-path.sh runs when an insert has stopped and when the
\* watchdog finds no live path; wire-jack-graph.sh after surge or the looper
\* started.  A script is named for what it is run by.
Restores == {"fx", "mon", "watchdog"}
Rewires  == {"surge", "looper"}
Scripts  == Restores \cup Rewires

Owner(port)   == IF port = "loop" THEN "looper" ELSE port
Present(port) == port = "playback" \/ Owner(port) \in up
Touches(e, c) == e[1] = c \/ Owner(e[2]) = c

-----------------------------------------------------------------------------
(* The routing authority (audio_routing.py) on a graph g: a set of edges.   *)
(* The native clients and the meter carry copies of these rules.            *)

TrunkCarries(g) == \A ch \in Channels : <<"surge", "fx", ch>> \in g
FanoutSource(g) == IF TrunkCarries(g) THEN "fx" ELSE "surge"
OtherTrunk(s)   == IF s = "surge" THEN "fx" ELSE "surge"

MonitorInputLive(g) == \A ch \in Channels : <<FanoutSource(g), "mon", ch>> \in g
MonitorCarries(g) ==
  MonitorInputLive(g) /\ \A ch \in Channels : <<"mon", "playback", ch>> \in g

\* How many routes carry Surge's channel into an input.
Direct(g, d, ch)  == IF <<"surge", d, ch>> \in g THEN 1 ELSE 0
ThroughFx(g, d, ch) == IF <<"fx", d, ch>> \in g THEN Direct(g, "fx", ch) ELSE 0
IntoMon(g, ch)    == Direct(g, "mon", ch) + ThroughFx(g, "mon", ch)
Paths(g, d, ch) ==
  Direct(g, d, ch) + ThroughFx(g, d, ch)
    + (IF <<"mon", d, ch>> \in g THEN IntoMon(g, ch) ELSE 0)

LivePathWired(g) ==
  \/ \A ch \in Channels : <<FanoutSource(g), "playback", ch>> \in g
  \/ MonitorCarries(g)
RecordPathOk(g) == \A ch \in Channels : Paths(g, "loop", ch) >= 1

\* Mutant of Destinations: the loop inputs are left to the looper.
DestinationsHeard(g, clients) ==
  {<<"playback", ch>> : ch \in IF MonitorCarries(g) THEN {} ELSE Channels}

\* The destinations the fan-out owns, and the edges to add so that each is
\* reached.  A listing that failed is an empty graph: everything is wanted.
Destinations(g, clients) ==
  {<<"loop", ch>> : ch \in IF "looper" \in clients THEN Channels ELSE {}}
    \cup {<<"playback", ch>> : ch \in IF MonitorCarries(g) THEN {} ELSE Channels}
Plan(g, clients) ==
  {<<FanoutSource(g), d[1], d[2]>> :
     d \in {c \in Destinations(g, clients) : Paths(g, c[1], c[2]) = 0}}

-----------------------------------------------------------------------------
(* Calls to JACK, for a set of edges at a time: the calls that do the same  *)
(* on each channel are one step, but each may fail on its own while         *)
(* glitches are left.  A connection to a port that is not there fails.      *)

\* Use up a glitch for each of a set of failures.
Spend(bad) == /\ glitches + Cardinality(bad) <= MaxGlitches
              /\ glitches' = glitches + Cardinality(bad)

Possible(es) == {e \in es : Present(e[1]) /\ Present(e[2])}

\* Connect those of es that are absent; bad of them fail.
Connect(es, bad) ==
  /\ bad \subseteq Possible(es) \ edges
  /\ edges' = edges \cup (Possible(es) \ bad)
  /\ Spend(bad)
AllIn(es, bad) == es \subseteq edges \cup (Possible(es) \ bad)

\* Disconnect those of es that are there; bad of them stay.
Cut(es, bad) ==
  /\ bad \subseteq es \cap edges
  /\ edges' = edges \ (es \ bad)
  /\ Spend(bad)

-----------------------------------------------------------------------------
(* The inserts.  A pass is a sequence of operations; an operation that      *)
(* decides puts what it decided on in front of what is left.                *)

Op(do, out, in) == [do |-> do, out |-> out, in |-> in, chs |-> Channels]
Do(do) == Op(do, "fx", "fx")
\* An operation that feeds from the fan-out source looks it up when it is run.
EdgesOf(op) ==
  LET out == IF op.out = "source" THEN FanoutSource(edges) ELSE op.out
  IN  {<<out, op.in, ch>> : ch \in op.chs}

\* mpe-fx-host: feed our input, then take the fan-out or give it back.
FxPass == <<Op("connect", "surge", "fx"), Do("decide")>>
FxTake == <<Op("move", "fx", "mon"), Do("takeAll")>>
FxTakeAll(monitorCarries) ==
  <<Op("move", "fx", "loop"), Op("move", "fx", "mon"),
    IF monitorCarries THEN Op("cut", "surge", "playback")
                      ELSE Op("move", "fx", "playback")>>
FxGiveBack == <<Do("giveBack")>>
MovesBack ==
  LET Fed(d) == {ch \in Channels : <<"fx", d, ch>> \in edges}
  IN  SetToSeq({[Op("move", "surge", d) EXCEPT !.chs = Fed(d)] :
                  d \in {in \in Inputs : Fed(in) # {}}})
FxLeave == FxGiveBack \o <<Op("cut", "surge", "fx"), Do("exit")>>

\* mpe-live-monitor: follow the fan-out source, then judge our two legs.
MonPass == <<Op("follow", "source", "mon"), Op("connect", "mon", "playback"), Do("judge")>>
MonRestore == IF detached THEN <<Op("restore", "source", "playback"), Do("restored")>>
                          ELSE <<Do("write")>>
\* Mutant of MonDetach: the flag stands for the graph, and nothing is cut twice.
MonDetachOnce == IF detached THEN <<Do("write")>>
                 ELSE <<Op("detach", "surge", "playback"),
                        Op("detach", "fx", "playback"), Do("detached")>>
MonDetach  == <<Op("detach", "surge", "playback"), Op("detach", "fx", "playback"),
                Do("detached")>>
MonLeave   == MonRestore \o <<Do("exit")>>

Pass(i)  == IF i = "fx" THEN FxPass ELSE MonPass
Leave(i) == IF i = "fx" THEN FxLeave ELSE MonLeave

-----------------------------------------------------------------------------
\* The graph as it stands when all is quiet and these inserts are wanted.
Settled(ins) ==
  LET source == IF "fx" \in ins THEN "fx" ELSE "surge"
      last   == IF "mon" \in ins THEN "mon" ELSE source
  IN  {"surge"} \X (ins \cap {"fx"}) \X Channels
        \cup {source} \X ({"loop"} \cup (ins \cap {"mon"})) \X Channels
        \cup {last} \X {"playback"} \X Channels

Init ==
  /\ wanted \in SUBSET Enabled
  /\ up = {"surge", "looper"} \cup wanted
  /\ edges = Settled(wanted)
  /\ life = [i \in Inserts |-> IF i \in wanted THEN "on" ELSE "off"]
  /\ todo = [i \in Inserts |-> <<>>]
  /\ detached = ("mon" \in wanted) /\ clean = TRUE
  /\ file = [carrying |-> detached, detached |-> detached]
  /\ script = [r \in Scripts |-> Idle]
  /\ due = {}
  /\ faults \in 0..MaxFaults /\ glitches \in 0..MaxGlitches
  /\ missed = FALSE

\* What an insert does next: what its pass has left, else a new pass, which
\* begins every two seconds at the latest, or after SIGTERM the hand-over.
Ahead(i) == CASE todo[i] # <<>>         -> todo[i]
              [] life[i] = "on"         -> Pass(i)
              [] life[i] = "leaving"    -> Leave(i)
              [] OTHER                  -> <<Do("nothing")>>
Now(i) == Head(Ahead(i))
Then(i, ops) == todo' = [todo EXCEPT ![i] = ops \o Tail(Ahead(i))]

\* One operation on the graph.
Operate(i) ==
  /\ LET op == Now(i)
         es == EdgesOf(op)
     IN \E bad \in SUBSET es :
        \/ /\ op.do = "connect" /\ Connect(es, bad)
           /\ Then(i, <<>>) /\ UNCHANGED clean
        \/ /\ op.do = "cut" /\ Cut(es, bad)
           /\ Then(i, <<>>) /\ UNCHANGED clean
        \/ \* move_edge: make, then break; a destination that is absent, or
           \* that could not be connected, keeps what it has
           /\ op.do = "move" /\ Present(op.in) /\ Connect(es, bad)
           /\ Then(i, <<[Op("cut", OtherTrunk(op.out), op.in) EXCEPT
                           !.chs = {ch \in @ : AllIn({<<op.out, op.in, ch>>}, bad)}]>>)
           /\ UNCHANGED clean
        \/ /\ op.do = "move" /\ ~Present(op.in) /\ bad = {}
           /\ Then(i, <<>>) /\ UNCHANGED <<edges, glitches, clean>>
        \/ /\ op.do = "follow" /\ Connect(es, bad)
           /\ Then(i, <<Op("cut", OtherTrunk(FanoutSource(edges)), "mon")>>)
           /\ UNCHANGED clean
        \/ /\ op.do = "restore" /\ Connect(es, bad)
           /\ clean' = AllIn(es, bad)
           /\ Then(i, <<>>)
        \/ /\ op.do = "detach" /\ Cut(es, bad)
           /\ clean' = (clean /\ bad = {})
           /\ Then(i, <<>>)
  /\ UNCHANGED <<up, life, wanted, detached, file, script, due, faults, missed>>

\* What a pass decides from the graph as it stands, and what it notes down.
Decide(i) ==
  /\ LET op == Now(i)
     IN \/ /\ op.do = "decide"
           /\ Then(i, IF TrunkCarries(edges) THEN FxTake ELSE FxGiveBack)
           /\ UNCHANGED <<detached, clean, file>>
        \/ /\ op.do = "takeAll"
           /\ Then(i, FxTakeAll(MonitorCarries(edges)))
           /\ UNCHANGED <<detached, clean, file>>
        \/ /\ op.do = "giveBack"
           /\ Then(i, IF "surge" \in up
                      THEN MovesBack ELSE <<>>)
           /\ UNCHANGED <<detached, clean, file>>
        \/ /\ op.do = "judge"
           /\ Then(i, CASE ~MonitorInputLive(edges) -> MonRestore
                        [] MonitorCarries(edges)    -> MonDetach
                        [] OTHER                    -> <<Do("write")>>)
           /\ UNCHANGED <<detached, clean, file>>
        \/ \* the flag follows only a restore or a detach that worked out
           /\ op.do \in {"restored", "detached", "write"}
           /\ detached' = CASE op.do = "restored" -> detached /\ ~clean
                            [] op.do = "detached" -> detached \/ clean
                            [] OTHER              -> detached
           /\ clean' = TRUE
           /\ file' = [carrying |-> life[i] = "on" /\ MonitorCarries(edges),
                       detached |-> detached']
           /\ Then(i, <<>>)
  /\ UNCHANGED <<edges, up, life, wanted, script, due, faults, glitches, missed>>

\* A client leaves the graph and its connections go with it.
Drop(c) == /\ up' = up \ {c}
           /\ edges' = {e \in edges : ~Touches(e, c)}

Exit(i) ==
  /\ Now(i).do = "exit"
  /\ Drop(i)
  /\ life' = [life EXCEPT ![i] = "stopped"]
  /\ todo' = [todo EXCEPT ![i] = <<>>]
  /\ UNCHANGED <<wanted, detached, clean, file, script, due, faults, glitches, missed>>

\* systemd starts an insert that is wanted once its ExecStopPost is over.
Start(i) ==
  /\ i \in wanted /\ life[i] = "off"
  /\ up' = up \cup {i}
  /\ life' = [life EXCEPT ![i] = "on"]
  /\ detached' = (detached /\ i # "mon")
  /\ UNCHANGED <<edges, wanted, todo, clean, file, script, due, faults, glitches, missed>>

-----------------------------------------------------------------------------
(* The scripts: list the graph, ask the authority, make its connections.    *)

\* The watchdog's sensor: the meter where it runs, else the monitor's file,
\* which stands still once the monitor is gone.
LivePathLost ==
  IF Meter THEN ~LivePathWired(edges) /\ "looper" \in up
  ELSE /\ "mon" \in Enabled /\ file.detached
       /\ "mon" \in up => ~file.carrying

MayBegin(r) ==
  CASE r \in Inserts    -> life[r] = "stopped"
    [] r = "watchdog"   -> LivePathLost
    [] r = "surge"      -> r \in due /\ "surge" \in up
    [] r = "looper"     -> r \in due /\ "looper" \in up

\* After a start of Surge the record path is asked about first, with a listing of
\* its own.  One that failed shows no looper, and none to feed is nothing to do.
NothingToDo(heard) == ~heard \/ "looper" \notin up \/ RecordPathOk(edges)

\* There is nothing to do for this start of Surge; it is not asked about again.
PassOver ==
  /\ ~script["surge"].running /\ MayBegin("surge")
  /\ \E heard \in BOOLEAN :
       /\ NothingToDo(heard)
       /\ Spend(IF heard THEN {} ELSE {"surge"})
       /\ missed' = (missed \/ ~NothingToDo(TRUE))
  /\ due' = due \ {"surge"}
  /\ UNCHANGED <<edges, up, life, wanted, todo, detached, clean, file, script, faults>>

BeginScript(r) ==
  /\ ~script[r].running /\ MayBegin(r)
  /\ r = "surge" => ~NothingToDo(TRUE)
  /\ \E listed \in BOOLEAN :
       LET g == IF listed THEN edges ELSE {}
           clients == IF listed THEN up ELSE {"looper"}
       IN /\ Spend(IF listed THEN {} ELSE {r})
          /\ script' = [script EXCEPT ![r] =
               [running |-> TRUE, failed |-> FALSE, plan |-> Plan(g, clients),
                carried |-> r \in Restores /\ MonitorCarries(g)]]
  /\ due' = due \ {r}
  /\ UNCHANGED <<edges, up, life, wanted, todo, detached, clean, file, faults, missed>>

\* The loop inputs come before playback.  With the last connection the run is
\* over: a restore script that could connect everything says in the monitor's
\* name that playback is direct, unless the monitor carries; a wiring script
\* that could not is run again by its caller.
RunScript(r) ==
  LET plan == script[r].plan
      es == {e \in plan : e[2] = "loop" \/ \A f \in plan : f[2] # "loop"}
  IN /\ script[r].running
     /\ \E bad \in SUBSET es :
          LET failed == script[r].failed \/ ~AllIn(es, bad)
              over   == plan = es
          IN /\ Connect(es, bad)
             /\ script' = [script EXCEPT ![r] =
                  IF over THEN Idle
                  ELSE [@ EXCEPT !.plan = plan \ es, !.failed = failed]]
             /\ missed' = (missed \/ (r \in Restores /\ bad # {}))
             /\ life' = [i \in Inserts |-> IF over /\ i = r THEN "off" ELSE life[i]]
             /\ file' = IF over /\ r \in Restores /\ ~failed /\ ~script[r].carried
                        THEN NoClaim ELSE file
             /\ due' = IF over /\ r \in Rewires /\ failed THEN due \cup {r} ELSE due
     /\ UNCHANGED <<up, wanted, todo, detached, clean, faults>>

-----------------------------------------------------------------------------
(* What happens to the clients.                                             *)

Fault == faults < MaxFaults /\ faults' = faults + 1

Crash(i) ==
  /\ life[i] \in {"on", "leaving"} /\ Fault
  /\ Drop(i)
  /\ life' = [life EXCEPT ![i] = "stopped"]
  /\ todo' = [todo EXCEPT ![i] = <<>>]
  /\ UNCHANGED <<wanted, detached, clean, file, script, due, glitches, missed>>

SwitchOff(i) ==
  /\ i \in wanted /\ Fault
  /\ wanted' = wanted \ {i}
  /\ life' = [life EXCEPT ![i] = IF @ = "on" THEN "leaving" ELSE @]
  /\ UNCHANGED <<edges, up, todo, detached, clean, file, script, due, glitches, missed>>

SwitchOn(i) ==
  /\ i \in Enabled \ wanted /\ Fault
  /\ wanted' = wanted \cup {i}
  /\ UNCHANGED <<edges, up, life, todo, detached, clean, file, script, due, glitches, missed>>

Die(c) ==
  /\ c \in up \ Inserts /\ Fault
  /\ Drop(c)
  /\ UNCHANGED <<life, wanted, todo, detached, clean, file, script, due, glitches, missed>>

\* Surge connects itself to playback when it opens its device.
Return(c) ==
  /\ c \in {"surge", "looper"} \ up
  /\ up' = up \cup {c}
  /\ edges' = edges \cup {<<c, "playback", ch>> : ch \in IF c = "surge" THEN Channels ELSE {}}
  /\ due' = due \cup {c}
  /\ UNCHANGED <<life, wanted, todo, detached, clean, file, script, faults, glitches, missed>>

Wiring(i) == Operate(i) \/ Decide(i) \/ Exit(i) \/ Start(i)
Scripting(r) == BeginScript(r) \/ RunScript(r) \/ (r = "surge" /\ PassOver)
Faulty == \/ \E i \in Inserts : Crash(i) \/ SwitchOff(i) \/ SwitchOn(i)
          \/ \E c \in Clients : Die(c)

Next == \/ \E i \in Inserts : Wiring(i)
        \/ \E r \in Scripts : Scripting(r)
        \/ \E c \in Clients : Return(c)
        \/ Faulty

\* Wiring threads wake at least every two seconds, systemd restarts what
\* failed, and a script, once due, runs to its end.
Fairness == /\ \A i \in Inserts : WF_vars(Wiring(i))
            /\ WF_vars(\E r \in Scripts \ {"watchdog"} : Scripting(r))
            /\ WF_vars(Scripting("watchdog"))
            /\ WF_vars(\E c \in Clients : Return(c))

Spec == Init /\ [][Next]_vars /\ Fairness

-----------------------------------------------------------------------------
\* The state variables have their types, and a connection has both its ends.
TypeOK ==
  /\ edges \subseteq Edge /\ up \subseteq Clients
  /\ \A e \in edges : Present(e[1]) /\ Present(e[2])
  /\ life \in [Inserts -> {"off", "on", "leaving", "stopped"}]
  /\ wanted \subseteq Enabled
  /\ detached \in BOOLEAN /\ clean \in BOOLEAN /\ missed \in BOOLEAN
  /\ file \in [carrying : BOOLEAN, detached : BOOLEAN]
  /\ due \subseteq Rewires
  /\ faults \in 0..MaxFaults /\ glitches \in 0..MaxGlitches

Once(d) == \A ch \in Channels : Paths(edges, d, ch) = 1

\* However clients crash, leave and return, in whatever order the wiring
\* threads and the scripts interleave and whichever calls fail, the player
\* ends up hearing every channel of the instrument once: never silent for
\* good, never doubled for good.
LivePathHeals == <>[]Once("playback")

\* And the loops end up recording it once, unless it was missed: a restore script gave up
\* on a connection, or the record check after a start of Surge could not list the graph
\* while Surge reached no loop.  Nothing looks after the loop inputs behind these: exit 2
\* of the check is taken for "no looper to reach" (audio-engine.sh:1234), and the pads
\* record silence until Surge or the looper starts again.
RecordPathHeals == <>[](missed \/ Once("loop"))
=============================================================================
