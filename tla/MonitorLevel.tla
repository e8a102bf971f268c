---------------------------- MODULE MonitorLevel ----------------------------
(***************************************************************************)
(* How loud the player hears himself (live_monitor.py, with the parts of   *)
(* the bench that call it): at the level of the track he is playing into,  *)
(* else at the live level.  The policy is told what the engine captures by *)
(* reports, asks about a capture it has heard nothing of for a while, and  *)
(* sends the level to the gain stage (mpe-live-monitor.c) when it moved.   *)
(*                                                                         *)
(* Each report is handled by a thread of its own beside the main loop;     *)
(* each of them computes a level under one lock and sends it under         *)
(* another.  Reports are taken up in the order they were sent.             *)
(*                                                                         *)
(* Init, Next and the like carry the monitor's name, so that one module    *)
(* can reason about the two halves of the live signal (LivePath_proofs).   *)
(***************************************************************************)
EXTENDS Naturals, SequencesExt, FiniteSets

CONSTANTS
  Loops,       \* loop numbers
  Handlers,    \* threads that handle reports
  Levels,      \* levels a track may play at
  Unity,       \* full level: of a track and of the gain stage when they start,
               \* and the live level
  Attempts,    \* VERIFY_ATTEMPTS
  MaxTakes,    \* bound: takes begun
  MaxMoves,    \* bound: fader moves
  MaxLosses    \* bound: reports of an end, questions and answers lost, deaths of
               \* the engine and of the gain stage

ASSUME MonitorAssumption ==
  /\ IsFiniteSet(Loops) /\ IsFiniteSet(Handlers) /\ "main" \notin Handlers
  /\ Levels \subseteq Nat /\ Unity \in Levels
  /\ Attempts \in Nat \ {0}
  /\ {MaxTakes, MaxMoves, MaxLosses} \subseteq Nat

VARIABLES
  open,       \* the engine's captures, in the order they were opened
  running,    \* whether the engine is there
  reports,    \* on their way to the bench
  questions,  \* loops asked about, on their way to the engine
  level,      \* what LoopMix.wet_for says of each loop
  known,      \* _capturing, in the order of arrival
  asked,      \* questions put about a loop since it was last heard of
  thread,     \* each thread: idle, or with a level to send
  last,       \* _last: the level thought to be in force
  error,      \* an error the socket holds back for the next send
  stage,      \* the gain stage: whether it is there, and its level
  ignored,    \* history: losses about a loop since it was last heard of
  dropped,    \* history: an open capture was given up
  reused,     \* history: a take began in a loop held to be open, beside another
  stale,      \* history: the gain stage was away, and was sent nothing since
  used        \* takes, moves and faults so far

monitorVars ==
  <<open, running, reports, questions, level, known, asked, thread, last, error, stage,
    ignored, dropped, reused, stale, used>>
engine  == <<open, running>>
policy  == <<known, asked>>
gain    == <<last, error, stage>>
history == <<dropped, reused, stale>>

Threads == {"main"} \cup Handlers
Report  == [loop : Loops, capturing : BOOLEAN, answer : BOOLEAN]
Budget  == [takes |-> MaxTakes, moves |-> MaxMoves, faults |-> MaxLosses]
Use(what) == used[what] < Budget[what] /\ used' = [used EXCEPT ![what] = @ + 1]

Resting == [busy |-> FALSE, amp |-> Unity]

\* What is left of a list of loops when some of them go: the others, in their order.
Precedes(s, a, b) == \E i, j \in DOMAIN s : i < j /\ s[i] = a /\ s[j] = b
Without(s, gone) ==
  {q \in UNION {[1..n -> Loops] : n \in 0..Cardinality(Loops)} :
     /\ IsInjective(q) /\ Range(q) = Range(s) \ gone
     /\ \A a, b \in Range(q) : Precedes(q, a, b) => Precedes(s, a, b)}

MonitorInit ==
  /\ open = <<>> /\ running = TRUE /\ reports = <<>> /\ questions = {}
  /\ level = [l \in Loops |-> Unity]
  /\ known = <<>> /\ asked = [l \in Loops |-> 0]
  /\ thread = [t \in Threads |-> Resting]
  /\ last = Unity /\ error = FALSE
  /\ stage = [up |-> TRUE, amp |-> Unity]
  /\ ignored = [l \in Loops |-> 0]
  /\ dropped = FALSE /\ reused = FALSE /\ stale = FALSE
  /\ used = [what \in DOMAIN Budget |-> 0]

-----------------------------------------------------------------------------
(* The engine.                                                              *)

Say(l, capturing, answer) ==
  reports' = Append(reports, [loop |-> l, capturing |-> capturing, answer |-> answer])

OpenTake(l) ==
  /\ running /\ ~Contains(open, l) /\ Use("takes")
  /\ open' = Append(open, l) /\ Say(l, TRUE, FALSE)
  /\ reused' = (reused \/ (Contains(known, l) /\ open # <<>>))
  /\ UNCHANGED <<running, questions, level, policy, thread, gain, ignored, dropped, stale>>

CloseTake(l) ==
  /\ Contains(open, l)
  /\ open' \in Without(open, {l})
  /\ \/ Say(l, FALSE, FALSE) /\ UNCHANGED used
     \/ Use("faults") /\ UNCHANGED reports
  /\ UNCHANGED <<running, questions, level, policy, thread, gain, ignored, history>>

\* The question and its answer are datagrams, and each may be lost.
Answer(l) ==
  /\ l \in questions /\ questions' = questions \ {l}
  /\ \/ running /\ Say(l, Contains(open, l), TRUE) /\ UNCHANGED <<used, ignored>>
     \/ running /\ Use("faults") /\ ignored' = [ignored EXCEPT ![l] = @ + 1] /\ UNCHANGED reports
     \/ ~running /\ UNCHANGED <<used, ignored, reports>>
  /\ UNCHANGED <<engine, level, policy, thread, gain, history>>

EngineDies ==
  /\ running /\ Use("faults")
  /\ running' = FALSE /\ open' = <<>>
  /\ UNCHANGED <<reports, questions, level, policy, thread, gain, ignored, history>>

EngineReturns ==
  /\ ~running /\ running' = TRUE
  /\ UNCHANGED <<open, reports, questions, level, policy, thread, gain, ignored, history, used>>

-----------------------------------------------------------------------------
(* The policy.                                                              *)

\* An answer comes in time, or never: when none is under way, time is up.
TimedOut(l, qs) == l \notin qs /\ ~\E n \in 1..Len(reports) : reports[n].loop = l

\* Mutant of GivenUp: one unanswered question short.
GivenUpEarly(as, qs) == {l \in Loops : as[l] + 1 >= Attempts /\ TimedOut(l, qs)}

\* target_amp: captures that no question could confirm are dropped first.
GivenUp(as, qs) == {l \in Loops : as[l] >= Attempts /\ TimedOut(l, qs)}
Target(loops, lv) == IF loops = <<>> THEN Unity ELSE lv[Last(loops)]

\* push_monitor up to the send, by thread t that knows these captures, has heard the
\* end of some, and has asked about each so often, by questions qs.
Compute(t, captures, ended, as, qs) ==
  LET gone == GivenUp(as, qs)
  IN  /\ known' \in Without(captures, ended \cup gone)
      /\ asked' = [l \in Loops |-> IF l \in gone THEN 0 ELSE as[l]]
      /\ questions' = qs
      /\ dropped' = (dropped \/ \E l \in gone : Contains(open, l))
      /\ thread' = [thread EXCEPT ![t] = [busy |-> TRUE, amp |-> Target(known', level')]]

\* note_state, by a thread that goes on to push_monitor.
TakeReport(t) ==
  /\ t \in Handlers /\ ~thread[t].busy /\ reports # <<>>
  /\ UNCHANGED level
  /\ LET r == Head(reports)
         l == r.loop
     IN /\ Compute(t, IF r.capturing /\ ~Contains(known, l) THEN Append(known, l) ELSE known,
                   IF r.capturing THEN {} ELSE {l}, [asked EXCEPT ![l] = 0], questions)
        /\ ignored' = [ignored EXCEPT ![l] = 0]
  /\ reports' = Tail(reports)
  /\ UNCHANGED <<engine, gain, reused, stale, used>>

\* Mutants of MayAsk: a question is put once; or once more than it counts.
AskOnce(l) == Contains(known, l) /\ asked[l] = 0
AskTooOften(l) ==
  Contains(known, l) /\ (asked[l] = 0 \/ (asked[l] <= Attempts /\ TimedOut(l, questions)))

\* needs_verification: a capture not heard of for a while, or an answer overdue.
MayAsk(l) ==
  Contains(known, l) /\ (asked[l] = 0 \/ (asked[l] < Attempts /\ TimedOut(l, questions)))

\* poll_monitor_capture, in the main loop's idle branch.
Ask(l) ==
  /\ ~thread["main"].busy /\ MayAsk(l) /\ UNCHANGED level
  /\ Compute("main", known, {}, [asked EXCEPT ![l] = @ + 1], questions \cup {l})
  /\ UNCHANGED <<engine, reports, gain, ignored, reused, stale, used>>
Poll ==
  /\ ~thread["main"].busy /\ UNCHANGED level
  /\ Compute("main", known, {}, asked, questions)
  /\ UNCHANGED <<engine, reports, gain, ignored, reused, stale, used>>

\* A fader move changes a level and pushes.
MoveFader(l, amp) ==
  /\ ~thread["main"].busy /\ Use("moves")
  /\ level' = [level EXCEPT ![l] = amp]
  /\ Compute("main", known, {}, asked, questions)
  /\ UNCHANGED <<engine, reports, gain, ignored, reused, stale>>

\* LiveMonitorSender.send: what has not moved is not sent.  The error that the
\* first datagram to an absent gain stage provokes is met by the next one.
Push(amp) ==
  \/ /\ amp = last /\ UNCHANGED gain
  \/ /\ amp # last /\ error
     /\ error' = FALSE /\ UNCHANGED <<last, stage>>
  \/ /\ amp # last /\ ~error
     /\ last' = amp
     /\ stage' = IF stage.up THEN [stage EXCEPT !.amp = amp] ELSE stage
     /\ error' = ~stage.up

Send(t) ==
  /\ thread[t].busy
  /\ Push(thread[t].amp)
  /\ stale' = (stale /\ ~(stage.up /\ last' # last))
  /\ thread' = [thread EXCEPT ![t] = Resting]
  /\ UNCHANGED <<engine, reports, questions, level, policy, ignored, dropped, reused, used>>

-----------------------------------------------------------------------------
(* The gain stage.                                                          *)

StageDies ==
  /\ stage.up /\ Use("faults")
  /\ stage' = [stage EXCEPT !.up = FALSE] /\ stale' = TRUE
  /\ UNCHANGED <<engine, reports, questions, level, policy, thread, last, error, ignored,
                 dropped, reused>>
StageStarts ==
  /\ ~stage.up
  /\ stage' = [up |-> TRUE, amp |-> Unity]
  /\ UNCHANGED <<engine, reports, questions, level, policy, thread, last, error, ignored,
                 history, used>>

-----------------------------------------------------------------------------
Main == \/ Poll \/ Send("main")
        \/ \E l \in Loops : Ask(l)
Handle(t) == TakeReport(t) \/ Send(t)
World == \/ \E l \in Loops : OpenTake(l) \/ CloseTake(l) \/ \E amp \in Levels : MoveFader(l, amp)
         \/ EngineDies \/ EngineReturns \/ StageDies \/ StageStarts
MonitorNext ==
  \/ Main \/ World
  \/ \E t \in Handlers : Handle(t)
  \/ \E l \in Loops : Answer(l)

\* The main loop goes round and asks when the time has come; a question is
\* dealt with, a report handled, the gain stage restarted.
MonitorFairness ==
  /\ WF_monitorVars(Main) /\ \A l \in Loops : SF_monitorVars(Ask(l)) /\ WF_monitorVars(Answer(l))
  /\ \A t \in Handlers : WF_monitorVars(Handle(t))
  /\ WF_monitorVars(StageStarts)

MonitorSpec == MonitorInit /\ [][MonitorNext]_monitorVars /\ MonitorFairness

-----------------------------------------------------------------------------
\* The state variables have their types; no loop is known or open twice.
MonitorTypeOK ==
  /\ IsInjective(open) /\ open \in Seq(Loops) /\ running \in BOOLEAN
  /\ reports \in Seq(Report) /\ questions \subseteq Loops
  /\ level \in [Loops -> Levels]
  /\ IsInjective(known) /\ known \in Seq(Loops) /\ asked \in [Loops -> 0..Attempts]
  /\ thread \in [Threads -> [busy : BOOLEAN, amp : Levels]]
  /\ last \in Levels /\ error \in BOOLEAN /\ stage \in [up : BOOLEAN, amp : Levels]
  /\ ignored \in [Loops -> Nat]
  /\ {dropped, reused, stale} \subseteq BOOLEAN
  /\ \A what \in DOMAIN Budget : used[what] \in 0..Budget[what]

\* An open take that the bench knows of loses its level only after as many
\* questions as it takes went unanswered: silence alone ends nothing.
KnownCaptureKept ==
  [][\A l \in Loops : Contains(open, l) /\ Contains(known, l) /\ ~Contains(known', l)
       => \/ ignored[l] >= Attempts
          \/ reports # <<>> /\ Head(reports).loop = l /\ reports' = Tail(reports)]_monitorVars

\* When the hands come to rest the player ends up hearing himself at the level
\* of the take opened last, or at the live level when none is open, however the
\* threads interleave and although the end of a take, the engine, a question or
\* an answer may be lost.  Left out: a take given up as above, one begun in a
\* loop whose last end was lost while another is open, and a gain stage that
\* was restarted and sent no level since.
MonitorFollows ==
  <>[](stage.amp = Target(open, level) \/ dropped \/ reused \/ stale)
=============================================================================
