---------------------------- MODULE ChatTurnsProofs ----------------------------
(***************************************************************************)
(* Safety of a chat's turns for every number of turns, replays, lives and  *)
(* stops.  One inductive invariant, IInv, carries all of it.  Its Shape    *)
(* says what the variables have to do with one another: the order of what  *)
(* waits, what _in_flight names, and how the runs of a turn are counted.   *)
(* The other conjuncts say for every point of a turn's way through _drain  *)
(* who answers for its record, for what it holds and for its marks, so     *)
(* that the one place where each of them ends can be named.                *)
(***************************************************************************)
EXTENDS ChatTurns, SequenceTheorems, TLAPS

\* What waits for the drain task, and the turn it is about to give to an agent.
Starting == stage \in {"starting", "reporting"}
Waiting == Queued \union resuming \union (IF Starting THEN {turn} ELSE {})

\* Ids grow with acceptance, and what was not accepted has no history.
Fresh ==
  /\ 1..accepted \subseteq Turns
  /\ \A t \in Turns : t > accepted =>
       t \notin Pending \union parked /\ starts[t] = 0 /\ tried[t] = Never /\ marks[t] = {}

\* The turn in hand, then the queue, then what the resume has yet to queue: in the order
\* of acceptance.
Increasing == \A i, k \in 1..Len(queue) : i < k => queue[i] < queue[k]
InOrder ==
  /\ Increasing
  /\ \A t \in Queued \union resuming : turn < t /\ t <= accepted
  /\ \A t \in Queued, u \in resuming : t < u
  /\ turn <= accepted
  /\ phase \notin {"offering", "replaying"} => resuming = {}
  /\ phase \in {"down", "offering"} => queue = <<>> /\ stage = "none"

\* _in_flight names the turn from the agent's start to the turn's finally.
InFlightNamed ==
  inFlight = IF stage \in {"running", "replying", "replied", "noticing"} THEN turn ELSE NoTurn

\* A turn has run once for each replay counted in its record, and once more if its turn
\* came in this life.
RunsCounted ==
  /\ RunsBounded
  /\ \A t \in Pending : journal[t].replays <= MaxReplays /\ starts[t] <= journal[t].replays + 1
  /\ \A t \in Waiting : t \in Pending /\ starts[t] <= journal[t].replays

\* A first attempt is dated by its dispatch.
FirstIsDated ==
  /\ \A t \in Pending :
       journal[t].replays = 0 /\ tried[t] # Never => journal[t].at = tried[t]
  /\ \A t \in Waiting :
       journal[t].replays = 0 => journal[t].phase = "queued" \/ (t = turn /\ stage = "reporting")

\* Why a record that is about to go, or has gone, may go.
ReasonKnown ==
  /\ NothingOwedIsForgottenUnlessMuted
  /\ stage = "replied" => "answered" \in marks[turn]
  /\ stage = "parking" => turn \in parked

\* A turn that the task is done with has no record, or is one that a $stop found early.
RecordsInHand ==
  /\ phase \notin {"down", "stopping"} =>
       \A t \in Pending : t \in Queued \union resuming \union {turn} \/ Has(t, {"early"})
  /\ stage \in {"refusing", "retiring"} => turn \notin Pending
  /\ stage \in {"closing", "completing"} /\ ending = "ok" => turn \notin Pending
  /\ phase # "stopping" /\ (cancelled \/ ending = "cancel") =>
       turn \notin Pending \/ Has(turn, {"early"})

HeldInHand ==
  \A t \in held :
    \/ Has(t, {"unclosed"})
    \/ t = turn /\ stage \in {"running", "replying", "replied", "noticing", "closing"}

\* A turn that is over has no record left, but for the gaps that are named and the stretch
\* in which its record is about to go.
OverIsForgotten ==
  /\ \A t \in Pending : Has(t, {"stopped"}) => Has(t, {"early"})
  /\ \A t \in Pending :
       Has(t, {"answered"}) => Has(t, {"cut"}) \/ (t = turn /\ stage \in {"replied", "noticing"})
  /\ \A t \in Pending \intersect parked :
       \/ Has(t, {"split"})
       \/ t = turn /\ stage = "parking"
       \/ phase = "down" /\ t \in Parkable

Shape == TypeOK /\ Fresh /\ InOrder /\ InFlightNamed /\ RunsCounted
IInv == Shape /\ FirstIsDated /\ ReasonKnown /\ RecordsInHand /\ HeldInHand /\ OverIsForgotten
-----------------------------------------------------------------------------
(* The queue as a set.                                                     *)

\* Append puts the turn behind all that wait.
LEMMA QueueGrows ==
  ASSUME queue \in Seq(Turns), NEW t \in Turns, queue' = Append(queue, t)
  PROVE  /\ queue' \in Seq(Turns)
         /\ Queued' = Queued \union {t}
         /\ Len(queue') = Len(queue) + 1 /\ queue'[Len(queue) + 1] = t
         /\ \A i \in 1..Len(queue) : queue'[i] = queue[i]
  <1>1. /\ queue' \in Seq(Turns) /\ Len(queue') = Len(queue) + 1
        /\ queue'[Len(queue) + 1] = t
        /\ \A i \in 1..Len(queue) : queue'[i] = queue[i]
    BY AppendProperties
  <1>2. Len(queue) \in Nat /\ DOMAIN queue = 1..Len(queue) /\ DOMAIN queue' = 1..Len(queue')
    BY <1>1
  <1>3. 1..Len(queue') = 1..Len(queue) \union {Len(queue) + 1}
    BY <1>1, <1>2
  <1>4. QED
    BY <1>1, <1>2, <1>3 DEF Queued, Range

\* The head leaves, and what is left waits behind it.
LEMMA QueueShrinks ==
  ASSUME queue \in Seq(Turns), queue # <<>>, queue' = Tail(queue),
         Increasing
  PROVE  /\ Head(queue) \in Queued /\ queue' \in Seq(Turns)
         /\ Queued' = Queued \ {Head(queue)}
         /\ \A t \in Queued' : Head(queue) < t
         /\ Increasing'
  <1>1. /\ queue' \in Seq(Turns) /\ Len(queue') = Len(queue) - 1
        /\ \A i \in 1..Len(queue') : queue'[i] = queue[i + 1]
    BY HeadTailProperties
  <1>2. /\ Len(queue) \in Nat \ {0} /\ Head(queue) = queue[1]
        /\ DOMAIN queue = 1..Len(queue) /\ DOMAIN queue' = 1..Len(queue')
        /\ \A i \in 1..Len(queue) : queue[i] \in Turns
    BY EmptySeq
  <1>3. Head(queue) \in Queued
    BY <1>2 DEF Queued, Range
  <1>4. \A t \in Queued' : t \in Queued /\ Head(queue) < t
    <2> SUFFICES ASSUME NEW i \in 1..Len(queue') 
                 PROVE  queue'[i] \in Queued /\ Head(queue) < queue'[i]
      BY <1>2 DEF Queued, Range
    <2> USE DEF Increasing
    <2>1. i + 1 \in 1..Len(queue) /\ 1 \in 1..Len(queue) /\ 1 < i + 1 /\ queue'[i] = queue[i + 1]
      BY <1>1, <1>2
    <2>2. QED
      BY <2>1, <1>2 DEF Queued, Range
  <1>5. \A t \in Queued : t = Head(queue) \/ t \in Queued'
    <2> SUFFICES ASSUME NEW k \in 1..Len(queue), k # 1 PROVE queue[k] \in Queued'
      BY <1>2 DEF Queued, Range
    <2>1. k - 1 \in 1..Len(queue') /\ queue'[k - 1] = queue[k]
      BY <1>1, <1>2
    <2>2. QED
      BY <2>1, <1>2 DEF Queued, Range
  <1>6. \A t \in Queued' : t # Head(queue)
    <2>1. Head(queue) \in Nat
      BY HeadTailProperties, JournalAssumption
    <2>2. QED
      BY <2>1, <1>4
  <1>7. ASSUME NEW i \in 1..Len(queue'), NEW k \in 1..Len(queue'), i < k
        PROVE  queue'[i] < queue'[k]
    <2>1. i + 1 \in 1..Len(queue) /\ k + 1 \in 1..Len(queue) /\ i + 1 < k + 1
      BY <1>1, <1>2, <1>7
    <2>2. QED
      BY <2>1, <1>1 DEF Increasing
  <1>8. QED
    BY <1>1, <1>3, <1>4, <1>5, <1>6, <1>7 DEF Increasing

-----------------------------------------------------------------------------
(* Types.                                                                  *)

USE JournalAssumption, ChatAssumption

Typed == TypeOK /\ InFlightNamed

LEMMA TypedInit == Init => Typed
  <1>1. <<>> \in Seq(Turns)
    OBVIOUS
  <1>2. Init => JournalTypeOK
    BY DEF Init, JournalInit, JournalTypeOK, Entries, Blank
  <1>4. Init => TypeOK
    <2> SUFFICES ASSUME Init PROVE TypeOK
      OBVIOUS
    <2>1. phase \in Phases /\ resuming \subseteq Turns /\ queue \in Seq(Turns) /\ stage \in Stages
      BY <1>1 DEF Init, Phases, Stages
    <2>2. /\ turn \in Turns \union {NoTurn} /\ inFlight \in {turn, NoTurn} /\ cancelled \in BOOLEAN
          /\ (cancelled => stage # "none")
          /\ ending \in {"ok", "cancel", "error", "oserror"} /\ held \subseteq Turns
          /\ (turn = NoTurn) <=> (stage \in {"none", "created"})
      BY DEF Init
    <2>3. lives \in 0..MaxLives /\ stops \in 0..MaxStops /\ accepted \in Nat
      BY DEF Init
    <2>4. /\ starts \in [Turns -> Nat] /\ tried \in [Turns -> Nat \union {Never}]
          /\ marks \in [Turns -> SUBSET Marks]
      BY DEF Init
    <2>5. QED
      BY <1>2, <2>1, <2>2, <2>3, <2>4 DEF TypeOK
  <1>3. QED
    BY <1>4 DEF Init, Typed, InFlightNamed, NoTurn

\* The journal's operations keep the journal's type.
LEMMA JournalTyped ==
  ASSUME JournalTypeOK,
         \/ \E t \in Turns : Record(t) \/ MarkDispatched(t) \/ Park(t)
         \/ \E S : Forget(S)
         \/ Take \/ TakeCut \/ Tick \/ UNCHANGED journalVars
  PROVE  JournalTypeOK'
  <1> USE DEF JournalTypeOK, Entries, Blank
  <1>1. ASSUME NEW t \in Turns, Record(t) PROVE JournalTypeOK'
    BY <1>1 DEF Record
  <1>5. ASSUME NEW t \in Turns, MarkDispatched(t) PROVE JournalTypeOK'
    <2>1. journal[t] \in Entries
      OBVIOUS
    <2>2. [journal[t] EXCEPT !.phase = "dispatched", !.at = clock] \in Entries
      BY <2>1
    <2>3. QED
      BY <1>5, <2>1, <2>2 DEF MarkDispatched
  <1>6. ASSUME NEW t \in Turns, Park(t) PROVE JournalTypeOK'
    BY <1>6 DEF Park
  <1>2. CASE \E S : Forget(S)
    BY <1>2 DEF Forget
  <1>3. CASE Take
    BY <1>3 DEF Take, Parkable, Pending
  <1>4. CASE TakeCut
    BY <1>4 DEF TakeCut, Parkable, Pending
  <1>7. CASE Tick
    BY <1>7 DEF Tick
  <1>8. CASE UNCHANGED journalVars
    BY <1>8 DEF journalVars
  <1>9. QED
    BY <1>1, <1>2, <1>3, <1>4, <1>5, <1>6, <1>7, <1>8

\* What _drain takes is a turn that waited; without one the task ends.
LEMMA NextTurnTyped ==
  ASSUME TypeOK, InFlightNamed, stage \in {"created", "completing", "retiring"}, NextTurn
  PROVE  /\ queue' \in Seq(Turns) /\ inFlight' = NoTurn /\ ending' = "ok"
         /\ \/ stage' = "none" /\ turn' = NoTurn
            \/ stage' = "starting" /\ turn' \in Turns
  <1>1. queue \in Seq(Turns)
    BY DEF TypeOK
  <1>2. queue # <<>> => Head(queue) \in Turns /\ Tail(queue) \in Seq(Turns)
    BY <1>1, HeadTailProperties
  <1>3. QED
    BY <1>1, <1>2 DEF NextTurn, InFlightNamed

LEMMA MarkTyped ==
  ASSUME marks \in [Turns -> SUBSET Marks], NEW m \in Marks, NEW S, Marked(S, m)
  PROVE  marks' \in [Turns -> SUBSET Marks]
  BY DEF Marked

LEMMA TypedStep == Typed /\ [Next]_vars => Typed'
  <1> SUFFICES ASSUME TypeOK, InFlightNamed, [Next]_vars PROVE TypeOK' /\ InFlightNamed'
    BY DEF Typed
  <1> USE DEF TypeOK, InFlightNamed, NoTurn, Stages, Phases
  <1>1. CASE Begin \/ Retired
    <2>1. JournalTypeOK'
      BY <1>1, JournalTyped DEF Begin, Retired
    <2>2. NextTurn /\ stage \in {"created", "retiring"} /\ ~cancelled
      BY <1>1 DEF Begin, Retired, Awake
    <2>3. /\ queue' \in Seq(Turns) /\ inFlight' = NoTurn
          /\ \/ stage' = "none" /\ turn' = NoTurn
             \/ stage' = "starting" /\ turn' \in Turns
      BY <2>2, NextTurnTyped
    <2>4. QED
      BY <1>1, <2>1, <2>2, <2>3 DEF Begin, Retired, NextTurn, daemonVars, historyVars
  <1>2. CASE StartFails \/ AgentAnswers \/ AgentFails \/ ReplyRaises
    <2>1. JournalTypeOK'
      BY <1>2, JournalTyped DEF StartFails, AgentAnswers, AgentFails, ReplyRaises
    <2>2. QED
      BY <1>2, <2>1 DEF StartFails, AgentAnswers, AgentFails, ReplyRaises, Awake, Goto, daemonVars,
         historyVars
  <1>3. CASE Refuse
    <2>1. JournalTypeOK'
      BY <1>3, JournalTyped DEF Refuse, Misread
    <2>2. QED
      BY <1>3, <2>1 DEF Refuse, Misread, Awake, Goto, daemonVars, historyVars
  <1>4. CASE RefusalSent \/ RefusalRaises
    <2>1. JournalTypeOK'
      BY <1>4, JournalTyped DEF RefusalSent, RefusalRaises
    <2>2. marks' \in [Turns -> SUBSET Marks]
      BY <1>4, MarkTyped DEF RefusalSent, RefusalRaises, Marks
    <2>3. QED
      BY <1>4, <2>1, <2>2 DEF RefusalSent, RefusalRaises, Awake, Goto, daemonVars
  <1>5. CASE Dispatch \/ Reported
    <2>1. turn \in Turns /\ starts[turn] \in Nat /\ clock \in Nat
      BY <1>5 DEF Dispatch, Reported, Awake, JournalTypeOK
    <2>2. JournalTypeOK'
      BY <1>5, <2>1, JournalTyped DEF Dispatch, Reported
    <2>3. tried' \in [Turns -> Nat \union {Never}]
      BY <1>5, <2>1 DEF Dispatch, Reported
    <2>4. starts' \in [Turns -> Nat]
      BY <1>5, <2>1 DEF Dispatch, Reported, Launch
    <2>5. QED
      BY <1>5, <2>1, <2>2, <2>3, <2>4 DEF Dispatch, Reported, Awake, Launch, Goto, daemonVars
  <1>6. CASE ReplyLands
    <2>1. JournalTypeOK'
      BY <1>6, JournalTyped DEF ReplyLands
    <2>2. QED
      BY <1>6, <2>1 DEF ReplyLands, Goto, Marked, Marks, daemonVars
  <1>7. CASE ReplyReturns \/ NoticeSent \/ NoticeRaises
    <2>1. JournalTypeOK'
      BY <1>7, JournalTyped DEF ReplyReturns, NoticeSent, NoticeRaises
    <2>2. marks' \in [Turns -> SUBSET Marks]
      BY <1>7, MarkTyped DEF ReplyReturns, NoticeSent, NoticeRaises, Marks, historyVars
    <2>3. QED
      BY <1>7, <2>1, <2>2 DEF ReplyReturns, NoticeSent, NoticeRaises, Awake, Finally, daemonVars,
         historyVars
  <1>8. CASE Close
    <2>1. JournalTypeOK'
      BY <1>8, JournalTyped DEF Close
    <2>2. QED
      BY <1>8, <2>1 DEF Close, Awake, daemonVars, historyVars
  <1>9. CASE CloseRaises
    <2>1. JournalTypeOK'
      BY <1>9, JournalTyped DEF CloseRaises, Misread
    <2>2. QED
      BY <1>9, <2>1 DEF CloseRaises, Misread, Awake, Goto, Marked, Marks, daemonVars
  <1>10. ASSUME NEW how, Complete(how) PROVE TypeOK' /\ InFlightNamed'
    <2>1. stage = "completing" /\ ~cancelled /\ turn \in Turns
      BY <1>10 DEF Complete, Awake
    <2>2. JournalTypeOK'
      BY <1>10, <2>1, JournalTyped DEF Complete
    <2>3. CASE NextTurn
      <3>1. /\ queue' \in Seq(Turns) /\ inFlight' = NoTurn
            /\ \/ stage' = "none" /\ turn' = NoTurn
               \/ stage' = "starting" /\ turn' \in Turns
        BY <2>1, <2>3, NextTurnTyped
      <3>2. QED
        BY <1>10, <2>1, <2>2, <2>3, <3>1 DEF Complete, NextTurn, daemonVars, historyVars
    <2>4. CASE TaskEnds /\ UNCHANGED cancelled
      BY <1>10, <2>1, <2>2, <2>4 DEF Complete, TaskEnds, daemonVars, historyVars
    <2>5. CASE Goto("parking", "error")
      BY <1>10, <2>1, <2>2, <2>5 DEF Complete, Goto, daemonVars, historyVars
    <2>6. QED
      BY <1>10, <2>3, <2>4, <2>5 DEF Complete
  <1>11. CASE ForgetParked
    <2>1. JournalTypeOK'
      BY <1>11, JournalTyped DEF ForgetParked
    <2>2. QED
      BY <1>11, <2>1 DEF ForgetParked, daemonVars, historyVars
  <1>12. CASE CancelRun \/ CancelNotice
    <2>1. JournalTypeOK'
      BY <1>12, JournalTyped DEF CancelRun, CancelNotice
    <2>2. marks' \in [Turns -> SUBSET Marks]
      BY <1>12, MarkTyped DEF CancelRun, CancelNotice, Marks
    <2>3. QED
      BY <1>12, <2>1, <2>2 DEF CancelRun, CancelNotice, Finally, daemonVars
  <1>13. CASE CancelOutside
    <2>1. JournalTypeOK'
      BY <1>13, JournalTyped DEF CancelOutside
    <2>2. marks' \in [Turns -> SUBSET Marks]
      BY <1>13 DEF CancelOutside, Marks
    <2>3. QED
      BY <1>13, <2>1, <2>2 DEF CancelOutside, daemonVars
  <1>14. CASE CancelDrain
    <2>1. JournalTypeOK'
      BY <1>14, JournalTyped DEF CancelDrain
    <2>2. QED
      BY <1>14, <2>1 DEF CancelDrain, TaskEnds, daemonVars, historyVars
  <1>15. CASE Boot
    <2>1. JournalTypeOK'
      BY <1>15, JournalTyped DEF Boot
    <2>2. UNCHANGED <<taskVars, stops, historyVars>> /\ lives' \in 0..MaxLives
      BY <1>15 DEF Boot
    <2>3. Replayable \subseteq Turns
      BY DEF Replayable, Pending
    <2>4. phase' \in Phases /\ resuming' \subseteq Turns
      BY <1>15, <2>3 DEF Boot, Phases
    <2>5. QED
      BY <2>1, <2>2, <2>4 DEF taskVars, historyVars
  <1>16. CASE Offered \/ Listen \/ BeginShutdown \/ Shutdown
    <2>1. JournalTypeOK'
      BY <1>16, JournalTyped DEF Offered, Listen, BeginShutdown, Shutdown
    <2>2. CASE Shutdown
      BY <2>1, <2>2 DEF Shutdown, historyVars
    <2>3. CASE Offered \/ Listen \/ BeginShutdown
      <3>1. /\ phase' \in Phases
            /\ UNCHANGED <<taskVars, resuming, lives, stops, historyVars>>
        BY <2>3 DEF Offered, Listen, BeginShutdown
      <3>2. QED
        BY <2>1, <3>1 DEF taskVars, historyVars
    <2>4. QED
      BY <1>16, <2>2, <2>3
  <1>17. CASE Exit \/ Kill
    <2>1. JournalTypeOK'
      BY <1>17, JournalTyped DEF Exit, Kill
    <2>2. <<>> \in Seq(Turns)
      OBVIOUS
    <2>3. marks' \in [Turns -> SUBSET Marks]
      <3>1. CASE Exit
        BY <3>1 DEF Exit, historyVars
      <3>2. CASE Kill
        BY <3>2 DEF Kill, Marks
      <3>3. QED
        BY <1>17, <3>1, <3>2
    <2>4. QED
      BY <1>17, <2>1, <2>2, <2>3 DEF Exit, Kill, ProcessGone, historyVars
  <1>18. ASSUME NEW t \in Turns, Requeue(t) PROVE TypeOK' /\ InFlightNamed'
    <2>1. JournalTypeOK'
      BY <1>18, JournalTyped DEF Requeue
    <2>2. queue' \in Seq(Turns)
      BY <1>18, QueueGrows DEF Requeue, Enqueue
    <2>3. QED
      BY <1>18, <2>1, <2>2 DEF Requeue, Enqueue, historyVars
  <1>19. ASSUME NEW t \in Turns, Accept(t) PROVE TypeOK' /\ InFlightNamed'
    <2>1. JournalTypeOK'
      BY <1>19, JournalTyped DEF Accept
    <2>2. queue' \in Seq(Turns)
      BY <1>19, QueueGrows DEF Accept, Enqueue
    <2>3. marks' \in [Turns -> SUBSET Marks]
      BY <1>19 DEF Accept, Marked, Marks
    <2>4. QED
      BY <1>19, <2>1, <2>2, <2>3 DEF Accept, Enqueue, daemonVars
  <1>20. CASE Stop
    <2>1. JournalTypeOK'
      BY <1>20, JournalTyped DEF Stop
    <2>2. <<>> \in Seq(Turns)
      OBVIOUS
    <2>3. marks' \in [Turns -> SUBSET Marks]
      BY <1>20 DEF Stop, Marks
    <2>4. QED
      BY <1>20, <2>1, <2>2, <2>3 DEF Stop
  <1>21. CASE TimePasses \/ UNCHANGED vars
    <2>1. JournalTypeOK'
      BY <1>21, JournalTyped DEF TimePasses, vars
    <2>2. CASE UNCHANGED <<taskVars, daemonVars, historyVars>>
      BY <2>1, <2>2 DEF taskVars, daemonVars, historyVars
    <2>3. QED
      BY <1>21, <2>2 DEF TimePasses, vars
  <1>22. QED
    BY <1>1, <1>2, <1>3, <1>4, <1>5, <1>6, <1>7, <1>8, <1>9, <1>10, <1>11, <1>12, <1>13, <1>14,
       <1>15, <1>16, <1>17, <1>18, <1>19, <1>20, <1>21
       DEF Next, Drain, Daemon, Completes, CompleteRaises
-----------------------------------------------------------------------------
(* The kinds of steps, by what they do to the queue and the turn in hand.  *)

\* The task goes on with the turn in hand.
GoesOn ==
  \/ StartFails \/ Refuse \/ RefusalSent \/ RefusalRaises
  \/ Dispatch \/ Reported \/ AgentAnswers \/ AgentFails
  \/ ReplyLands \/ ReplyReturns \/ ReplyRaises \/ NoticeSent \/ NoticeRaises
  \/ Close \/ CloseRaises \/ ForgetParked
  \/ CancelRun \/ CancelNotice \/ CancelOutside

\* The task is done with its turn and takes up the next one.
TakesUp ==
  /\ NextTurn /\ ~cancelled
  /\ \/ stage \in {"created", "retiring"}
     \/ stage = "completing" /\ (ending = "ok" \/ turn \notin Pending)
  /\ UNCHANGED <<journalVars, daemonVars, historyVars>>

\* A cancellation ends the task.
Quits ==
  /\ TaskEnds /\ ~cancelled'
  /\ \/ cancelled /\ stage \in {"created", "completing", "retiring"}
     \/ stage = "completing" /\ ending = "cancel"
  /\ UNCHANGED <<journalVars, daemonVars, historyVars>>

\* The turn failed and is held for its author.
ParksIt ==
  /\ stage = "completing" /\ ~cancelled /\ turn \in Pending
  /\ Park(turn) /\ Goto("parking", "error")
  /\ UNCHANGED <<daemonVars, historyVars>>

PhaseMoves == Offered \/ Listen \/ BeginShutdown \/ Shutdown
Vanishes == Exit \/ Kill
Idles == TimePasses \/ UNCHANGED vars

LEMMA StepKinds ==
  [Next]_vars =>
    \/ GoesOn \/ TakesUp \/ Quits \/ ParksIt
    \/ Boot \/ PhaseMoves \/ Vanishes \/ (\E t \in Turns : Requeue(t))
    \/ (\E t \in Turns : Accept(t)) \/ Stop \/ Idles
  <1> SUFFICES ASSUME [Next]_vars
               PROVE  \/ GoesOn \/ TakesUp \/ Quits \/ ParksIt
                      \/ Boot \/ PhaseMoves \/ Vanishes \/ (\E t \in Turns : Requeue(t))
                      \/ (\E t \in Turns : Accept(t)) \/ Stop \/ Idles
    OBVIOUS
  <1>1. CASE Begin \/ Retired
    BY <1>1 DEF Begin, Retired, Awake, TakesUp
  <1>2. CASE Completes
    BY <1>2 DEF Completes, Complete, Awake, TakesUp, Quits, ParksIt
  <1>3. CASE CompleteRaises
    BY <1>3 DEF CompleteRaises, Complete, Awake, TakesUp, Quits, ParksIt
  <1>4. CASE CancelDrain
    BY <1>4 DEF CancelDrain, Quits
  <1>5. QED
    BY <1>1, <1>2, <1>3, <1>4 DEF Next, Drain, Daemon, GoesOn, PhaseMoves, Vanishes, Idles

LEMMA GoesOnStays ==
  GoesOn => stage # "none" /\ stage' # "none" /\ UNCHANGED <<queue, turn, daemonVars, accepted>>
  BY DEF GoesOn, StartFails, Refuse, RefusalSent, RefusalRaises, Dispatch, Reported, AgentAnswers,
     AgentFails, ReplyLands, ReplyReturns, ReplyRaises, NoticeSent, NoticeRaises, Close,
     CloseRaises, ForgetParked, CancelRun, CancelNotice, CancelOutside, Awake, Goto, Misread,
     Launch, Finally, historyVars
-----------------------------------------------------------------------------
(* What the operations do to the queue and to the journal.                 *)

LEMMA NextTurnTakes ==
  ASSUME queue \in Seq(Turns), Increasing, NextTurn
  PROVE  /\ Increasing' /\ ending' = "ok" /\ UNCHANGED <<inFlight, cancelled, held>>
         /\ \/ stage' = "none" /\ turn' = NoTurn /\ Queued = {} /\ Queued' = {}
            \/ /\ stage' = "starting" /\ turn' \in Queued /\ Queued' = Queued \ {turn'}
               /\ \A t \in Queued' : turn' < t
  <1>1. CASE queue = <<>>
    BY <1>1 DEF NextTurn, Queued, Range, Increasing
  <1>2. CASE queue # <<>>
    BY <1>2, QueueShrinks DEF NextTurn
  <1>3. QED
    BY <1>1, <1>2

LEMMA EnqueuePuts ==
  ASSUME queue \in Seq(Turns), Increasing, NEW t \in Turns, Enqueue(t), \A u \in Queued : u < t
  PROVE  /\ Increasing' /\ Queued' = Queued \union {t}
         /\ stage' = IF stage = "none" THEN "created" ELSE stage
  <1>1. /\ queue' \in Seq(Turns) /\ Queued' = Queued \union {t}
        /\ Len(queue') = Len(queue) + 1 /\ queue'[Len(queue) + 1] = t
        /\ \A i \in 1..Len(queue) : queue'[i] = queue[i]
    BY QueueGrows DEF Enqueue
  <1>2. Len(queue) \in Nat /\ DOMAIN queue = 1..Len(queue)
    OBVIOUS
  <1>3. ASSUME NEW i \in 1..Len(queue'), NEW k \in 1..Len(queue'), i < k
        PROVE  queue'[i] < queue'[k]
    <2>1. i \in 1..Len(queue) /\ (k \in 1..Len(queue) \/ k = Len(queue) + 1)
      BY <1>1, <1>2, <1>3
    <2>2. queue[i] \in Queued /\ queue'[i] = queue[i]
      BY <1>1, <1>2, <2>1 DEF Queued, Range
    <2>3. QED
      BY <1>1, <1>3, <2>1, <2>2 DEF Increasing
  <1>4. QED
    BY <1>1, <1>3 DEF Enqueue, Increasing

LEMMA QueueKept == UNCHANGED queue => Queued' = Queued /\ (Increasing => Increasing')
  BY DEF Queued, Increasing

LEMMA QueuedTurns == queue \in Seq(Turns) => Queued \subseteq Turns
  BY DEF Queued, Range

LEMMA QueueEmpty ==
  /\ queue = <<>> => Queued = {}
  /\ queue' = <<>> => Queued' = {} /\ Increasing'
  BY DEF Queued, Range, Increasing

LEMMA JournalKept == UNCHANGED journal => Pending' = Pending
  BY DEF Pending

LEMMA RecordAdds ==
  ASSUME JournalTypeOK, NEW t \in Turns, Record(t)
  PROVE  Pending' = Pending \union {t} /\ UNCHANGED <<parked, clock>>
  BY DEF Record, Pending, JournalTypeOK

LEMMA MarkKeeps ==
  ASSUME JournalTypeOK, NEW t \in Turns, MarkDispatched(t)
  PROVE  /\ Pending' = Pending /\ UNCHANGED <<parked, clock>>
         /\ \A u \in Turns : journal'[u].replays = journal[u].replays
         /\ \A u \in Turns : u # t => journal'[u] = journal[u]
         /\ journal[t].phase = "queued" => journal'[t].at = clock
  <1>1. journal[t] \in Entries
    BY DEF JournalTypeOK
  <1>2. /\ journal'[t] = IF journal[t].phase = "queued"
                         THEN [journal[t] EXCEPT !.phase = "dispatched", !.at = clock]
                         ELSE journal[t]
        /\ \A u \in Turns : u # t => journal'[u] = journal[u]
    BY DEF MarkDispatched, JournalTypeOK
  <1>3. /\ journal'[t].replays = journal[t].replays
        /\ journal[t].phase = "queued" =>
             journal'[t].at = clock /\ journal'[t].phase = "dispatched"
        /\ journal[t].phase # "queued" => journal'[t] = journal[t]
    BY <1>1, <1>2 DEF Entries
  <1>4. Pending' = Pending
    BY <1>2, <1>3 DEF Pending
  <1>5. QED
    BY <1>2, <1>3, <1>4 DEF MarkDispatched

LEMMA ForgetDrops ==
  ASSUME NEW S, Forget(S)
  PROVE  /\ Pending' = Pending \ S /\ UNCHANGED <<parked, clock>>
         /\ \A u \in Pending' : journal'[u] = journal[u]
  BY DEF Forget, Pending, Blank

LEMMA TakeReplays ==
  ASSUME JournalTypeOK, Take
  PROVE  /\ Pending' = Replayable /\ parked' = parked \union Parkable /\ UNCHANGED clock
         /\ \A u \in Pending' : journal'[u].replays = journal[u].replays + 1
  <1>1. /\ \A u \in Parkable : journal'[u].phase = "absent"
        /\ \A u \in Turns \ Pending : journal'[u] = journal[u]
        /\ \A u \in Replayable : journal'[u] = [journal[u] EXCEPT !.replays = @ + 1]
    BY DEF Take, Parkable, Pending, Replayable, Blank
  <1>2. \A u \in Replayable : /\ journal'[u].phase = journal[u].phase
                              /\ journal'[u].replays = journal[u].replays + 1
    <2> SUFFICES ASSUME NEW u \in Replayable
                 PROVE  /\ journal'[u].phase = journal[u].phase
                        /\ journal'[u].replays = journal[u].replays + 1
      OBVIOUS
    <2>1. journal[u] \in Entries
      BY DEF JournalTypeOK, Replayable, Pending
    <2>2. QED
      BY <1>1, <2>1 DEF Entries
  <1>3. Pending' = Replayable
    BY <1>1, <1>2 DEF Pending, Replayable, Parkable
  <1>4. QED
    BY <1>2, <1>3 DEF Take
-----------------------------------------------------------------------------
(* Order: what is taken up was accepted before all that waits.             *)

LEMMA OrderInit == Init => Fresh /\ InOrder
  BY QueueEmpty DEF Init, Fresh, InOrder, Increasing, JournalInit, Pending, Blank, NoTurn

LEMMA OrderStep == Typed /\ Fresh /\ InOrder /\ [Next]_vars => InOrder'
  <1> SUFFICES ASSUME TypeOK, Fresh, InOrder, [Next]_vars PROVE InOrder'
    BY DEF Typed
  <1>a. /\ queue \in Seq(Turns) /\ accepted \in Nat /\ turn \in Turns \union {0}
        /\ resuming \subseteq Turns /\ Queued \subseteq Turns /\ Turns \subseteq Nat \ {0}
        /\ (turn = 0) <=> (stage \in {"none", "created"})
    BY QueuedTurns, JournalAssumption DEF TypeOK, NoTurn
  <1>b. Increasing
    BY DEF InOrder
  <1>1. CASE TakesUp
    <2>1. /\ Increasing'
          /\ \/ stage' = "none" /\ turn' = NoTurn /\ Queued = {} /\ Queued' = {}
             \/ /\ stage' = "starting" /\ turn' \in Queued /\ Queued' = Queued \ {turn'}
                /\ \A t \in Queued' : turn' < t
      BY <1>a, <1>b, <1>1, NextTurnTakes DEF TakesUp
    <2>2. UNCHANGED <<phase, resuming, accepted>>
      BY <1>1 DEF TakesUp, daemonVars, historyVars
    <2>3. phase \notin {"down", "offering"}
      BY <1>1 DEF TakesUp, InOrder
    <2>4. CASE turn' = NoTurn /\ Queued' = {}
      <3>1. turn' = 0 /\ 0 <= accepted /\ \A t \in resuming : 0 < t /\ t <= accepted
        BY <1>a, <2>4 DEF NoTurn, InOrder
      <3>2. QED
        BY <2>1, <2>2, <2>3, <2>4, <3>1 DEF InOrder
    <2>5. CASE turn' \in Queued /\ Queued' = Queued \ {turn'} /\ \A t \in Queued' : turn' < t
      BY <1>a, <2>1, <2>2, <2>3, <2>5 DEF InOrder
    <2>6. QED
      BY <2>1, <2>4, <2>5
  <1>2. CASE GoesOn \/ ParksIt
    <2>1. stage # "none" /\ UNCHANGED <<queue, turn, phase, resuming, accepted>>
      BY <1>2, GoesOnStays DEF ParksIt, Goto, daemonVars, historyVars
    <2>2. QED
      BY <1>b, <2>1, QueueKept DEF InOrder
  <1>3. CASE Quits
    <2>1. Queued' = Queued /\ Increasing' /\ turn' = 0 /\ stage # "none"
      BY <1>b, <1>3, QueueKept DEF Quits, TaskEnds, NoTurn
    <2>2. UNCHANGED <<phase, resuming, accepted>>
      BY <1>3 DEF Quits, daemonVars, historyVars
    <2>3. QED
      BY <1>a, <2>1, <2>2 DEF InOrder
  <1>4. CASE Boot
    <2>1. /\ Queued' = Queued /\ Increasing' /\ UNCHANGED <<queue, stage, turn, accepted>>
          /\ queue = <<>> /\ Queued = {} /\ turn = 0
      BY <1>a, <1>b, <1>4, QueueKept, QueueEmpty DEF Boot, taskVars, historyVars, InOrder
    <2>2. \A t \in Replayable : t \in Turns /\ t <= accepted
      BY <1>a DEF Fresh, Replayable, Pending
    <2>3. \/ phase' = "offering" /\ resuming' = Replayable
          \/ UNCHANGED <<phase, resuming>>
      BY <1>4 DEF Boot
    <2>4. CASE phase' = "offering" /\ resuming' = Replayable
      BY <1>a, <1>4, <2>1, <2>2, <2>4 DEF InOrder, Boot
    <2>5. CASE UNCHANGED <<phase, resuming>>
      BY <1>a, <1>4, <2>1, <2>5 DEF InOrder, Boot
    <2>6. QED
      BY <2>3, <2>4, <2>5
  <1>5. CASE PhaseMoves
    <2>1. UNCHANGED <<queue, stage, turn, accepted, resuming>>
      BY <1>5 DEF PhaseMoves, Offered, Listen, BeginShutdown, Shutdown, taskVars, historyVars
    <2>2. /\ Queued' = Queued /\ Increasing'
      BY <1>b, <2>1, QueueKept
    <2>3. QED
      BY <1>5, <2>1, <2>2 DEF InOrder, PhaseMoves, Offered, Listen, BeginShutdown, Shutdown
  <1>6. CASE Vanishes
    BY <1>a, <1>6, QueueEmpty DEF Vanishes, Exit, Kill, ProcessGone, historyVars, InOrder, NoTurn
  <1>7. ASSUME NEW t \in Turns, Requeue(t) PROVE InOrder'
    <2>1. \A u \in Queued : u < t
      BY <1>7 DEF Requeue, InOrder
    <2>2. Increasing' /\ Queued' = Queued \union {t}
      BY <1>a, <1>b, <1>7, <2>1, EnqueuePuts DEF Requeue
    <2>3. /\ UNCHANGED <<turn, phase, accepted>> /\ phase = "replaying"
          /\ resuming' = resuming \ {t} /\ t \in resuming /\ \A u \in resuming : t <= u
      BY <1>7 DEF Requeue, historyVars
    <2>4. QED
      BY <1>a, <2>2, <2>3 DEF InOrder
  <1>8. ASSUME NEW t \in Turns, Accept(t) PROVE InOrder'
    <2>1. t = accepted + 1 /\ accepted' = t /\ UNCHANGED <<turn, phase, resuming>> /\ resuming = {}
          /\ phase \in {"up", "notifying"}
      BY <1>8 DEF Accept, daemonVars, InOrder
    <2>2. \A u \in Queued : u < t
      BY <1>a, <2>1 DEF InOrder
    <2>3. Increasing' /\ Queued' = Queued \union {t}
      BY <1>a, <1>b, <1>8, <2>2, EnqueuePuts DEF Accept
    <2>4. QED
      BY <1>a, <2>1, <2>3 DEF InOrder
  <1>9. CASE Stop
    BY <1>a, <1>9, QueueEmpty DEF Stop, InOrder
  <1>10. CASE Idles
    <2>1. UNCHANGED <<taskVars, daemonVars, accepted>>
      BY <1>10 DEF Idles, TimePasses, vars, historyVars
    <2>2. QED
      BY <1>b, <2>1, QueueKept DEF taskVars, daemonVars, InOrder
  <1>11. QED
    BY <1>1, <1>2, <1>3, <1>4, <1>5, <1>6, <1>7, <1>8, <1>9, <1>10, StepKinds
\* The turn in hand is the only one that such a step touches.
Spares(u) ==
  /\ journal'[u] = journal[u] /\ starts'[u] = starts[u] /\ tried'[u] = tried[u]
  /\ marks'[u] = marks[u]

LEMMA GoesOnTouches ==
  ASSUME TypeOK, GoesOn
  PROVE  /\ UNCHANGED <<parked, clock>>
         /\ Pending' \subseteq Pending /\ Pending \ {turn} \subseteq Pending'
         /\ \A u \in Turns \ {turn} : Spares(u)
         /\ \A u \in Turns : marks[u] \subseteq marks'[u]
  <1> DEFINE Touches == /\ UNCHANGED <<parked, clock>>
                        /\ Pending' \subseteq Pending /\ Pending \ {turn} \subseteq Pending'
                        /\ \A u \in Turns \ {turn} : Spares(u)
                        /\ \A u \in Turns : marks[u] \subseteq marks'[u]
  <1>a. /\ JournalTypeOK /\ starts \in [Turns -> Nat] /\ marks \in [Turns -> SUBSET Marks]
        /\ tried \in [Turns -> Nat \union {Never}]
    BY DEF TypeOK
  <1>1. CASE UNCHANGED <<journalVars, historyVars>>
    BY <1>1 DEF journalVars, historyVars, Pending, Spares
  <1>2. ASSUME NEW m, Marked({turn}, m), UNCHANGED <<starts, tried>>,
               UNCHANGED journalVars \/ Forget({turn})
        PROVE  Touches
    <2>1. /\ \A u \in Turns \ {turn} : marks'[u] = marks[u]
          /\ \A u \in Turns : marks[u] \subseteq marks'[u]
      BY <1>a, <1>2 DEF Marked
    <2>2. /\ UNCHANGED <<parked, clock>> /\ \A u \in Turns \ {turn} : journal'[u] = journal[u]
          /\ Pending' \subseteq Pending /\ Pending \ {turn} \subseteq Pending'
      <3>1. CASE UNCHANGED journalVars
        BY <3>1 DEF journalVars, Pending
      <3>2. CASE Forget({turn})
        BY <3>2, ForgetDrops DEF Forget
      <3>3. QED
        BY <1>2, <3>1, <3>2
    <2>3. QED
      BY <1>2, <2>1, <2>2 DEF Spares
  <1>3. ASSUME Forget({turn}), UNCHANGED historyVars PROVE Touches
    BY <1>a, <1>3 DEF Forget, historyVars, Pending, Spares, Blank
  <1>4. CASE Dispatch
    <2>1. turn \in Turns
      BY <1>4 DEF Dispatch, Awake, TypeOK
    <2>2. /\ Pending' = Pending /\ UNCHANGED <<parked, clock, marks>>
          /\ \A u \in Turns : u # turn => journal'[u] = journal[u]
      BY <1>4, <1>a, <2>1, MarkKeeps DEF Dispatch
    <2>3. \A u \in Turns \ {turn} : starts'[u] = starts[u] /\ tried'[u] = tried[u]
      BY <1>4, <1>a, <2>1 DEF Dispatch, Launch
    <2>4. QED
      BY <2>2, <2>3 DEF Spares
  <1>5. CASE Reported
    BY <1>5, <1>a DEF Reported, Launch, journalVars, Pending, Spares
  <1>6. CASE CancelOutside
    BY <1>6, <1>a DEF CancelOutside, journalVars, Pending, Spares
  <1>7. CASE CancelRun \/ ReplyLands
    <2>1. UNCHANGED <<journalVars, starts, tried>> /\ (Marked({turn}, "cut")
          \/ Marked({turn}, "answered") \/ UNCHANGED marks)
      BY <1>7 DEF CancelRun, ReplyLands
    <2>2. CASE UNCHANGED marks
      BY <2>1, <2>2 DEF journalVars, Pending, Spares
    <2>3. QED
      BY <1>2, <2>1, <2>2
  <1>8. CASE Refuse \/ ReplyReturns
    BY <1>3, <1>8 DEF Refuse, ReplyReturns, Misread, historyVars
  <1>9. CASE RefusalSent \/ RefusalRaises \/ NoticeSent \/ NoticeRaises \/ CancelNotice
    BY <1>2, <1>9 DEF RefusalSent, RefusalRaises, NoticeSent, NoticeRaises, CancelNotice
  <1>10. CASE Close
    BY <1>1, <1>3, <1>10 DEF Close
  <1>11. CASE CloseRaises
    BY <1>2, <1>11 DEF CloseRaises, Misread
  <1>12. CASE StartFails \/ AgentAnswers \/ AgentFails \/ ReplyRaises
    BY <1>1, <1>12 DEF StartFails, AgentAnswers, AgentFails, ReplyRaises
  <1>13. CASE ForgetParked
    BY <1>3, <1>13 DEF ForgetParked
  <1>14. QED
    BY <1>1, <1>4, <1>5, <1>6, <1>7, <1>8, <1>9, <1>10, <1>11, <1>12, <1>13 DEF GoesOn

LEMMA FreshStep == Typed /\ Fresh /\ InOrder /\ [Next]_vars => Fresh'
  <1> SUFFICES ASSUME TypeOK, Fresh, InOrder, [Next]_vars PROVE Fresh'
    BY DEF Typed
  <1>a. /\ JournalTypeOK /\ accepted \in Nat /\ turn \in Turns \union {0} /\ turn <= accepted
        /\ Turns \subseteq Nat \ {0}
    BY JournalAssumption DEF TypeOK, NoTurn, InOrder
  <1>1. CASE GoesOn
    <2>1. accepted' = accepted /\ turn' = turn
      BY <1>1, GoesOnStays
    <2>2. ASSUME NEW t \in Turns, t > accepted
          PROVE  /\ t \notin Pending' \union parked' /\ starts'[t] = 0 /\ tried'[t] = Never
                 /\ marks'[t] = {}
      <3>1. t # turn
        BY <1>a, <2>2
      <3>2. QED
        BY <1>1, <2>2, <3>1, GoesOnTouches DEF Fresh, Spares
    <2>3. QED
      BY <2>1, <2>2 DEF Fresh
  <1>2. CASE TakesUp \/ Quits \/ PhaseMoves \/ Idles \/ \E t \in Turns : Requeue(t)
    <2>1. UNCHANGED <<journal, parked, historyVars>>
      BY <1>2 DEF TakesUp, Quits, PhaseMoves, Offered, Listen, BeginShutdown, Shutdown, Idles,
         TimePasses, Tick, vars, Requeue, journalVars
    <2>2. QED
      BY <2>1, JournalKept DEF Fresh, historyVars
  <1>3. CASE ParksIt
    BY <1>a, <1>3, JournalKept DEF ParksIt, Park, historyVars, Fresh
  <1>4. CASE Boot
    <2>1. UNCHANGED historyVars /\ Pending' \subseteq Pending /\ parked' \subseteq parked \union Pending
      <3>1. CASE Take
        BY <1>a, <1>4, <3>1, TakeReplays DEF Boot, Replayable, Parkable
      <3>2. CASE TakeCut
        BY <1>4, <3>2, JournalKept DEF Boot, TakeCut, Parkable
      <3>3. QED
        BY <1>4, <3>1, <3>2 DEF Boot
    <2>2. QED
      BY <2>1 DEF Fresh, historyVars
  <1>5. CASE Vanishes
    BY <1>a, <1>5, JournalKept DEF Vanishes, Exit, Kill, journalVars, historyVars, Fresh
  <1>6. ASSUME NEW t \in Turns, Accept(t) PROVE Fresh'
    <2>1. /\ t = accepted + 1 /\ accepted' = t /\ UNCHANGED <<starts, tried>>
          /\ \A u \in Turns \ {t} : marks'[u] = marks[u]
      BY <1>6 DEF Accept, Marked
    <2>2. Pending' = Pending \union {t} /\ parked' = parked
      BY <1>a, <1>6, RecordAdds DEF Accept
    <2>3. 1..accepted' \subseteq Turns
      BY <1>a, <2>1 DEF Fresh
    <2>4. QED
      BY <1>a, <2>1, <2>2, <2>3 DEF Fresh
  <1>7. CASE Stop
    <2>1. /\ UNCHANGED <<accepted, starts, tried>> /\ Pending' \subseteq Pending /\ parked' = parked
          /\ \A u \in Turns : u \notin Queued \union {turn} => marks'[u] = marks[u]
      BY <1>7, ForgetDrops DEF Stop
    <2>2. QED
      BY <1>a, <2>1 DEF Fresh, InOrder
  <1>8. QED
    BY <1>1, <1>2, <1>3, <1>4, <1>5, <1>6, <1>7, StepKinds
-----------------------------------------------------------------------------
(* The runs of a turn are counted in its record.                           *)

LEMMA RunsInit == Init => RunsCounted
  BY QueueEmpty DEF Init, RunsCounted, RunsBounded, Waiting, Starting, JournalInit, Pending, Blank

\* The turn in hand waits for an agent before a dispatch and a config notice only.
LEMMA GoesOnToRun ==
  ASSUME Typed, GoesOn
  PROVE  \/ Dispatch \/ Reported
         \/ /\ ~Starting' /\ UNCHANGED <<starts, tried>>
            /\ \A u \in Pending' : journal'[u] = journal[u]
  <1>1. CASE UNCHANGED <<journalVars, starts, tried>> /\ ~Starting'
    BY <1>1 DEF journalVars
  <1>2. CASE Forget({turn}) /\ UNCHANGED <<starts, tried>> /\ ~Starting'
    BY <1>2, ForgetDrops
  <1>3. CASE StartFails \/ RefusalSent \/ RefusalRaises \/ AgentAnswers \/ AgentFails \/ ReplyLands
             \/ ReplyRaises \/ CancelRun \/ CancelOutside
    BY <1>1, <1>3 DEF StartFails, RefusalSent, RefusalRaises, AgentAnswers, AgentFails, ReplyLands,
       ReplyRaises, CancelRun, CancelOutside, Goto, Finally, Starting, historyVars
  <1>4. CASE Refuse \/ ReplyReturns \/ NoticeSent \/ NoticeRaises \/ ForgetParked \/ CancelNotice
    BY <1>2, <1>4 DEF Refuse, ReplyReturns, NoticeSent, NoticeRaises, ForgetParked, CancelNotice,
       Misread, Goto, Finally, Starting, historyVars
  <1>5. CASE Close \/ CloseRaises
    BY <1>1, <1>2, <1>5 DEF Close, CloseRaises, Misread, Goto, Starting, historyVars
  <1>6. QED
    BY <1>3, <1>4, <1>5 DEF GoesOn

\* What waits behind the turn in hand stays where it is.
LEMMA GoesOnBehind ==
  ASSUME Typed, InOrder, GoesOn
  PROVE  /\ Queued' = Queued /\ resuming' = resuming /\ turn' = turn
         /\ \A t \in Queued \union resuming : t # turn
  <1>1. Queued' = Queued /\ resuming' = resuming /\ turn' = turn
    BY GoesOnStays, QueueKept DEF daemonVars
  <1>2. Queued \subseteq Turns /\ resuming \subseteq Turns /\ turn \in Turns \union {0}
    BY QueuedTurns DEF Typed, TypeOK, NoTurn
  <1>3. \A t \in Queued \union resuming : t \in Nat /\ turn \in Nat /\ turn < t
    BY <1>2, JournalAssumption DEF InOrder
  <1>4. QED
    BY <1>1, <1>3

LEMMA RunsStep == Typed /\ Fresh /\ InOrder /\ RunsCounted /\ [Next]_vars => RunsCounted'
  <1> SUFFICES ASSUME Typed, Fresh, InOrder, RunsCounted, [Next]_vars PROVE RunsCounted'
    OBVIOUS
  <1>a. /\ JournalTypeOK /\ starts \in [Turns -> Nat] /\ turn \in Turns \union {0}
        /\ Turns \subseteq Nat \ {0} /\ MaxReplays \in Nat /\ TypeOK /\ queue \in Seq(Turns)
        /\ \A t \in Turns : journal[t].replays \in Nat
        /\ Queued \subseteq Turns /\ resuming \subseteq Turns /\ Increasing
    BY JournalAssumption, QueuedTurns DEF Typed, TypeOK, NoTurn, JournalTypeOK, Entries, InOrder
  <1>1. CASE GoesOn
    <2>1. /\ Queued' = Queued /\ resuming' = resuming /\ turn' = turn
          /\ \A t \in Queued \union resuming : t # turn
          /\ Pending' \subseteq Pending /\ Pending \ {turn} \subseteq Pending'
          /\ \A u \in Turns \ {turn} : starts'[u] = starts[u] /\ journal'[u] = journal[u]
      BY <1>a, <1>1, GoesOnBehind, GoesOnTouches DEF Spares
    <2>2. CASE Dispatch \/ Reported
      <3>1. Starting /\ turn \in Turns /\ turn \in Pending /\ starts[turn] <= journal[turn].replays
        BY <2>2 DEF Dispatch, Reported, Awake, Starting, RunsCounted, Waiting, Typed, TypeOK
      <3>2. Pending' = Pending /\ journal'[turn].replays = journal[turn].replays
        BY <1>a, <2>2, <3>1, MarkKeeps, JournalKept DEF Dispatch, Reported, journalVars
      <3>3. \/ ~Starting' /\ starts' = [starts EXCEPT ![turn] = @ + 1]
            \/ starts' = starts
        BY <2>2 DEF Dispatch, Reported, Launch, Starting
      <3>4. starts[turn] \in Nat /\ journal[turn].replays \in Nat /\ journal[turn].replays <= MaxReplays
        BY <1>a, <3>1 DEF RunsCounted
      <3>5. starts'[turn] <= journal[turn].replays + 1
            /\ (Starting' => starts'[turn] <= journal[turn].replays)
        BY <1>a, <3>1, <3>3, <3>4
      <3>6. RunsBounded'
        <4>1. starts'[turn] \in Nat /\ starts'[turn] <= MaxReplays + 1
          BY <1>a, <3>1, <3>3, <3>4, <3>5
        <4>2. QED
          BY <2>1, <4>1 DEF RunsCounted, RunsBounded
      <3>7. \A t \in Pending' : journal'[t].replays <= MaxReplays
                                /\ starts'[t] <= journal'[t].replays + 1
        BY <1>a, <2>1, <3>1, <3>2, <3>5 DEF RunsCounted, Pending
      <3>8. \A t \in Waiting' : t \in Pending' /\ starts'[t] <= journal'[t].replays
        BY <1>a, <2>1, <3>1, <3>2, <3>5 DEF RunsCounted, Waiting
      <3>9. QED
        BY <3>6, <3>7, <3>8 DEF RunsCounted
    <2>3. CASE ~Starting' /\ starts' = starts /\ \A u \in Pending' : journal'[u] = journal[u]
      BY <1>a, <2>1, <2>3 DEF RunsCounted, RunsBounded, Waiting
    <2>4. QED
      BY <1>1, <2>2, <2>3, GoesOnToRun
  <1>2. CASE TakesUp
    <2>1. /\ UNCHANGED <<journal, starts, resuming>> /\ Pending' = Pending
          /\ Queued' \subseteq Queued /\ (Starting' => turn' \in Queued)
      BY <1>a, <1>2, NextTurnTakes, JournalKept
         DEF TakesUp, journalVars, historyVars, daemonVars, Starting
    <2>2. QED
      BY <1>a, <2>1 DEF RunsCounted, RunsBounded, Waiting
  <1>3. CASE Quits \/ ParksIt \/ PhaseMoves \/ Idles
    <2>1. /\ UNCHANGED <<journal, starts>> /\ Pending' = Pending
          /\ queue' = queue /\ resuming' = resuming
      BY <1>3, JournalKept DEF Quits, TaskEnds, ParksIt, Park, Goto, PhaseMoves, Offered, Listen,
         BeginShutdown, Shutdown, Idles, TimePasses, Tick, vars, taskVars, journalVars,
         historyVars, daemonVars
    <2>2. ~Starting' \/ (stage' = stage /\ turn' = turn)
      BY <1>3 DEF Quits, TaskEnds, ParksIt, Goto, PhaseMoves, Offered, Listen, BeginShutdown,
         Shutdown, Idles, TimePasses, vars, taskVars, Starting
    <2>3. Waiting' \subseteq Waiting
      BY <2>1, <2>2, QueueKept DEF Waiting, Starting
    <2>4. QED
      BY <2>1, <2>3 DEF RunsCounted, RunsBounded
  <1>4. CASE Boot
    <2>1. UNCHANGED <<queue, stage, starts>> /\ queue = <<>> /\ stage = "none"
      BY <1>4 DEF Boot, taskVars, historyVars, InOrder
    <2>2. CASE Take /\ resuming' = Replayable
      <3>1. /\ Waiting' = Pending' /\ Pending' = Replayable
            /\ \A t \in Pending' : journal'[t].replays = journal[t].replays + 1
        BY <1>a, <2>1, <2>2, QueueEmpty, QueueKept, TakeReplays DEF Waiting, Starting
      <3>2. \A t \in Replayable : t \in Pending /\ t \in Turns /\ journal[t].replays < MaxReplays
        BY <1>a DEF Replayable, Parkable, Exhausted, Pending
      <3>3. ASSUME NEW t \in Replayable
            PROVE  journal'[t].replays <= MaxReplays /\ starts'[t] <= journal'[t].replays
                   /\ starts'[t] <= journal'[t].replays + 1
        <4>1. /\ journal[t].replays \in Nat /\ starts[t] \in Nat
              /\ starts[t] <= journal[t].replays + 1
          BY <1>a, <3>2 DEF RunsCounted
        <4>2. QED
          BY <1>a, <2>1, <3>1, <3>2, <4>1
      <3>4. QED
        BY <2>1, <3>1, <3>3 DEF RunsCounted, RunsBounded
    <2>3. CASE TakeCut /\ UNCHANGED resuming
      <3>1. Waiting' = Waiting /\ Pending' = Pending /\ journal' = journal
        BY <2>1, <2>3, QueueKept, JournalKept DEF Waiting, Starting, TakeCut
      <3>2. QED
        BY <2>1, <3>1 DEF RunsCounted, RunsBounded
    <2>4. QED
      BY <1>4, <2>2, <2>3 DEF Boot
  <1>5. CASE Vanishes
    <2>1. Waiting' = {} /\ Pending' = Pending /\ UNCHANGED <<journal, starts>>
      BY <1>5, QueueEmpty, JournalKept DEF Vanishes, Exit, Kill, ProcessGone, journalVars,
         historyVars, Waiting, Starting
    <2>2. QED
      BY <2>1 DEF RunsCounted, RunsBounded
  <1>6. ASSUME NEW t \in Turns, Requeue(t) PROVE RunsCounted'
    <2>1. /\ UNCHANGED <<journal, starts, turn>> /\ Pending' = Pending
          /\ Queued' = Queued \union {t} /\ t \in resuming /\ resuming' = resuming \ {t}
          /\ (Starting' => Starting)
      BY <1>a, <1>6, JournalKept, QueueGrows DEF Requeue, Enqueue, journalVars, historyVars, Starting
    <2>2. QED
      BY <2>1 DEF RunsCounted, RunsBounded, Waiting
  <1>7. ASSUME NEW t \in Turns, Accept(t) PROVE RunsCounted'
    <2>0. t > accepted
      BY <1>7 DEF Accept, Typed, TypeOK
    <2>1. /\ starts' = starts /\ starts[t] = 0 /\ resuming' = resuming /\ turn' = turn
          /\ journal' = [journal EXCEPT ![t] = [phase |-> "queued", replays |-> 0, at |-> clock]]
          /\ Pending' = Pending \union {t} /\ t \notin Pending
      BY <1>a, <1>7, <2>0, RecordAdds DEF Accept, Record, Fresh, daemonVars
    <2>2. Queued' = Queued \union {t} /\ (Starting' => Starting)
      BY <1>a, <1>7, QueueGrows DEF Accept, Enqueue, Starting
    <2>3. /\ journal'[t].replays = 0
          /\ \A u \in Turns : u # t => journal'[u] = journal[u]
      BY <1>a, <2>1 DEF JournalTypeOK
    <2>4. \A u \in Waiting' : u = t \/ u \in Waiting
      BY <2>1, <2>2 DEF Waiting
    <2>5. QED
      BY <1>a, <2>1, <2>3, <2>4 DEF RunsCounted, RunsBounded, Pending
  <1>8. CASE Stop
    <2>1. /\ UNCHANGED <<starts, stage, turn, resuming, inFlight>> /\ Queued' = {}
          /\ Pending' = Pending \ (Queued \union {inFlight})
          /\ \A u \in Pending' : journal'[u] = journal[u]
      BY <1>8, ForgetDrops, QueueEmpty DEF Stop
    <2>2. resuming = {} /\ (Starting => inFlight = NoTurn /\ turn \notin Queued /\ turn # 0)
      BY <1>a, <1>8 DEF Stop, InOrder, Typed, InFlightNamed, Starting, TypeOK, NoTurn
    <2>3. QED
      BY <2>1, <2>2 DEF RunsCounted, RunsBounded, Waiting, Starting, NoTurn
  <1>9. QED
    BY <1>1, <1>2, <1>3, <1>4, <1>5, <1>6, <1>7, <1>8, StepKinds
-----------------------------------------------------------------------------
(* A first attempt is dated by its dispatch.                               *)

LEMMA DatedInit == Init => FirstIsDated
  BY QueueEmpty DEF Init, FirstIsDated, Waiting, Starting, JournalInit, Pending, Blank

LEMMA DatedStep ==
  Typed /\ Fresh /\ InOrder /\ RunsCounted /\ FirstIsDated /\ [Next]_vars => FirstIsDated'
  <1> SUFFICES ASSUME Typed, Fresh, InOrder, RunsCounted, FirstIsDated, [Next]_vars
               PROVE  FirstIsDated'
    OBVIOUS
  <1>a. /\ JournalTypeOK /\ turn \in Turns \union {0} /\ 0 \notin Turns /\ TypeOK
        /\ tried \in [Turns -> Nat \union {Never}] /\ queue \in Seq(Turns)
        /\ \A t \in Turns : journal[t].replays \in Nat
        /\ Queued \subseteq Turns /\ resuming \subseteq Turns /\ Increasing
        /\ Waiting \subseteq Pending
    BY JournalAssumption, QueuedTurns
       DEF Typed, TypeOK, NoTurn, JournalTypeOK, Entries, InOrder, RunsCounted
  <1>1. CASE GoesOn
    <2>1. /\ Queued' = Queued /\ resuming' = resuming /\ turn' = turn
          /\ \A t \in Queued \union resuming : t # turn
          /\ Pending' \subseteq Pending
          /\ \A u \in Turns \ {turn} : tried'[u] = tried[u] /\ journal'[u] = journal[u]
      BY <1>a, <1>1, GoesOnBehind, GoesOnTouches DEF Spares
    <2>2. CASE Dispatch
      <3>1. turn \in Turns /\ turn \in Waiting /\ stage = "starting"
        BY <1>a, <2>2 DEF Dispatch, Awake, Starting, Waiting, NoTurn, TypeOK
      <3>2. journal[turn].replays = 0 => journal[turn].phase = "queued"
        BY <3>1 DEF FirstIsDated
      <3>3. /\ journal'[turn].replays = journal[turn].replays
            /\ journal[turn].phase = "queued" => journal'[turn].at = clock
        BY <1>a, <2>2, <3>1, MarkKeeps DEF Dispatch
      <3>4. tried'[turn] = clock
        BY <1>a, <2>2, <3>1 DEF Dispatch
      <3>5. Starting' => stage' = "reporting"
        BY <2>2 DEF Dispatch, Launch, Goto, Starting
      <3>6. \A t \in Pending' :
              journal'[t].replays = 0 /\ tried'[t] # Never => journal'[t].at = tried'[t]
        BY <2>1, <3>2, <3>3, <3>4 DEF FirstIsDated, Pending
      <3>7. \A t \in Waiting' : journal'[t].replays = 0
              => journal'[t].phase = "queued" \/ (t = turn' /\ stage' = "reporting")
        BY <1>a, <2>1, <3>1, <3>5 DEF FirstIsDated, Waiting
      <3>8. QED
        BY <3>6, <3>7 DEF FirstIsDated
    <2>3. CASE ~Starting' /\ tried' = tried /\ \A u \in Pending' : journal'[u] = journal[u]
      BY <1>a, <2>1, <2>3 DEF FirstIsDated, Waiting
    <2>4. CASE Reported
      BY <1>a, <2>1, <2>3, <2>4 DEF Reported, Launch, Starting, journalVars
    <2>5. QED
      BY <1>1, <2>2, <2>3, <2>4, GoesOnToRun
  <1>2. CASE TakesUp
    <2>1. /\ UNCHANGED <<journal, tried, resuming>> /\ Pending' = Pending
          /\ Queued' \subseteq Queued /\ (Starting' => turn' \in Queued) /\ stage # "reporting"
      BY <1>a, <1>2, NextTurnTakes, JournalKept
         DEF TakesUp, journalVars, historyVars, daemonVars, Starting
    <2>2. QED
      BY <1>a, <2>1 DEF FirstIsDated, Waiting
  <1>3. CASE Quits \/ ParksIt \/ PhaseMoves \/ Idles
    <2>1. /\ UNCHANGED <<journal, tried>> /\ Pending' = Pending
          /\ queue' = queue /\ resuming' = resuming
      BY <1>3, JournalKept DEF Quits, TaskEnds, ParksIt, Park, Goto, PhaseMoves, Offered, Listen,
         BeginShutdown, Shutdown, Idles, TimePasses, Tick, vars, taskVars, journalVars,
         historyVars, daemonVars
    <2>2. (~Starting /\ ~Starting') \/ (stage' = stage /\ turn' = turn)
      BY <1>3 DEF Quits, TaskEnds, ParksIt, Goto, PhaseMoves, Offered, Listen, BeginShutdown,
         Shutdown, Idles, TimePasses, vars, taskVars, Starting
    <2>3. Waiting' \subseteq Waiting
      BY <2>1, <2>2, QueueKept DEF Waiting, Starting
    <2>4. QED
      BY <2>1, <2>2, <2>3 DEF FirstIsDated, Starting
  <1>4. CASE Boot
    <2>1. UNCHANGED <<queue, stage, turn, tried>> /\ queue = <<>> /\ stage = "none"
      BY <1>4 DEF Boot, taskVars, historyVars, InOrder
    <2>2. CASE Take /\ resuming' = Replayable
      <3>1. /\ Waiting' = Pending' /\ Pending' \subseteq Turns
            /\ \A t \in Pending' : journal'[t].replays = journal[t].replays + 1
        BY <1>a, <2>1, <2>2, QueueEmpty, QueueKept, TakeReplays DEF Waiting, Starting, Pending
      <3>2. \A t \in Pending' : journal'[t].replays # 0
        BY <1>a, <3>1
      <3>3. QED
        BY <3>1, <3>2 DEF FirstIsDated
    <2>3. CASE TakeCut /\ UNCHANGED resuming
      <3>1. Waiting' = Waiting /\ Pending' = Pending /\ journal' = journal
        BY <2>1, <2>3, QueueKept, JournalKept DEF Waiting, Starting, TakeCut
      <3>2. QED
        BY <2>1, <3>1 DEF FirstIsDated
    <2>4. QED
      BY <1>4, <2>2, <2>3 DEF Boot
  <1>5. CASE Vanishes
    <2>1. Waiting' = {} /\ Pending' = Pending /\ UNCHANGED <<journal, tried>>
      BY <1>5, QueueEmpty, JournalKept DEF Vanishes, Exit, Kill, ProcessGone, journalVars,
         historyVars, Waiting, Starting
    <2>2. QED
      BY <2>1 DEF FirstIsDated
  <1>6. ASSUME NEW t \in Turns, Requeue(t) PROVE FirstIsDated'
    <2>1. /\ UNCHANGED <<journal, tried, turn>> /\ Pending' = Pending
          /\ Queued' = Queued \union {t} /\ t \in resuming /\ resuming' = resuming \ {t}
          /\ (Starting' => Starting) /\ (stage = "reporting" => stage' = "reporting")
      BY <1>a, <1>6, JournalKept, QueueGrows DEF Requeue, Enqueue, journalVars, historyVars, Starting
    <2>2. QED
      BY <2>1 DEF FirstIsDated, Waiting
  <1>7. ASSUME NEW t \in Turns, Accept(t) PROVE FirstIsDated'
    <2>0. t > accepted
      BY <1>7 DEF Accept, Typed, TypeOK
    <2>1. /\ tried' = tried /\ tried[t] = Never /\ resuming' = resuming /\ turn' = turn
          /\ journal' = [journal EXCEPT ![t] = [phase |-> "queued", replays |-> 0, at |-> clock]]
          /\ Pending' = Pending \union {t} /\ t \notin Pending
      BY <1>a, <1>7, <2>0, RecordAdds DEF Accept, Record, Fresh, daemonVars
    <2>2. Queued' = Queued \union {t} /\ (Starting' => Starting)
          /\ (stage = "reporting" => stage' = "reporting")
      BY <1>a, <1>7, QueueGrows DEF Accept, Enqueue, Starting
    <2>3. /\ journal'[t].phase = "queued"
          /\ \A u \in Turns : u # t => journal'[u] = journal[u]
      BY <1>a, <2>1 DEF JournalTypeOK
    <2>4. \A u \in Waiting' : u = t \/ u \in Waiting
      BY <2>1, <2>2 DEF Waiting
    <2>5. \A u \in Pending' : u # t => u \in Pending /\ journal'[u] = journal[u] /\ u \in Turns
      BY <2>1, <2>3 DEF Pending
    <2>6. \A u \in Pending' :
            journal'[u].replays = 0 /\ tried'[u] # Never => journal'[u].at = tried'[u]
      BY <2>1, <2>5 DEF FirstIsDated
    <2>7. \A u \in Waiting : u # t => u \in Pending
      BY <1>a DEF RunsCounted
    <2>8. \A u \in Waiting' : journal'[u].replays = 0 =>
            journal'[u].phase = "queued" \/ (u = turn' /\ stage' = "reporting")
      <3>1. SUFFICES ASSUME NEW u \in Waiting', u # t
                     PROVE  u \in Waiting /\ journal'[u] = journal[u]
        BY <2>1, <2>2, <2>3 DEF FirstIsDated
      <3>2. QED
        BY <2>3, <2>4, <2>7, <3>1 DEF Pending
    <2>9. QED
      BY <2>6, <2>8 DEF FirstIsDated
  <1>8. CASE Stop
    <2>1. /\ UNCHANGED <<tried, stage, turn, resuming>> /\ Queued' = {} /\ Pending' \subseteq Pending
          /\ \A u \in Pending' : journal'[u] = journal[u]
      BY <1>8, ForgetDrops, QueueEmpty DEF Stop
    <2>2. Waiting' \subseteq Waiting
      BY <2>1 DEF Waiting, Starting
    <2>3. Waiting' \subseteq Pending'
      BY <1>8, <1>a, RunsStep DEF RunsCounted
    <2>4. QED
      BY <2>1, <2>2, <2>3 DEF FirstIsDated
  <1>9. QED
    BY <1>1, <1>2, <1>3, <1>4, <1>5, <1>6, <1>7, <1>8, StepKinds

-----------------------------------------------------------------------------
(* What a turn holds is released before the next one is taken up.          *)

LEMMA HeldStep == Typed /\ HeldInHand /\ [Next]_vars => HeldInHand'
  <1> SUFFICES ASSUME Typed, HeldInHand, [Next]_vars PROVE HeldInHand'
    OBVIOUS
  <1>a. /\ TypeOK /\ held \subseteq Turns
        /\ \A t \in Turns : marks[t] \subseteq marks'[t] /\ Has(t, {"unclosed"})
                            => Has(t, {"unclosed"})'
    BY DEF Typed, TypeOK, Has
  <1>1. CASE GoesOn
    <2>1. turn' = turn /\ \A t \in Turns : marks[t] \subseteq marks'[t]
      BY <1>1, <1>a, GoesOnStays, GoesOnTouches
    <2>2. ASSUME held' \subseteq held \union {turn},
                 stage' \in {"running", "replying", "replied", "noticing", "closing"}
          PROVE  HeldInHand'
      BY <1>a, <2>1, <2>2 DEF HeldInHand
    <2>3. ASSUME held' \subseteq held,
                 stage \notin {"running", "replying", "replied", "noticing", "closing"}
          PROVE  HeldInHand'
      BY <1>a, <2>1, <2>3 DEF HeldInHand
    <2>4. CASE Dispatch \/ Reported \/ AgentAnswers \/ AgentFails \/ ReplyLands \/ ReplyReturns
               \/ ReplyRaises \/ NoticeSent \/ NoticeRaises \/ CancelRun \/ CancelNotice
      BY <2>2, <2>3, <2>4 DEF Dispatch, Reported, AgentAnswers, AgentFails, ReplyLands, ReplyReturns,
         ReplyRaises, NoticeSent, NoticeRaises, CancelRun, CancelNotice, Launch, Goto, Finally, Awake
    <2>5. CASE StartFails \/ Refuse \/ RefusalSent \/ RefusalRaises \/ ForgetParked
      BY <2>3, <2>5 DEF StartFails, Refuse, RefusalSent, RefusalRaises, ForgetParked, Misread, Goto,
         Awake
    <2>6. CASE Close
      BY <1>a, <2>1, <2>6 DEF Close, HeldInHand
    <2>7. CASE CloseRaises \/ CancelOutside
      <3>1. held' = held /\ (stage = "closing" => "unclosed" \in marks'[turn])
        BY <2>7, <1>a DEF CloseRaises, CancelOutside, Misread, Goto, Marked, Awake, TypeOK, NoTurn
      <3>2. QED
        BY <1>a, <2>1, <2>7, <3>1 DEF HeldInHand, CloseRaises, CancelOutside, Awake, Has
    <2>8. QED
      BY <1>1, <2>4, <2>5, <2>6, <2>7 DEF GoesOn
  <1>2. CASE TakesUp \/ Quits \/ ParksIt
    BY <1>2 DEF TakesUp, NextTurn, Quits, TaskEnds, ParksIt, Goto, historyVars, HeldInHand, Has
  <1>3. CASE Boot \/ PhaseMoves \/ Idles
    BY <1>3 DEF Boot, PhaseMoves, Offered, Listen, BeginShutdown, Shutdown, Idles, TimePasses, vars,
       taskVars, historyVars, HeldInHand, Has
  <1>4. CASE Vanishes
    BY <1>4 DEF Vanishes, Exit, Kill, ProcessGone, HeldInHand
  <1>5. ASSUME NEW t \in Turns, Requeue(t) \/ Accept(t) PROVE HeldInHand'
    <2>1. UNCHANGED <<turn, held>> /\ (stage' = stage \/ stage = "none")
          /\ \A u \in Turns : marks[u] \subseteq marks'[u]
      BY <1>5, <1>a DEF Requeue, Accept, Enqueue, Marked, historyVars, TypeOK
    <2>2. QED
      BY <1>a, <2>1 DEF HeldInHand
  <1>6. CASE Stop
    BY <1>6, <1>a DEF Stop, HeldInHand, Has, TypeOK
  <1>7. QED
    BY <1>1, <1>2, <1>3, <1>4, <1>5, <1>6, StepKinds
-----------------------------------------------------------------------------
(* No record is left behind.                                               *)

LEMMA MarksGrow ==
  ASSUME TypeOK, [Next]_vars
  PROVE  \A t \in Turns : marks[t] \subseteq marks'[t]
  <1>a. marks \in [Turns -> SUBSET Marks]
    BY DEF TypeOK
  <1>1. CASE GoesOn
    BY <1>1, GoesOnTouches
  <1>2. CASE UNCHANGED marks
    BY <1>2
  <1>3. CASE Kill \/ Stop \/ \E t \in Turns : Accept(t)
    BY <1>a, <1>3 DEF Kill, Stop, Accept, Marked
  <1>4. QED
    BY <1>1, <1>2, <1>3, StepKinds DEF TakesUp, Quits, ParksIt, Boot, PhaseMoves, Offered, Listen,
       BeginShutdown, Shutdown, Vanishes, Exit, Requeue, Idles, TimePasses, vars, historyVars

LEMMA RecordsStep ==
  Typed /\ Fresh /\ InOrder /\ RecordsInHand /\ [Next]_vars => RecordsInHand'
  <1> SUFFICES ASSUME Typed, Fresh, InOrder, RecordsInHand, [Next]_vars PROVE RecordsInHand'
    OBVIOUS
  <1>a. /\ JournalTypeOK /\ TypeOK /\ turn \in Turns \union {0} /\ queue \in Seq(Turns)
        /\ Turns \subseteq Nat \ {0} /\ Pending \subseteq Turns /\ Increasing
        /\ (turn = 0) <=> (stage \in {"none", "created"})
        /\ (cancelled => stage # "none") /\ accepted \in Nat /\ turn <= accepted
    BY JournalAssumption DEF Typed, TypeOK, NoTurn, Pending, InOrder
  <1>b. \A t \in Turns : Has(t, {"early"}) => Has(t, {"early"})'
    BY <1>a, MarksGrow DEF Has
  <1>1. CASE GoesOn
    <2>1. /\ Queued' = Queued /\ UNCHANGED <<turn, resuming, phase>> /\ Pending' \subseteq Pending
      BY <1>a, <1>1, GoesOnBehind, GoesOnTouches, GoesOnStays DEF daemonVars
    <2>2. phase' \notin {"down", "stopping"} =>
            \A t \in Pending' : \/ t \in Queued' \union resuming' \union {turn'}
                                \/ Has(t, {"early"})'
      BY <1>a, <1>b, <2>1 DEF RecordsInHand
    <2>3. phase' # "stopping" /\ (cancelled' \/ ending' = "cancel") =>
            turn' \notin Pending' \/ Has(turn, {"early"})'
      <3>1. cancelled' \/ ending' = "cancel" => cancelled \/ ending = "cancel"
        BY <1>1 DEF GoesOn, StartFails, Refuse, RefusalSent, RefusalRaises, Dispatch,
           Reported, AgentAnswers, AgentFails, ReplyLands, ReplyReturns, ReplyRaises, NoticeSent,
           NoticeRaises, Close, CloseRaises, ForgetParked, CancelRun, CancelNotice, CancelOutside,
           Goto, Misread, Launch, Finally, Awake
      <3>2. QED
        BY <1>a, <1>b, <2>1, <3>1 DEF RecordsInHand
    <2>4. CASE Forget({turn})
      <3>1. turn \notin Pending'
        BY <2>4, ForgetDrops
      <3>2. QED
        BY <2>1, <2>2, <3>1 DEF RecordsInHand
    <2>5. CASE stage' \notin {"refusing", "retiring", "closing", "completing"}
      BY <2>1, <2>2, <2>3, <2>5 DEF RecordsInHand
    <2>6. CASE StartFails \/ Refuse \/ RefusalSent \/ RefusalRaises \/ ForgetParked
      <3>1. Forget({turn}) \/ stage = "refusing"
            \/ (stage' = "completing" /\ ending' = "error" /\ stage' # "refusing")
        BY <2>6 DEF StartFails, Refuse, RefusalSent, RefusalRaises, ForgetParked, Misread, Goto, Awake
      <3>2. QED
        BY <2>1, <2>2, <2>3, <2>4, <2>6, <3>1 DEF RecordsInHand
    <2>7. CASE Dispatch \/ Reported \/ AgentAnswers \/ AgentFails \/ ReplyLands \/ ReplyRaises
      BY <2>5, <2>7 DEF Dispatch, Reported, AgentAnswers, AgentFails, ReplyLands, ReplyRaises,
         Launch, Goto
    <2>8. CASE ReplyReturns \/ NoticeSent \/ NoticeRaises \/ CancelNotice
      BY <2>4, <2>8 DEF ReplyReturns, NoticeSent, NoticeRaises, CancelNotice
    <2>9. CASE CancelRun \/ CancelOutside
      <3>1. ending' = "cancel" /\ stage' \in {"closing", "completing"}
        BY <2>9 DEF CancelRun, CancelOutside, Finally
      <3>2. QED
        BY <2>1, <2>2, <2>3, <3>1 DEF RecordsInHand
    <2>10. CASE Close \/ CloseRaises
      <3>1. \/ Forget({turn})
            \/ stage = "closing" /\ stage' = "completing" /\ ending' \in {ending, "error"}
        BY <2>10 DEF Close, CloseRaises, Misread, Goto, Awake
      <3>2. QED
        BY <2>1, <2>2, <2>3, <2>4, <3>1 DEF RecordsInHand
    <2>11. QED
      BY <1>1, <2>6, <2>7, <2>8, <2>9, <2>10 DEF GoesOn
  <1>2. CASE TakesUp
    <2>1. /\ UNCHANGED <<phase, resuming, marks, cancelled>> /\ Pending' = Pending
          /\ Queued \subseteq Queued' \union {turn'} /\ stage' \in {"none", "starting"}
          /\ ending' = "ok" /\ ~cancelled
      BY <1>a, <1>2, NextTurnTakes, JournalKept
         DEF TakesUp, journalVars, historyVars, daemonVars
    <2>2. turn \notin Pending
      BY <1>a, <1>2 DEF TakesUp, RecordsInHand
    <2>3. QED
      BY <1>b, <1>a, <2>1, <2>2 DEF RecordsInHand
  <1>3. CASE Quits
    <2>1. /\ UNCHANGED <<phase, resuming, marks>> /\ Pending' = Pending /\ Queued' = Queued
          /\ stage' = "none" /\ ending' = "ok" /\ ~cancelled' /\ (cancelled \/ ending = "cancel")
      BY <1>3, JournalKept, QueueKept DEF Quits, TaskEnds, journalVars, historyVars, daemonVars
    <2>2. QED
      BY <1>b, <1>a, <2>1 DEF RecordsInHand
  <1>4. CASE ParksIt
    <2>1. /\ UNCHANGED <<phase, resuming, turn, marks, cancelled>> /\ Pending' = Pending
          /\ Queued' = Queued /\ stage' = "parking" /\ ending' = "error" /\ ~cancelled
      BY <1>4, JournalKept, QueueKept DEF ParksIt, Park, Goto, historyVars, daemonVars
    <2>2. QED
      BY <1>b, <1>a, <2>1 DEF RecordsInHand
  <1>5. CASE Boot
    <2>1. UNCHANGED <<stage, turn>> /\ stage = "none" /\ turn = 0 /\ 0 \notin Pending'
          /\ phase = "down"
      BY <1>a, <1>5 DEF Boot, taskVars, InOrder, Pending
    <2>2. CASE Take /\ resuming' = Replayable
      BY <1>a, <2>1, <2>2, TakeReplays DEF RecordsInHand
    <2>3. CASE UNCHANGED phase
      BY <2>1, <2>3 DEF RecordsInHand
    <2>4. QED
      BY <1>5, <2>2, <2>3 DEF Boot
  <1>6. CASE PhaseMoves \/ Idles
    <2>1. /\ UNCHANGED <<queue, stage, turn, resuming, marks, ending>> /\ Pending' = Pending
          /\ \/ phase' = "stopping"
             \/ UNCHANGED cancelled /\ (phase' = phase \/ phase \notin {"down", "stopping"})
      BY <1>6, JournalKept DEF PhaseMoves, Offered, Listen, BeginShutdown, Shutdown, Idles,
         TimePasses, Tick, vars, taskVars, daemonVars, historyVars, journalVars
    <2>2. QED
      BY <1>b, <1>a, <2>1, QueueKept DEF RecordsInHand
  <1>7. CASE Vanishes
    BY <1>7 DEF Vanishes, Exit, Kill, ProcessGone, RecordsInHand
  <1>8. ASSUME NEW t \in Turns, Requeue(t) PROVE RecordsInHand'
    <2>1. /\ UNCHANGED <<turn, cancelled, ending, phase, marks>> /\ Pending' = Pending
          /\ Queued' = Queued \union {t} /\ resuming' = resuming \ {t}
          /\ (stage' = stage \/ stage' = "created")
      BY <1>a, <1>8, JournalKept, QueueGrows DEF Requeue, Enqueue, journalVars, historyVars
    <2>2. QED
      BY <1>b, <1>a, <2>1 DEF RecordsInHand
  <1>9. ASSUME NEW t \in Turns, Accept(t) PROVE RecordsInHand'
    <2>1. /\ UNCHANGED <<turn, cancelled, ending, phase, resuming>> /\ t = accepted + 1
          /\ (stage' = stage \/ stage' = "created")
      BY <1>9 DEF Accept, Enqueue, daemonVars
    <2>2. Pending' = Pending \union {t} /\ Queued' = Queued \union {t} /\ turn # t
      BY <1>a, <1>9, <2>1, RecordAdds, QueueGrows DEF Accept, Enqueue
    <2>3. QED
      BY <1>b, <1>a, <2>1, <2>2 DEF RecordsInHand
  <1>10. CASE Stop
    <2>1. /\ UNCHANGED <<stage, turn, resuming, ending, phase, inFlight>>
          /\ Pending' = Pending \ (Queued \union {inFlight})
          /\ turn \in Pending \ {inFlight} => "early" \in marks'[turn]
      BY <1>a, <1>10, ForgetDrops DEF Stop
    <2>2. turn \in Pending' => Has(turn, {"early"})'
      BY <2>1 DEF Has
    <2>3. QED
      BY <1>b, <1>a, <2>1, <2>2 DEF RecordsInHand
  <1>11. QED
    BY <1>1, <1>2, <1>3, <1>4, <1>5, <1>6, <1>7, <1>8, <1>9, <1>10, StepKinds
-----------------------------------------------------------------------------
(* A record goes for a reason.                                             *)

LEMMA ReasonInit == Init => ReasonKnown
  BY DEF Init, ReasonKnown, NothingOwedIsForgottenUnlessMuted

\* Whatever the reason, it is kept.
Settled(t) == Has(t, {"answered", "told", "stopped", "muted"})

LEMMA ReasonStep ==
  Typed /\ Fresh /\ InOrder /\ ReasonKnown /\ [Next]_vars => ReasonKnown'
  <1> SUFFICES ASSUME Typed, Fresh, InOrder, ReasonKnown, [Next]_vars PROVE ReasonKnown'
    OBVIOUS
  <1>a. /\ JournalTypeOK /\ TypeOK /\ turn \in Turns \union {0} /\ queue \in Seq(Turns)
        /\ 1..accepted \subseteq Turns /\ accepted \in Nat /\ marks \in [Turns -> SUBSET Marks]
        /\ stage \notin {"none", "created"} => turn \in Turns
        /\ inFlight \in {turn, NoTurn} /\ 0 \notin Turns
    BY JournalAssumption DEF Typed, TypeOK, NoTurn, Fresh
  <1>b. \A t \in Turns : marks[t] \subseteq marks'[t] /\ (Settled(t) => Settled(t)')
    BY <1>a, MarksGrow DEF Has, Settled
  <1>c. \A t \in 1..accepted : t \in Pending \union parked \union BeingTold \/ Settled(t)
    BY DEF ReasonKnown, NothingOwedIsForgottenUnlessMuted, Settled
  <1>d. ASSUME accepted' = accepted,
               \A t \in 1..accepted :
                 t \in Pending \union parked \union BeingTold =>
                   t \in Pending' \union parked' \union BeingTold' \/ Settled(t)'
        PROVE  NothingOwedIsForgottenUnlessMuted'
    BY <1>a, <1>b, <1>c, <1>d DEF NothingOwedIsForgottenUnlessMuted, Settled
  <1>e. \A t : "muted" \in marks'[t] \/ "stopped" \in marks'[t] => Settled(t)'
    BY DEF Settled, Has
  <1>1. CASE GoesOn
    <2>1. /\ UNCHANGED <<turn, parked, accepted>> /\ turn \in Turns /\ stage \notin {"none", "created"}
          /\ Pending \ {turn} \subseteq Pending'
      <3>1. turn # 0
        BY <1>1, <1>a DEF GoesOn, StartFails, Refuse, RefusalSent, RefusalRaises, Dispatch,
           Reported, AgentAnswers, AgentFails, ReplyLands, ReplyReturns, ReplyRaises, NoticeSent,
           NoticeRaises, Close, CloseRaises, ForgetParked, CancelRun, CancelNotice,
           CancelOutside, Awake, TypeOK, NoTurn
      <3>2. QED
        BY <1>a, <1>1, <3>1, GoesOnTouches, GoesOnStays DEF TypeOK, NoTurn
    <2>2. ASSUME \/ stage' = "refusing" \/ Settled(turn)' \/ turn \in parked
                 \/ Pending' = Pending /\ stage # "refusing"
          PROVE  NothingOwedIsForgottenUnlessMuted'
      BY <1>a, <1>d, <2>1, <2>2 DEF BeingTold
    <2>3. ASSUME NEW m \in {"answered", "told", "stopped", "muted"}, Marked({turn}, m)
          PROVE  Settled(turn)' /\ (m = "answered" => "answered" \in marks'[turn])
      BY <1>a, <2>1, <2>3 DEF Marked, Settled, Has
    <2>4. stage = "replied" => Settled(turn)'
      BY <1>b, <2>1 DEF ReasonKnown, Settled, Has
    <2>5. CASE StartFails \/ Reported \/ AgentAnswers \/ AgentFails \/ ReplyRaises
               \/ CancelRun
      <3>1. Pending' = Pending /\ stage # "refusing" /\ stage' \notin {"replied", "parking"}
        BY <2>5, JournalKept DEF StartFails, Reported, AgentAnswers, AgentFails, ReplyRaises,
           CancelRun, Goto, Launch, Finally, Awake, journalVars
      <3>2. QED
        BY <2>2, <3>1 DEF ReasonKnown
    <2>6. CASE Dispatch
      <3>1. Pending' = Pending /\ stage # "refusing" /\ stage' \notin {"replied", "parking"}
        BY <1>a, <2>1, <2>6, MarkKeeps DEF Dispatch, Goto, Launch, Awake
      <3>2. QED
        BY <2>2, <3>1 DEF ReasonKnown
    <2>7. CASE Refuse \/ Close \/ CloseRaises
      <3>1. /\ stage' \notin {"replied", "parking"} /\ stage # "refusing"
            /\ stage' = "refusing" \/ UNCHANGED journalVars
        BY <2>7 DEF Refuse, Close, CloseRaises, Misread, Goto, Awake
      <3>2. QED
        BY <2>2, <3>1, JournalKept DEF ReasonKnown, journalVars
    <2>8. CASE RefusalSent \/ RefusalRaises \/ NoticeSent \/ NoticeRaises \/ CancelNotice
      <3>1. Settled(turn)' /\ stage' \notin {"replied", "parking"}
        BY <2>3, <2>8 DEF RefusalSent, RefusalRaises, NoticeSent, NoticeRaises, CancelNotice, Goto,
           Finally
      <3>2. QED
        BY <2>2, <3>1 DEF ReasonKnown
    <2>9. CASE ReplyReturns
      BY <2>2, <2>4, <2>9 DEF ReplyReturns, Finally, Awake, ReasonKnown
    <2>10. CASE ReplyLands
      <3>1. Settled(turn)' /\ "answered" \in marks'[turn] /\ stage' = "replied"
        BY <2>3, <2>10 DEF ReplyLands, Goto
      <3>2. QED
        BY <2>1, <2>2, <3>1 DEF ReasonKnown
    <2>11. CASE ForgetParked
      BY <2>2, <2>11 DEF ForgetParked, ReasonKnown
    <2>12. CASE CancelOutside
      <3>1. stage' \notin {"replied", "parking"} /\ UNCHANGED journalVars
            /\ (stage = "refusing" => "muted" \in marks'[turn])
        BY <1>a, <2>1, <2>12 DEF CancelOutside
      <3>2. QED
        BY <1>e, <2>1, <2>2, <3>1, JournalKept DEF ReasonKnown, journalVars
    <2>13. QED
      BY <1>1, <2>5, <2>6, <2>7, <2>8, <2>9, <2>10, <2>11, <2>12 DEF GoesOn
  <1>2. CASE TakesUp \/ Quits \/ ParksIt
    <2>1. /\ Pending' = Pending /\ parked \subseteq parked' /\ accepted' = accepted
          /\ stage # "refusing" /\ stage' # "replied" /\ (stage' = "parking" => turn' \in parked')
      BY <1>2, JournalKept DEF TakesUp, NextTurn, Quits, TaskEnds, ParksIt, Park, Goto, journalVars,
         historyVars
    <2>2. QED
      BY <1>d, <2>1 DEF ReasonKnown, BeingTold
  <1>3. CASE Boot
    <2>1. UNCHANGED <<stage, turn, accepted>> /\ stage = "none"
          /\ Pending \union parked \subseteq Pending' \union parked'
      <3>1. CASE Take
        BY <1>3, <1>a, <3>1, TakeReplays DEF Boot, taskVars, historyVars, InOrder, Replayable
      <3>2. CASE TakeCut
        BY <1>3, <3>2, JournalKept DEF Boot, taskVars, historyVars, InOrder, TakeCut
      <3>3. QED
        BY <1>3, <3>1, <3>2 DEF Boot
    <2>2. QED
      BY <1>d, <2>1 DEF ReasonKnown, BeingTold
  <1>4. CASE PhaseMoves \/ Idles
    <2>1. UNCHANGED <<stage, turn, accepted, marks, parked>> /\ Pending' = Pending
      BY <1>4, JournalKept DEF PhaseMoves, Offered, Listen, BeginShutdown, Shutdown, Idles,
         TimePasses, Tick, vars, taskVars, historyVars, journalVars
    <2>2. QED
      BY <1>d, <2>1 DEF ReasonKnown, BeingTold
  <1>5. CASE Vanishes
    <2>1. /\ UNCHANGED <<accepted, parked>> /\ Pending' = Pending /\ stage' = "none"
          /\ (stage = "refusing" => "muted" \in marks'[turn])
      BY <1>5, <1>a, JournalKept DEF Vanishes, Exit, Kill, ProcessGone, historyVars, journalVars
    <2>2. CASE stage = "refusing"
      <3>1. \A t \in BeingTold : "muted" \in marks'[t]
        BY <2>1, <2>2 DEF BeingTold
      <3>2. QED
        BY <1>d, <1>e, <2>1, <3>1 DEF ReasonKnown
    <2>3. CASE stage # "refusing"
      BY <1>d, <2>1, <2>3 DEF ReasonKnown, BeingTold
    <2>4. QED
      BY <2>2, <2>3
  <1>6. ASSUME NEW t \in Turns, Requeue(t) PROVE ReasonKnown'
    <2>1. /\ UNCHANGED <<turn, accepted, marks, parked>> /\ Pending' = Pending
          /\ (stage' = stage \/ (stage = "none" /\ stage' = "created"))
      BY <1>6, JournalKept DEF Requeue, Enqueue, historyVars, journalVars
    <2>2. QED
      BY <1>d, <2>1 DEF ReasonKnown, BeingTold
  <1>7. ASSUME NEW t \in Turns, Accept(t) PROVE ReasonKnown'
    <2>1. /\ t = accepted + 1 /\ accepted' = t /\ UNCHANGED turn
          /\ (stage' = stage \/ (stage = "none" /\ stage' = "created"))
      BY <1>7 DEF Accept, Enqueue
    <2>2. Pending' = Pending \union {t} /\ parked' = parked
      BY <1>a, <1>7, RecordAdds DEF Accept
    <2>3. \A u \in 1..accepted' : u \in 1..accepted \/ u = t
      BY <1>a, <2>1
    <2>4. NothingOwedIsForgottenUnlessMuted'
      BY <1>a, <1>b, <1>c, <2>1, <2>2, <2>3 DEF NothingOwedIsForgottenUnlessMuted, BeingTold, Settled
    <2>5. QED
      BY <1>a, <1>b, <2>1, <2>2, <2>4 DEF ReasonKnown
  <1>8. CASE Stop
    <2>1. /\ UNCHANGED <<stage, turn, accepted, parked>>
          /\ Pending' = Pending \ (Queued \union {inFlight})
          /\ \A t \in Turns : t \in Queued \union {turn} => "stopped" \in marks'[t]
      BY <1>a, <1>8, ForgetDrops DEF Stop
    <2>3. NothingOwedIsForgottenUnlessMuted'
      BY <1>a, <1>d, <1>e, <2>1 DEF BeingTold, NoTurn
    <2>4. QED
      BY <1>a, <1>b, <2>1, <2>3 DEF ReasonKnown
  <1>9. QED
    BY <1>1, <1>2, <1>3, <1>4, <1>5, <1>6, <1>7, <1>8, StepKinds
-----------------------------------------------------------------------------
(* A turn that is over is not run again.                                   *)

LEMMA OverInit == Init => OverIsForgotten
  BY DEF Init, OverIsForgotten, JournalInit, Pending, Blank

\* The marks that a task's step puts on its turn.
LEMMA GoesOnMarks ==
  ASSUME TypeOK, GoesOn
  PROVE  \A t \in Turns :
           /\ "stopped" \in marks'[t] => "stopped" \in marks[t]
           /\ "answered" \in marks'[t] => "answered" \in marks[t] \/ stage' = "replied"
  <1>a. marks \in [Turns -> SUBSET Marks]
    BY DEF TypeOK
  <1>1. ASSUME NEW m, m \notin {"stopped", "answered"}, Marked({turn}, m)
        PROVE  \A t \in Turns : /\ "stopped" \in marks'[t] => "stopped" \in marks[t]
                                /\ "answered" \in marks'[t] => "answered" \in marks[t]
    BY <1>a, <1>1 DEF Marked
  <1>2. CASE RefusalSent \/ RefusalRaises \/ NoticeSent \/ NoticeRaises \/ CloseRaises \/ CancelNotice
    BY <1>1, <1>2 DEF RefusalSent, RefusalRaises, NoticeSent, NoticeRaises, CloseRaises, CancelNotice
  <1>3. CASE CancelRun
    BY <1>1, <1>3 DEF CancelRun
  <1>4. CASE ReplyLands
    BY <1>a, <1>4 DEF ReplyLands, Marked, Goto
  <1>5. CASE CancelOutside
    BY <1>a, <1>5 DEF CancelOutside
  <1>6. CASE UNCHANGED marks
    BY <1>6
  <1>7. QED
    BY <1>2, <1>3, <1>4, <1>5, <1>6
       DEF GoesOn, StartFails, Refuse, Dispatch, Reported, AgentAnswers, AgentFails, ReplyReturns,
           ReplyRaises, Close, ForgetParked, historyVars

\* A step takes the turn in hand out of its reply only with its record, or with a mark.
LEMMA GoesOnAnswered ==
  ASSUME Typed, GoesOn, stage \in {"replied", "noticing"}
  PROVE  turn \notin Pending' \/ stage' \in {"replied", "noticing"} \/ "cut" \in marks'[turn]
  <1>1. CASE Forget({turn})
    BY <1>1, ForgetDrops
  <1>2. CASE CancelRun
    <2>1. turn \in Turns /\ stage = "replied"
      BY <1>2 DEF CancelRun, Typed, TypeOK, NoTurn
    <2>2. QED
      BY <1>2, <2>1 DEF CancelRun, Marked, Typed, TypeOK
  <1>3. QED
    BY <1>1, <1>2 DEF GoesOn, StartFails, Refuse, RefusalSent, RefusalRaises, Dispatch, Reported,
       AgentAnswers, AgentFails, ReplyLands, ReplyReturns, ReplyRaises, NoticeSent, NoticeRaises,
       Close, CloseRaises, ForgetParked, CancelNotice, CancelOutside, Awake, Goto

LEMMA OverStep ==
  Typed /\ Fresh /\ InOrder /\ OverIsForgotten /\ [Next]_vars => OverIsForgotten'
  <1> SUFFICES ASSUME Typed, Fresh, InOrder, OverIsForgotten, [Next]_vars PROVE OverIsForgotten'
    OBVIOUS
  <1>a. /\ JournalTypeOK /\ TypeOK /\ turn \in Turns \union {0} /\ 0 \notin Turns
        /\ marks \in [Turns -> SUBSET Marks] /\ Pending \subseteq Turns
        /\ inFlight \in {turn, NoTurn} /\ accepted \in Nat
    BY JournalAssumption DEF Typed, TypeOK, NoTurn, Pending
  <1>b. \A t \in Turns : marks[t] \subseteq marks'[t]
    BY <1>a, MarksGrow
  <1>c. OverIsForgotten' <=>
          /\ \A t \in Pending' : "stopped" \in marks'[t] => "early" \in marks'[t]
          /\ \A t \in Pending' : "answered" \in marks'[t] =>
               "cut" \in marks'[t] \/ (t = turn' /\ stage' \in {"replied", "noticing"})
          /\ \A t \in Pending' \intersect parked' :
               \/ "split" \in marks'[t]
               \/ t = turn' /\ stage' = "parking"
               \/ phase' = "down" /\ t \in Parkable'
    BY DEF OverIsForgotten, Has
  <1>d. /\ \A t \in Pending : "stopped" \in marks[t] => "early" \in marks[t]
        /\ \A t \in Pending : "answered" \in marks[t] =>
             "cut" \in marks[t] \/ (t = turn /\ stage \in {"replied", "noticing"})
        /\ \A t \in Pending \intersect parked :
             \/ "split" \in marks[t]
             \/ t = turn /\ stage = "parking"
             \/ phase = "down" /\ t \in Parkable
    BY DEF OverIsForgotten, Has
  <1>1. CASE GoesOn
    <2>1. /\ UNCHANGED <<turn, phase, parked>> /\ Pending' \subseteq Pending /\ phase # "down"
      BY <1>a, <1>1, GoesOnTouches, GoesOnStays DEF daemonVars, InOrder
    <2>2. \A t \in Pending' : "stopped" \in marks'[t] => "early" \in marks'[t]
      BY <1>a, <1>b, <1>d, <1>1, <2>1, GoesOnMarks
    <2>3. ASSUME NEW t \in Pending', "answered" \in marks'[t]
          PROVE  "cut" \in marks'[t] \/ (t = turn /\ stage' \in {"replied", "noticing"})
      <3>1. CASE t = turn
        <4>1. "answered" \in marks[t] \/ stage' = "replied"
          BY <1>a, <1>1, <2>1, <2>3, GoesOnMarks
        <4>2. QED
          BY <1>a, <1>b, <1>d, <1>1, <2>1, <3>1, <4>1, GoesOnAnswered
      <3>2. CASE t # turn
        BY <1>a, <1>b, <1>d, <1>1, <2>1, <2>3, <3>2, GoesOnTouches DEF Spares
      <3>3. QED
        BY <3>1, <3>2
    <2>4. stage = "parking" => turn \notin Pending'
      BY <1>1, ForgetDrops DEF GoesOn, StartFails, Refuse, RefusalSent, RefusalRaises, Dispatch,
         Reported, AgentAnswers, AgentFails, ReplyLands, ReplyReturns, ReplyRaises, NoticeSent,
         NoticeRaises, Close, CloseRaises, ForgetParked, CancelRun, CancelNotice, CancelOutside,
         Awake
    <2>5. \A t \in Pending' \intersect parked' : "split" \in marks'[t]
      BY <1>a, <1>b, <1>d, <2>1, <2>4
    <2>6. QED
      BY <1>c, <2>1, <2>2, <2>3, <2>5
  <1>2. CASE TakesUp \/ Quits
    <2>1. /\ Pending' = Pending /\ UNCHANGED <<parked, marks, phase, journal, clock>>
          /\ stage \notin {"replied", "noticing", "parking", "none"}
      BY <1>2, JournalKept DEF TakesUp, Quits, journalVars, historyVars, daemonVars
    <2>2. phase # "down"
      BY <2>1 DEF InOrder
    <2>3. QED
      BY <1>c, <1>d, <2>1, <2>2
  <1>3. CASE ParksIt
    <2>1. /\ Pending' = Pending /\ parked' = parked \union {turn} /\ UNCHANGED <<marks, phase, turn>>
          /\ stage = "completing" /\ stage' = "parking"
      BY <1>3, JournalKept DEF ParksIt, Park, Goto, historyVars, daemonVars
    <2>2. phase # "down"
      BY <2>1 DEF InOrder
    <2>3. QED
      BY <1>c, <1>d, <2>1, <2>2
  <1>4. CASE Boot
    <2>1. UNCHANGED <<stage, turn, marks>> /\ stage = "none" /\ phase = "down"
      BY <1>4 DEF Boot, taskVars, historyVars, InOrder
    <2>2. CASE Take
      <3>1. Pending' = Pending \ Parkable /\ parked' = parked \union Parkable
        BY <1>a, <2>2, TakeReplays DEF Replayable
      <3>2. QED
        BY <1>c, <1>d, <2>1, <3>1
    <2>3. CASE TakeCut /\ UNCHANGED phase
      <3>1. /\ Pending' = Pending /\ Parkable' = Parkable /\ parked' \subseteq parked \union Parkable
        BY <2>3, JournalKept DEF TakeCut, Parkable, Stale, Exhausted
      <3>2. QED
        BY <1>c, <1>d, <2>1, <2>3, <3>1
    <2>4. QED
      BY <1>4, <2>2, <2>3 DEF Boot
  <1>5. CASE PhaseMoves
    <2>1. /\ UNCHANGED <<stage, turn, marks, parked>> /\ Pending' = Pending /\ phase # "down"
      BY <1>5, JournalKept DEF PhaseMoves, Offered, Listen, BeginShutdown, Shutdown, taskVars,
         historyVars, journalVars
    <2>2. QED
      BY <1>c, <1>d, <2>1
  <1>6. CASE Idles
    <2>1. /\ UNCHANGED <<stage, turn, marks, parked, phase, journal>> /\ Pending' = Pending
          /\ (clock' = clock \/ clock' = clock + 1)
      BY <1>6, JournalKept DEF Idles, TimePasses, Tick, vars, taskVars, historyVars, daemonVars,
         journalVars
    <2>2. Parkable \subseteq Parkable'
      <3>1. /\ clock \in Nat /\ Ttl \in Nat
            /\ \A t \in Turns : journal[t].at \in Nat
        BY <1>a, JournalAssumption DEF JournalTypeOK, Entries
      <3>2. ASSUME NEW t \in Pending, Stale(t) PROVE Stale(t)'
        BY <1>a, <2>1, <3>1, <3>2 DEF Stale
      <3>3. \A t : Exhausted(t) => Exhausted(t)'
        BY <2>1 DEF Exhausted
      <3>4. QED
        BY <2>1, <3>2, <3>3 DEF Parkable
    <2>3. QED
      BY <1>c, <1>d, <2>1, <2>2
  <1>7. CASE Vanishes
    <2>1. Pending' = Pending /\ UNCHANGED <<parked, journal, clock>> /\ phase # "down"
      BY <1>7, JournalKept DEF Vanishes, Exit, Kill, journalVars
    <2>2. /\ \A t \in Turns : /\ "stopped" \in marks'[t] => "stopped" \in marks[t]
                              /\ "answered" \in marks'[t] => "answered" \in marks[t]
          /\ turn \in Turns /\ stage = "parking" => "split" \in marks'[turn]
          /\ turn \in Turns /\ "answered" \in marks[turn] /\ stage \in {"replied", "noticing"}
               => "cut" \in marks'[turn]
      BY <1>a, <1>7 DEF Vanishes, Exit, Kill, historyVars
    <2>3. QED
      BY <1>a, <1>b, <1>c, <1>d, <2>1, <2>2
  <1>8. ASSUME NEW t \in Turns, Requeue(t) PROVE OverIsForgotten'
    <2>1. /\ UNCHANGED <<turn, marks, parked, phase>> /\ Pending' = Pending /\ phase # "down"
          /\ (stage' = stage \/ stage = "none")
      BY <1>8, JournalKept DEF Requeue, Enqueue, historyVars, journalVars
    <2>2. QED
      BY <1>c, <1>d, <2>1
  <1>9. ASSUME NEW t \in Turns, Accept(t) PROVE OverIsForgotten'
    <2>1. t = accepted + 1 /\ UNCHANGED <<turn, phase>> /\ phase # "down"
          /\ (stage' = stage \/ stage = "none")
      BY <1>9 DEF Accept, Enqueue, daemonVars
    <2>2. Pending' = Pending \union {t} /\ parked' = parked /\ t \notin parked /\ marks[t] = {}
      BY <1>a, <1>9, <2>1, RecordAdds DEF Accept, Fresh
    <2>3. /\ marks'[t] \subseteq {"stranded"} /\ \A u \in Turns : u # t => marks'[u] = marks[u]
      BY <1>a, <1>9, <2>2 DEF Accept, Marked
    <2>4. QED
      BY <1>a, <1>c, <1>d, <2>1, <2>2, <2>3
  <1>10. CASE Stop
    <2>1. /\ UNCHANGED <<stage, turn, parked, phase>> /\ phase # "down"
          /\ Pending' = Pending \ (Queued \union {inFlight})
      BY <1>10, ForgetDrops DEF Stop
    <2>2. \A t \in Turns :
            /\ t \notin Queued \union {turn} => marks'[t] = marks[t]
            /\ "answered" \in marks'[t] => "answered" \in marks[t]
            /\ t = turn /\ t \in Pending \ {inFlight} => "early" \in marks'[t]
      BY <1>a, <1>10 DEF Stop
    <2>3. QED
      BY <1>a, <1>b, <1>c, <1>d, <2>1, <2>2
  <1>11. QED
    BY <1>1, <1>2, <1>3, <1>4, <1>5, <1>6, <1>7, <1>8, <1>9, <1>10, StepKinds
-----------------------------------------------------------------------------
(* The theorems.                                                           *)

LEMMA IInvInit == Init => IInv
  <1> SUFFICES ASSUME Init PROVE IInv
    OBVIOUS
  <1>1. HeldInHand /\ RecordsInHand
    BY DEF Init, HeldInHand, RecordsInHand, NoTurn, Pending, JournalInit, Blank
  <1>2. QED
    BY <1>1, TypedInit, OrderInit, RunsInit, DatedInit, ReasonInit, OverInit
       DEF IInv, Shape, Typed

LEMMA IInvStep == IInv /\ [Next]_vars => IInv'
  <1> SUFFICES ASSUME IInv, [Next]_vars PROVE IInv'
    OBVIOUS
  <1>1. /\ Typed /\ Fresh /\ InOrder /\ RunsCounted /\ FirstIsDated /\ ReasonKnown
        /\ RecordsInHand /\ HeldInHand /\ OverIsForgotten
    BY DEF IInv, Shape, Typed
  <1>2. /\ Typed' /\ Fresh' /\ InOrder' /\ RunsCounted' /\ FirstIsDated' /\ ReasonKnown'
        /\ RecordsInHand' /\ HeldInHand' /\ OverIsForgotten'
    BY <1>1, TypedStep, FreshStep, OrderStep, RunsStep, DatedStep, ReasonStep, RecordsStep,
       HeldStep, OverStep
  <1>3. QED
    BY <1>2 DEF IInv, Shape, Typed

LEMMA IInvHolds == Spec => []IInv
  BY IInvInit, IInvStep, PTL DEF Spec

\* Every variable keeps its type, with any number of turns, lives and stops.
THEOREM ChatTypeCorrect == Spec => []TypeOK
  <1>1. IInv => TypeOK
    BY DEF IInv, Shape
  <1>2. QED
    BY <1>1, IInvHolds, PTL

\* resume_pending: however often the daemon dies, and wherever, a turn is run at most
\* MAX_REPLAYS times after its first run.
THEOREM RunsAreBounded == Spec => []RunsBounded
  <1>1. IInv => RunsBounded
    BY DEF IInv, Shape, RunsCounted
  <1>2. QED
    BY <1>1, IInvHolds, PTL

\* PendingTurn.recorded_at: the age of a first attempt runs from its dispatch.
THEOREM FirstAttemptMeasured == Spec => []FirstAttemptIsMeasured
  <1>1. IInv => FirstAttemptIsMeasured
    BY DEF IInv, FirstIsDated, FirstAttemptIsMeasured, Stale
  <1>2. QED
    BY <1>1, IInvHolds, PTL

\* The finally of _process_turn: a record goes when nothing is owed any more.
THEOREM NothingOwedForgotten == Spec => []NothingOwedIsForgottenUnlessMuted
  <1>1. IInv => NothingOwedIsForgottenUnlessMuted
    BY DEF IInv, ReasonKnown
  <1>2. QED
    BY <1>1, IInvHolds, PTL

\* _drain and the finally of _process: no record and no pane is left behind.
THEOREM NothingLeftBehind == Spec => []NothingIsLeftBehind
  <1>1. IInv => HeldByItsTurn
    BY DEF IInv, HeldInHand, HeldByItsTurn
  <1>2. IInv => JournaledIsInHand
    BY DEF IInv, Shape, InOrder, RecordsInHand, JournaledIsInHand
  <1>3. QED
    BY <1>1, <1>2, IInvHolds, PTL DEF NothingIsLeftBehind

\* resume_pending and _drain: what is taken up is older than everything that waits.
THEOREM TakenInOrder == Spec => OldestFirst
  <1>1. IInv' => (turn' # turn /\ turn' # NoTurn
                  => \A t \in Range(queue') \union resuming' : turn' < t)
    BY DEF IInv, Shape, InOrder, Queued
  <1>2. QED
    BY <1>1, IInvHolds, PTL DEF OldestFirst

\* abort, _process_turn and park: no agent runs again for a turn that was stopped,
\* answered or parked, but through the gaps that are named.
THEOREM SettledIsFinal == Spec => SettledNeverRerun
  <1>1. ASSUME IInv, [Next]_vars, NEW t \in Turns, starts'[t] # starts[t]
        PROVE  /\ ~(Has(t, {"stopped"}) /\ ~Has(t, {"early"}))
               /\ ~(Has(t, {"answered"}) /\ ~Has(t, {"cut"}))
               /\ t \in parked => Has(t, {"split"})
    <2>1. t = turn /\ stage \in {"starting", "reporting"}
      <3>1. Typed /\ TypeOK
        BY <1>1 DEF IInv, Shape, Typed
      <3>2. CASE GoesOn
        <4>1. Dispatch \/ Reported
          BY <1>1, <3>1, <3>2, GoesOnToRun
        <4>2. QED
          BY <1>1, <3>1, <3>2, <4>1, GoesOnTouches DEF Spares, Dispatch, Reported, Awake
      <3>3. CASE UNCHANGED starts
        BY <1>1, <3>3
      <3>4. QED
        BY <1>1, <3>2, <3>3, StepKinds DEF TakesUp, Quits, ParksIt, Boot, PhaseMoves, Offered,
           Listen, BeginShutdown, Shutdown, Vanishes, Exit, Kill, Requeue, Accept, Stop, Idles,
           TimePasses, vars, historyVars
    <2>2. t \in Pending /\ phase # "down"
      BY <1>1, <2>1 DEF IInv, Shape, RunsCounted, Waiting, Starting, InOrder
    <2>3. QED
      BY <1>1, <2>1, <2>2 DEF IInv, OverIsForgotten
  <1>2. IInv /\ [Next]_vars =>
          /\ \A t \in Turns : Has(t, {"stopped"}) /\ ~Has(t, {"early"}) => starts'[t] = starts[t]
          /\ \A t \in Turns : Has(t, {"answered"}) /\ ~Has(t, {"cut"}) => starts'[t] = starts[t]
          /\ \A t \in parked : ~Has(t, {"split"}) => starts'[t] = starts[t]
    <2>1. IInv => parked \subseteq Turns
      BY DEF IInv, Shape, TypeOK, JournalTypeOK
    <2>2. QED
      BY <1>1, <2>1
  <1>3. QED
    BY <1>2, IInvHolds, PTL DEF Spec, SettledNeverRerun, StoppedStaysStoppedUnlessEarly,
       AnsweredRunsOnceUnlessCut, ParkedNeverReplayedUnlessSplit
=============================================================================
