------------------------------ MODULE ChatTurns ------------------------------
(***************************************************************************)
(* orchestrator.py: the turns of one chat.  on_message journals a turn and *)
(* queues it; one drain task at a time works the queue off; $stop (abort)  *)
(* empties it and cancels the task; a shutdown cancels the task; a killed  *)
(* daemon is started again and resumes what the journal still holds.       *)
(* Everything runs on one event loop: a step here is the stretch between   *)
(* two awaits, and only a kill can cut one ("parking" is the one stretch   *)
(* with two durable writes).  Compaction turns, which are not journaled,   *)
(* are left out.                                                           *)
(***************************************************************************)
EXTENDS TurnJournal, Sequences, Functions

CONSTANTS Faults,   \* whether turn setup and the frontend's calls may fail
          MaxLives, \* bound: daemon processes; the last one is left running
          MaxStops  \* bound: how often the person says $stop

ASSUME ChatAssumption ==
  /\ Faults \in BOOLEAN
  /\ MaxLives \in Nat \ {0}
  /\ MaxStops \in Nat

VARIABLES phase,     \* where the daemon's main is
          resuming,  \* what resume_pending has yet to re-queue
          queue,     \* _queues[chat]
          stage,     \* what the drain task in _running[chat] is awaiting
          turn,      \* the turn it has taken from the queue
          inFlight,  \* _in_flight[chat]["journal_id"]
          cancelled, \* task.cancel() was called and is not delivered yet
          ending,    \* how the turn ends: "ok", or the exception in flight
          held,      \* turns whose pane, relay and command token are not released
          lives, stops,
          accepted,  \* history: turns accepted; they are 1..accepted
          starts,    \* history: agent runs of each turn
          tried,     \* history: when each turn was last dispatched, Never before
          marks      \* history: what has happened to each turn

taskVars == <<queue, stage, turn, inFlight, cancelled, ending, held>>
daemonVars == <<phase, resuming, lives, stops>>
historyVars == <<accepted, starts, tried, marks>>
vars == <<journalVars, taskVars, daemonVars, historyVars>>

NoTurn == 0
Never == -1

Phases == {"down", "offering", "replaying", "up", "notifying", "stopping"}

(* "created": the task has not run yet.  "starting": notify_start.          *)
(* "refusing": the send of _process_with_account, which answers every       *)
(* OSError of the turn as an account error.  "reporting": the config notice.*)
(* "running": proxies, agent.run, the relay's close.  "replying", "replied":*)
(* the reply's send, before and after it landed.  "noticing": the error     *)
(* notice's send.  "closing": the awaits of the turn's finally.             *)
(* "completing": notify_complete.  "parking": between park and forget.      *)
(* "retiring": retire_failed_turn and the offer.                            *)
Stages == {"none", "created", "starting", "refusing", "reporting", "running", "replying",
           "replied", "noticing", "closing", "completing", "parking", "retiring"}

(* "answered": the reply landed.  "told": an error notice did.  "stopped":  *)
(* the person stopped it; "early": while it was not in flight.  "muted": its   *)
(* error notice was cut.  "cut": the process was stopped between the reply  *)
(* and forget; "split": between park and forget.  "stranded": it was queued *)
(* behind a cancelled task.  "unclosed": its clean-up was cut.              *)
Marks == {"answered", "told", "stopped", "early", "muted", "cut", "split", "stranded",
          "unclosed"}

TypeOK ==
  /\ JournalTypeOK
  /\ phase \in Phases /\ resuming \subseteq Turns
  /\ queue \in Seq(Turns) /\ stage \in Stages
  /\ turn \in Turns \union {NoTurn}
  /\ inFlight \in {turn, NoTurn}
  /\ cancelled \in BOOLEAN /\ (cancelled => stage # "none")
  /\ ending \in {"ok", "cancel", "error", "oserror"} /\ held \subseteq Turns
  /\ (turn = NoTurn) <=> (stage \in {"none", "created"})
  /\ lives \in 0..MaxLives /\ stops \in 0..MaxStops /\ accepted \in Nat
  /\ starts \in [Turns -> Nat] /\ tried \in [Turns -> Nat \union {Never}]
  /\ marks \in [Turns -> SUBSET Marks]

Init ==
  /\ JournalInit
  /\ phase = "down" /\ resuming = {}
  /\ queue = <<>> /\ stage = "none" /\ turn = NoTurn /\ inFlight = NoTurn
  /\ cancelled = FALSE /\ ending = "ok" /\ held = {}
  /\ lives = 0 /\ stops = 0 /\ accepted = 0
  /\ starts = [t \in Turns |-> 0] /\ tried = [t \in Turns |-> Never]
  /\ marks = [t \in Turns |-> {}]

Marked(S, m) == marks' = [t \in Turns |-> IF t \in S THEN marks[t] \union {m} ELSE marks[t]]

Queued == Range(queue)

\* Only a kill can step in between park and forget.
LoopFree == stage # "parking"

\* Mutant: the drain is taken to be alive.
EnqueueOnly(t) ==
  /\ queue' = Append(queue, t)
  /\ stage' = stage

\* _enqueue: behind a live drain the turn waits, otherwise it gets a new task.
Enqueue(t) ==
  /\ queue' = Append(queue, t)
  /\ stage' = IF stage = "none" THEN "created" ELSE stage

-----------------------------------------------------------------------------
(* The person.                                                             *)

\* on_message: journal, queue and task without an await in between.
Accept(t) ==
  /\ phase \in {"up", "notifying"}
  /\ LoopFree
  /\ t = accepted + 1
  /\ accepted' = t
  /\ Record(t)
  /\ Enqueue(t)
  /\ IF cancelled \/ ending = "cancel" THEN Marked({t}, "stranded") ELSE UNCHANGED marks
  /\ UNCHANGED <<turn, inFlight, cancelled, ending, held, daemonVars, starts, tried>>

\* Mutant: the queue is emptied and its turns stay journaled.
StopKeepsRecords ==
  /\ phase \in {"up", "notifying"}
  /\ LoopFree
  /\ stops < MaxStops
  /\ stops' = stops + 1
  /\ queue' = <<>>
  /\ cancelled' = (stage # "none")
  /\ Forget({inFlight})
  /\ marks' = [t \in Turns |-> marks[t] \union (IF t \in Queued THEN {"stopped"} ELSE {})]
  /\ UNCHANGED <<stage, turn, inFlight, ending, held, phase, resuming, lives, accepted,
                 starts, tried>>

\* abort: what waits is dropped and forgotten, the task is cancelled, and its
\* turn is forgotten if it got as far as _in_flight.
Stop ==
  /\ phase \in {"up", "notifying"}
  /\ LoopFree
  /\ stops < MaxStops
  /\ stops' = stops + 1
  /\ queue' = <<>>
  /\ cancelled' = (stage # "none")
  /\ Forget(Queued \union {inFlight})
  /\ LET early == ({turn} \intersect Pending) \ {inFlight}
     IN marks' = [t \in Turns |->
          marks[t] \union (IF t \in Queued \union {turn} THEN {"stopped"} ELSE {})
                   \union (IF t \in early THEN {"early"} ELSE {})]
  /\ UNCHANGED <<stage, turn, inFlight, ending, held, phase, resuming, lives, accepted,
                 starts, tried>>

TimePasses == Tick /\ UNCHANGED <<taskVars, daemonVars, historyVars>>

-----------------------------------------------------------------------------
(* The drain task, up to the agent's answer.                               *)

\* A step of the task that is not the delivery of a cancellation.
Awake(s) == stage = s /\ ~cancelled

Goto(s, how) ==
  /\ stage' = s /\ ending' = how
  /\ UNCHANGED <<queue, turn, inFlight, cancelled, held>>

\* The top of _drain's loop: the next turn, or the task is done.
NextTurn ==
  /\ IF queue = <<>>
     THEN stage' = "none" /\ turn' = NoTurn /\ UNCHANGED queue
     ELSE stage' = "starting" /\ turn' = Head(queue) /\ queue' = Tail(queue)
  /\ ending' = "ok"
  /\ UNCHANGED <<inFlight, cancelled, held>>

Begin ==
  /\ Awake("created")
  /\ NextTurn
  /\ UNCHANGED <<journalVars, daemonVars, historyVars>>

\* notify_start raised, the configuration does not resolve, or setup failed.
StartFails ==
  /\ Faults
  /\ Awake("starting") \/ Awake("reporting")
  /\ Goto("completing", "error")
  /\ UNCHANGED <<journalVars, daemonVars, historyVars>>

\* An AccountError or OSError that leaves the turn is taken for a failed account
\* selection, also an OSError that took a cancellation's place: forgotten, then told.
Misread == Forget({turn}) /\ Goto("refusing", "ok")

\* No account, or setup before or after the config notice raised an OSError.
Refuse ==
  /\ Faults
  /\ Awake("starting") \/ Awake("reporting")
  /\ Misread
  /\ UNCHANGED <<daemonVars, historyVars>>

RefusalSent ==
  /\ Awake("refusing")
  /\ Marked({turn}, "told")
  /\ Goto("completing", "ok")
  /\ UNCHANGED <<journalVars, daemonVars, accepted, starts, tried>>

RefusalRaises ==
  /\ Faults
  /\ Awake("refusing")
  /\ Marked({turn}, "muted")
  /\ Goto("completing", "error")
  /\ UNCHANGED <<journalVars, daemonVars, accepted, starts, tried>>

Launch ==
  /\ stage' = "running" /\ inFlight' = turn /\ held' = held \union {turn}
  /\ starts' = [starts EXCEPT ![turn] = @ + 1]
  /\ UNCHANGED <<queue, turn, cancelled, ending>>

\* mark_dispatched, and on to the agent unless a config edit is reported first.
Dispatch ==
  /\ Awake("starting")
  /\ MarkDispatched(turn)
  /\ tried' = [tried EXCEPT ![turn] = clock]
  /\ \/ Launch
     \/ Goto("reporting", "ok") /\ UNCHANGED starts
  /\ UNCHANGED <<daemonVars, accepted, marks>>

Reported ==
  /\ Awake("reporting")
  /\ Launch
  /\ UNCHANGED <<journalVars, daemonVars, accepted, tried, marks>>

AgentAnswers ==
  /\ Awake("running")
  /\ Goto("replying", "ok")
  /\ UNCHANGED <<journalVars, daemonVars, historyVars>>

AgentFails ==
  /\ Awake("running")
  /\ Goto("noticing", "ok")
  /\ UNCHANGED <<journalVars, daemonVars, historyVars>>

\* The reply reaches the chat; send has not returned.
ReplyLands ==
  /\ stage = "replying"
  /\ Marked({turn}, "answered")
  /\ Goto("replied", "ok")
  /\ UNCHANGED <<journalVars, daemonVars, accepted, starts, tried>>

-----------------------------------------------------------------------------
(* The turn's finally: forget, unless interrupted, then the awaits.        *)

Finally(how) ==
  /\ stage' = "closing" /\ ending' = how /\ inFlight' = NoTurn
  /\ UNCHANGED <<queue, turn, held>>

\* Mutant: an answered turn's record is left in place.
ReplyReturnsOwing ==
  /\ Awake("replied")
  /\ Finally("ok")
  /\ UNCHANGED <<journalVars, cancelled, daemonVars, historyVars>>

ReplyReturns ==
  /\ Awake("replied")
  /\ Forget({turn})
  /\ Finally("ok")
  /\ UNCHANGED <<cancelled, daemonVars, historyVars>>

\* send raised: the generic error notice is sent instead.
ReplyRaises ==
  /\ Faults
  /\ Awake("replying") \/ Awake("replied")
  /\ Goto("noticing", "ok")
  /\ UNCHANGED <<journalVars, daemonVars, historyVars>>

NoticeSent ==
  /\ Awake("noticing")
  /\ Forget({turn})
  /\ Marked({turn}, "told")
  /\ Finally("ok")
  /\ UNCHANGED <<cancelled, daemonVars, accepted, starts, tried>>

\* The notice's own send raised: forgotten all the same.
NoticeRaises ==
  /\ Faults
  /\ Awake("noticing")
  /\ Forget({turn})
  /\ Marked({turn}, "muted")
  /\ Finally("error") \/ Finally("oserror")
  /\ UNCHANGED <<cancelled, daemonVars, accepted, starts, tried>>

\* Mutant: the clean-up stops at the progress message.
CloseKeeps ==
  /\ Awake("closing")
  /\ Goto("completing", ending)
  /\ UNCHANGED <<journalVars, daemonVars, historyVars>>

\* end_progress, pane, relay and token: all released, in one chain of awaits.
Close ==
  /\ Awake("closing")
  /\ held' = held \ {turn}
  /\ IF ending = "oserror" THEN Forget({turn}) /\ stage' = "refusing" /\ ending' = "ok"
     ELSE stage' = "completing" /\ UNCHANGED <<ending, journalVars>>
  /\ UNCHANGED <<queue, turn, inFlight, cancelled, daemonVars, historyVars>>

CloseRaises ==
  /\ Faults
  /\ Awake("closing")
  /\ Misread \/ (Goto("completing", "error") /\ UNCHANGED journalVars)
  /\ Marked({turn}, "unclosed")
  /\ UNCHANGED <<daemonVars, accepted, starts, tried>>

\* Mutant: the task's locals outlive it.
TaskEndsKeepsTurn ==
  /\ stage' = "none" /\ ending' = "ok" /\ inFlight' = NoTurn
  /\ UNCHANGED <<queue, turn, held>>

TaskEnds ==
  /\ stage' = "none" /\ turn' = NoTurn /\ ending' = "ok" /\ inFlight' = NoTurn
  /\ UNCHANGED <<queue, held>>

\* notify_complete returned, or raised.  A turn that ended in an exception is
\* parked if it is still journaled; a cancellation ends the task.
Complete(how) ==
  /\ Awake("completing")
  /\ \/ how = "ok" /\ NextTurn /\ UNCHANGED journalVars
     \/ how = "cancel" /\ TaskEnds /\ UNCHANGED <<journalVars, cancelled>>
     \/ how = "error" /\ turn \notin Pending /\ NextTurn /\ UNCHANGED journalVars
     \/ how = "error" /\ turn \in Pending /\ Park(turn) /\ Goto("parking", "error")
  /\ UNCHANGED <<daemonVars, historyVars>>

Completes == Complete(ending)

CompleteRaises == Faults /\ Complete("error")

\* Mutant: the parked turn stays in the journal.
ForgetParkedNot ==
  /\ stage = "parking"
  /\ stage' = "retiring"
  /\ UNCHANGED <<queue, turn, inFlight, cancelled, ending, held, journalVars, daemonVars,
                 historyVars>>

ForgetParked ==
  /\ stage = "parking"
  /\ Forget({turn})
  /\ stage' = "retiring"
  /\ UNCHANGED <<queue, turn, inFlight, cancelled, ending, held, daemonVars, historyVars>>

\* The failed turn's markers are retired and its text is offered back.
Retired ==
  /\ Awake("retiring")
  /\ NextTurn
  /\ UNCHANGED <<journalVars, daemonVars, historyVars>>

-----------------------------------------------------------------------------
(* CancelledError, delivered at the await the task is in.                  *)

\* Mutant: the interrupted turn is forgotten like any other.
CancelRunForgets ==
  /\ cancelled /\ cancelled' = FALSE
  /\ stage \in {"running", "replying", "replied"}
  /\ Forget({turn})
  /\ Finally("cancel")
  /\ UNCHANGED <<daemonVars, historyVars>>

\* interrupted: the record is kept.
CancelRun ==
  /\ cancelled /\ cancelled' = FALSE
  /\ stage \in {"running", "replying", "replied"}
  /\ Finally("cancel")
  /\ IF stage = "replied" THEN Marked({turn}, "cut") ELSE UNCHANGED marks
  /\ UNCHANGED <<journalVars, daemonVars, accepted, starts, tried>>

\* In the handler of another exception nothing sets interrupted.
CancelNotice ==
  /\ cancelled /\ cancelled' = FALSE
  /\ stage = "noticing"
  /\ Forget({turn})
  /\ Marked({turn}, "muted")
  /\ Finally("cancel")
  /\ UNCHANGED <<daemonVars, accepted, starts, tried>>

\* Before the turn's own try, or inside its finally: on to notify_complete.
CancelOutside ==
  /\ cancelled /\ cancelled' = FALSE
  /\ stage \in {"starting", "reporting", "refusing", "closing"}
  /\ stage' = "completing" /\ ending' = "cancel"
  /\ marks' = [marks EXCEPT ![turn] = @ \union (CASE stage = "refusing" -> {"muted"}
                                                  [] stage = "closing" -> {"unclosed"}
                                                  [] OTHER -> {})]
  /\ UNCHANGED <<queue, turn, inFlight, held, journalVars, daemonVars, accepted, starts,
                 tried>>

CancelDrain ==
  /\ cancelled /\ cancelled' = FALSE
  /\ stage \in {"created", "completing", "retiring"}
  /\ TaskEnds
  /\ UNCHANGED <<journalVars, daemonVars, historyVars>>

-----------------------------------------------------------------------------
(* The daemon process.                                                     *)

\* resume_pending begins: take reserves or parks every pending turn.
Boot ==
  /\ phase = "down"
  /\ lives < MaxLives
  /\ lives' = lives + 1
  /\ \/ Take /\ phase' = "offering" /\ resuming' = Replayable
     \/ lives' < MaxLives /\ TakeCut /\ UNCHANGED <<phase, resuming>>
  /\ UNCHANGED <<taskVars, stops, historyVars>>

\* The parked ones were offered back, and notify_resumed returned.
Offered ==
  /\ phase = "offering"
  /\ phase' = "replaying"
  /\ UNCHANGED <<journalVars, taskVars, resuming, lives, stops, historyVars>>

Requeue(t) ==
  /\ phase = "replaying"
  /\ LoopFree
  /\ t \in resuming
  /\ \A u \in resuming : t <= u
  /\ resuming' = resuming \ {t}
  /\ Enqueue(t)
  /\ UNCHANGED <<turn, inFlight, cancelled, ending, held, journalVars, phase, lives, stops,
                 historyVars>>

\* Mutant: the frontend starts beside the resume, not after it.
ListenEarly ==
  /\ phase = "replaying"
  /\ phase' = "up"
  /\ UNCHANGED <<journalVars, taskVars, resuming, lives, stops, historyVars>>

\* frontend.start, once everything is queued.
Listen ==
  /\ phase = "replaying"
  /\ resuming = {}
  /\ phase' = "up"
  /\ UNCHANGED <<journalVars, taskVars, resuming, lives, stops, historyVars>>

\* The stop signal: notify_interrupted, while the frontend still listens.
BeginShutdown ==
  /\ phase = "up"
  /\ LoopFree
  /\ lives < MaxLives
  /\ phase' = "notifying"
  /\ UNCHANGED <<journalVars, taskVars, resuming, lives, stops, historyVars>>

\* The frontend is gone; shutdown cancels the drain and waits for it.
Shutdown ==
  /\ phase = "notifying"
  /\ LoopFree
  /\ phase' = "stopping"
  /\ cancelled' = (stage # "none")
  /\ UNCHANGED <<queue, stage, turn, inFlight, ending, held, journalVars, resuming, lives,
                 stops, historyVars>>

ProcessGone ==
  /\ phase' = "down" /\ resuming' = {}
  /\ queue' = <<>> /\ stage' = "none" /\ turn' = NoTurn /\ inFlight' = NoTurn
  /\ cancelled' = FALSE /\ ending' = "ok" /\ held' = {}

Exit ==
  /\ phase = "stopping"
  /\ stage = "none"
  /\ ProcessGone
  /\ UNCHANGED <<journalVars, lives, stops, historyVars>>

\* SIGKILL, a panic, or the end of the supervisor's grace.
Kill ==
  /\ phase # "down"
  /\ lives < MaxLives
  /\ ProcessGone
  /\ marks' = [t \in Turns |->
                 IF t # turn THEN marks[t]
                 ELSE marks[t] \union (CASE stage = "replied" -> {"cut"}
                                         [] stage = "noticing" /\ "answered" \in marks[t] -> {"cut"}
                                         [] stage = "refusing" -> {"muted"}
                                         [] stage = "parking" -> {"split"}
                                         [] OTHER -> {})]
  /\ UNCHANGED <<journalVars, lives, stops, accepted, starts, tried>>

-----------------------------------------------------------------------------
Drain ==
  \/ Begin \/ StartFails \/ Refuse \/ RefusalSent \/ RefusalRaises
  \/ Dispatch \/ Reported \/ AgentAnswers \/ AgentFails
  \/ ReplyLands \/ ReplyReturns \/ ReplyRaises \/ NoticeSent \/ NoticeRaises
  \/ Close \/ CloseRaises \/ Completes \/ CompleteRaises \/ ForgetParked \/ Retired
  \/ CancelRun \/ CancelNotice \/ CancelOutside \/ CancelDrain

Daemon ==
  \/ Boot \/ Offered \/ (\E t \in Turns : Requeue(t)) \/ Listen \/ Shutdown \/ Exit

Next ==
  \/ Drain \/ Daemon
  \/ (\E t \in Turns : Accept(t)) \/ Stop \/ TimePasses
  \/ BeginShutdown \/ Kill

Spec == Init /\ [][Next]_vars

(* The supervisor starts a dead daemon, its main goes on, the event loop    *)
(* gives the task its turn, an agent run ends (its timeout sees to it) and  *)
(* a frontend call returns.  Nothing makes anyone write, stop or kill.      *)
FairSpec == Spec /\ WF_vars(Drain) /\ WF_vars(Daemon)

-----------------------------------------------------------------------------
(* Properties.                                                             *)

Has(t, ms) == marks[t] \intersect ms # {}

BeingTold == IF stage = "refusing" THEN {turn} ELSE {}

\* The finally of _process_turn says of a forgotten turn: answered, or answered
\* with an error the person can see, nothing is owed.  A record goes for one of
\* these reasons, or because the person stopped the turn, or into the recovery
\* file; no interleaving of stops, shutdowns, kills and failures loses an accepted
\* turn in another way, except one whose error notice was cut or raised.
NothingOwedIsForgottenUnlessMuted ==
  \A t \in 1..accepted :
    t \in Pending \union parked \union BeingTold \/ Has(t, {"answered", "told", "stopped", "muted"})

\* A turn that keeps killing the daemon is not replayed for ever (MAX_REPLAYS).
RunsBounded == \A t \in Turns : starts[t] <= MaxReplays + 1

\* docs/agent/frontend.md: a turn stopped on purpose has its record dropped, or
\* the stop would come back after the next restart.  No agent runs for it again.
StoppedStaysStopped ==
  [][\A t \in Turns : Has(t, {"stopped"}) => starts'[t] = starts[t]]_vars

\* It does not, unless $stop found it taken from the queue and not yet in flight.
StoppedStaysStoppedUnlessEarly ==
  [][\A t \in Turns : Has(t, {"stopped"}) /\ ~Has(t, {"early"}) => starts'[t] = starts[t]]_vars

\* While the daemon listens, a journaled turn is one somebody is working towards:
\* queued or being processed.  A record left behind would be replayed at the next
\* start as if it had been cut short.
JournaledIsInHand ==
  phase = "up" => \A t \in Pending : t \in Queued \union {turn} \/ Has(t, {"early"})

\* An answered turn is not run again, unless the process was stopped between the
\* reply's landing and the record's removal.
AnsweredRunsOnceUnlessCut ==
  [][\A t \in Turns : Has(t, {"answered"}) /\ ~Has(t, {"cut"}) => starts'[t] = starts[t]]_vars

\* resume_pending: a live message cannot overtake work that was already waiting.
\* Whatever is taken up is older than everything that waits.
OldestFirst ==
  [][turn' # turn /\ turn' # NoTurn => \A t \in Range(queue') \union resuming' : turn' < t]_vars

\* TurnJournal.recovery_path: held for explicit recovery, never automatic replay,
\* unless the process died between park and forget.
ParkedNeverReplayedUnlessSplit ==
  [][\A t \in parked : ~Has(t, {"split"}) => starts'[t] = starts[t]]_vars

\* PendingTurn.recorded_at: mark_dispatched restarts the clock, so the gate measures
\* how long this attempt has been unanswered when the next start asks.
AttemptIsMeasured ==
  phase = "down" =>
    \A t \in Pending : tried[t] # Never /\ Stale(t) => clock - tried[t] > Ttl

\* It does for a turn that was never replayed.
FirstAttemptIsMeasured ==
  phase = "down" =>
    \A t \in Pending :
      tried[t] # Never /\ journal[t].replays = 0 /\ Stale(t) => clock - tried[t] > Ttl

\* A turn's pane, relay and command token are released before the task takes up
\* another turn or ends, unless the clean-up itself was cut.
HeldByItsTurn == \A t \in held : t = turn \/ Has(t, {"unclosed"})

\* An accepted turn is settled in the end: its record goes, however often the daemon
\* is killed, unless it was queued behind a task that a $stop had cancelled or was
\* itself stopped before it was in flight; those wait for the next message or start.
EveryTurnIsSettled ==
  \A t \in Turns :
    (t \in Pending) ~> (t \notin Pending \/ Has(t, {"stranded", "early"}))

\* What a turn leaves on disk and in the daemon is in the hands of the drain task:
\* _drain and the finally of _process, whatever cuts them.
NothingIsLeftBehind == JournaledIsInHand /\ HeldByItsTurn

\* A turn that was stopped, answered or parked is over: abort, _process_turn and park
\* each drop its record, and no agent runs for it again but through the gaps named.
SettledNeverRerun ==
  StoppedStaysStoppedUnlessEarly /\ AnsweredRunsOnceUnlessCut /\ ParkedNeverReplayedUnlessSplit
=============================================================================
