------------------------------ MODULE SlackMarks ------------------------------
(***************************************************************************)
(* How one Slack thread shows what its turns are doing (slack.py), between *)
(* the frontend and the orchestrator's queue.  The frontend keeps a list   *)
(* of the messages whose turns have not started and a list of whether each *)
(* one's reply is withheld (a silenced sender); notify_start takes the     *)
(* head of both, whatever turn it is called for.  The reactions on a       *)
(* message, and whether a reply is posted, follow from what it took.  A    *)
(* turn may have no message: a slash command, a skill picked, a compaction *)
(* put ahead of a message.  $stop empties the queue, a failed set-up       *)
(* retires a turn, a restart replays the journal.                          *)
(***************************************************************************)
EXTENDS Naturals, Sequences, SequencesExt, Picking

CONSTANTS
    TurnKinds,  \* "plain", "silent", "command" or "compact"
    MaxTurns,   \* bound: turns queued in all
    MaxStops    \* bound: $stop, failed set-ups and restarts

ASSUME MarksAssumption ==
    /\ MaxTurns \in Nat /\ MaxStops \in Nat
    /\ TurnKinds \subseteq {"plain", "silent", "command", "compact"}

VARIABLES
    kind,        \* kind[t] of each turn so far
    route,       \* route[t], the message its journal entry names, or None
    waiting,     \* the orchestrator's queue: turns, oldest first
    turn,        \* the turn being processed, None if none
    step,        \* where it is between notify_start and notify_complete
    pendingMsg,  \* _pending_msg
    pendingSup,  \* _pending_reply_suppressed
    taken,       \* what notify_start took, before it is in flight
    flight,      \* _in_flight and _in_flight_reply_suppressed
    wears,       \* the reactions on each message
    landing,     \* messages whose hourglass is requested and not yet on
    stops,
    shifted,     \* ghost: the lists no longer line up with the queue
    late,        \* ghost: messages marked after their removal, or cut off midway
    turnVerdict  \* ghost: "posted" or "withheld" for each answered turn

marksVars == <<kind, route, waiting, turn, step, pendingMsg, pendingSup, taken,
               flight, wears, landing, stops, shifted, late, turnVerdict>>

None == 0
Nothing == [msg |-> None, sup |-> FALSE]
Turns == 1..MaxTurns
Known == DOMAIN kind
HasMessage(t) == kind[t] \in {"plain", "silent"}
RoomBusy == turn # None \/ waiting # <<>>
Newest == IF pendingMsg = <<>> THEN None ELSE Last(pendingMsg)
\* The turns whose notify_start has still to take from the lists.
Untaken == ToSet(waiting) \cup (IF step = "status" THEN {turn} ELSE {})
Reactions == {"queued", "running", "interrupted"}

MarksInit ==
    /\ kind = <<>> /\ route = <<>> /\ waiting = <<>> /\ turn = None /\ step = "idle"
    /\ pendingMsg = <<>> /\ pendingSup = <<>>
    /\ taken = Nothing /\ flight = Nothing
    /\ wears = [t \in Turns |-> {}] /\ landing = {} /\ stops = 0
    /\ shifted = FALSE /\ late = {}
    /\ turnVerdict = [t \in Turns |-> "none"]

WithMark(t, m) == [wears EXCEPT ![t] = @ \cup {m}]
WithoutMarks(t, ms) == IF t = None THEN wears ELSE [wears EXCEPT ![t] = @ \ ms]

-----------------------------------------------------------------------------
(* Queueing.                                                               *)

\* A turn that carries no message takes from the lists too: a message listed
\* before it has done so is paired with the wrong turn.
Enqueue(k) ==
    LET t == Len(kind) + 1
    IN  /\ t \in Turns
        /\ kind' = Append(kind, k)
        /\ waiting' = Append(waiting, t)
        /\ IF k \in {"plain", "silent"}
           THEN /\ route' = Append(route, t)
                /\ pendingMsg' = Append(pendingMsg, t)
                /\ pendingSup' = Append(pendingSup, k = "silent")
                /\ landing' = IF RoomBusy THEN landing \cup {t} ELSE landing
                /\ shifted' = (shifted \/ \E c \in Untaken : ~HasMessage(c))
           ELSE /\ route' = Append(route, Newest)
                /\ landing' = IF RoomBusy /\ pendingMsg # <<>>
                              THEN landing \cup {Newest} ELSE landing
                /\ UNCHANGED <<pendingMsg, pendingSup, shifted>>
        /\ UNCHANGED <<turn, step, taken, flight, wears, stops, late, turnVerdict>>

\* A message that is due a compaction first: its marker is listed, then the
\* compaction is queued, then the message.
EnqueueBehindCompaction(k) ==
    LET c == Len(kind) + 1
    IN  /\ {c, c + 1} \subseteq Turns /\ k \in {"plain", "silent"}
        /\ kind' = kind \o <<"compact", k>>
        /\ route' = route \o <<None, c + 1>>
        /\ waiting' = waiting \o <<c, c + 1>>
        /\ pendingMsg' = Append(pendingMsg, c + 1)
        /\ pendingSup' = Append(pendingSup, k = "silent")
        /\ landing' = landing \cup {c + 1}
        /\ shifted' = TRUE
        /\ UNCHANGED <<turn, step, taken, flight, wears, stops, late, turnVerdict>>

\* The hourglass asked for by notify_queued reaches Slack.
HourglassLands(t) ==
    /\ t \in landing
    /\ landing' = landing \ {t}
    /\ wears' = WithMark(t, "queued")
    /\ late' = IF t \in ToSet(pendingMsg) THEN late ELSE late \cup {t}
    /\ UNCHANGED <<kind, route, waiting, turn, step, pendingMsg, pendingSup, taken, flight,
                   stops, shifted, turnVerdict>>

-----------------------------------------------------------------------------
(* One turn.                                                               *)

\* The drain takes the next turn; notify_start sets the status first.
Start ==
    /\ turn = None /\ waiting # <<>>
    /\ turn' = Head(waiting) /\ waiting' = Tail(waiting) /\ step' = "status"
    /\ UNCHANGED <<kind, route, pendingMsg, pendingSup, taken, flight, wears, landing,
                   stops, shifted, late, turnVerdict>>

\* Mutant: the withheld flag stays in its list.
TakeHeadKeepsFlag ==
    /\ step = "status"
    /\ IF pendingMsg = <<>>
       THEN step' = "agent" /\ UNCHANGED <<pendingMsg, pendingSup, taken>>
       ELSE /\ step' = "marking"
            /\ taken' = [msg |-> Head(pendingMsg),
                         sup |-> pendingSup # <<>> /\ Head(pendingSup)]
            /\ pendingMsg' = Tail(pendingMsg)
            /\ UNCHANGED pendingSup
    /\ UNCHANGED <<kind, route, waiting, turn, flight, wears, landing, stops, shifted,
                   late, turnVerdict>>
\* Then the heads of the lists are taken ...
TakeHead ==
    /\ step = "status"
    /\ IF pendingMsg = <<>>
       THEN step' = "agent" /\ UNCHANGED <<pendingMsg, pendingSup, taken>>
       ELSE /\ step' = "marking"
            /\ taken' = [msg |-> Head(pendingMsg),
                         sup |-> pendingSup # <<>> /\ Head(pendingSup)]
            /\ pendingMsg' = Tail(pendingMsg)
            /\ pendingSup' = IF pendingSup = <<>> THEN <<>> ELSE Tail(pendingSup)
    /\ UNCHANGED <<kind, route, waiting, turn, flight, wears, landing, stops, shifted,
                   late, turnVerdict>>

\* ... and the message is marked as running and is in flight.
InFlight ==
    /\ step = "marking"
    /\ step' = "agent" /\ flight' = taken /\ taken' = Nothing
    /\ wears' = [wears EXCEPT ![taken.msg] = {"running"}]
    /\ UNCHANGED <<kind, route, waiting, turn, pendingMsg, pendingSup, landing, stops,
                   shifted, late, turnVerdict>>

\* send posts the reply, unless the turn in flight is withheld.
Answer ==
    /\ step = "agent"
    /\ step' = "answered"
    /\ turnVerdict' =
           [turnVerdict EXCEPT ![turn] = IF flight.sup THEN "withheld" ELSE "posted"]
    /\ UNCHANGED <<kind, route, waiting, turn, pendingMsg, pendingSup, taken, flight, wears,
                   landing, stops, shifted, late>>

\* notify_complete, in the finally of _process: whatever is in flight ends.
Finish(w) == turn' = None /\ step' = "idle" /\ flight' = Nothing /\ taken' = Nothing
             /\ wears' = w
CompleteKeepsEyes ==
    /\ step = "answered"
    /\ Finish(wears)
    /\ UNCHANGED <<kind, route, waiting, pendingMsg, pendingSup, landing, stops, shifted,
                   late, turnVerdict>>
Complete ==
    /\ step = "answered"
    /\ Finish(WithoutMarks(flight.msg, {"running"}))
    /\ UNCHANGED <<kind, route, waiting, pendingMsg, pendingSup, landing, stops, shifted,
                   late, turnVerdict>>

\* The set-up of a turn fails when notify_start raises: _drain parks the turn and
\* retire_failed_turn takes the message its route names out of the lists.
SetupFails ==
    LET m == route[turn]
    IN  /\ stops < MaxStops /\ stops' = stops + 1
        /\ step = "status"
        /\ IF m \in ToSet(pendingMsg)
           THEN \E i \in DOMAIN pendingMsg :
                   /\ pendingMsg[i] = m /\ \A j \in 1..i - 1 : pendingMsg[j] # m
                   /\ pendingMsg' = RemoveAt(pendingMsg, i)
                   /\ pendingSup' = IF i <= Len(pendingSup) THEN RemoveAt(pendingSup, i)
                                    ELSE pendingSup
           ELSE UNCHANGED <<pendingMsg, pendingSup>>
        /\ Finish(WithoutMarks(m, {"queued", "interrupted"}))
        /\ UNCHANGED <<kind, route, waiting, landing, shifted, late, turnVerdict>>

\* $stop: the queue is emptied and the running turn cancelled.  The lists are
\* the frontend's and keep what was queued.  A message cut off while it is being
\* marked keeps the reactions of the call it was in.
StopTurns ==
    /\ stops < MaxStops /\ stops' = stops + 1
    /\ turn # None
    /\ waiting' = <<>>
    /\ shifted' = (shifted \/ waiting # <<>> \/ step = "status")
    /\ IF taken.msg = None
       THEN Finish(WithoutMarks(flight.msg, {"running"})) /\ UNCHANGED late
       ELSE /\ \E left \in {wears[taken.msg], {}, {"running"}} :
                  Finish([wears EXCEPT ![taken.msg] = left])
            /\ late' = late \cup {taken.msg}
    /\ UNCHANGED <<kind, route, pendingMsg, pendingSup, landing, turnVerdict>>

\* The daemon is stopped and started: every message in hand is marked as
\* interrupted, and the journal's turns are queued again.  restore_route lists
\* their messages and not whether their reply is withheld.
Restart ==
    /\ stops < MaxStops /\ stops' = stops + 1
    /\ step # "answered"
    /\ LET hand == (IF turn = None THEN <<>> ELSE <<turn>>) \o waiting
           back == Picked(hand, {t \in Known : kind[t] # "compact"})
           routed == Picked(back, {t \in Known : route[t] # None})
           marked == ToSet(pendingMsg) \cup ({flight.msg} \ {None})
       IN  /\ waiting' = back
           /\ pendingMsg' = [i \in DOMAIN routed |-> route[routed[i]]]
           /\ shifted' = (shifted \/ back # <<>>)
           /\ wears' = [t \in Turns |-> IF t \in marked
                          THEN (wears[t] \ {"running"}) \cup {"interrupted"} ELSE wears[t]]
    /\ pendingSup' = <<>> /\ taken' = Nothing /\ flight' = Nothing
    /\ turn' = None /\ step' = "idle"
    /\ UNCHANGED <<kind, route, landing, late, turnVerdict>>

MarksNext ==
    \/ \E k \in TurnKinds : Enqueue(k) \/ EnqueueBehindCompaction(k)
    \/ \E t \in Turns : HourglassLands(t)
    \/ Start \/ TakeHead \/ InFlight \/ Answer \/ Complete
    \/ SetupFails \/ StopTurns \/ Restart

MarksSpec == MarksInit /\ [][MarksNext]_marksVars

-----------------------------------------------------------------------------
(* Properties.                                                             *)

MarksTypeOK ==
    /\ kind \in Seq(TurnKinds \cup {"compact"}) /\ Len(kind) <= MaxTurns
    /\ route \in Seq(Turns \cup {None}) /\ Len(route) = Len(kind)
    /\ waiting \in Seq(Turns) /\ turn \in Turns \cup {None}
    /\ step \in {"idle", "status", "marking", "agent", "answered"}
    /\ pendingMsg \in Seq(Turns) /\ pendingSup \in Seq(BOOLEAN)
    /\ {taken, flight} \subseteq [msg : Turns \cup {None}, sup : BOOLEAN]
    /\ wears \in [Turns -> SUBSET Reactions]
    /\ landing \subseteq Turns /\ late \subseteq Turns
    /\ turnVerdict \in [Turns -> {"none", "posted", "withheld"}]

\* "notify_start pairs this turn's reactions with its own message instead of the
\* next one's" (slack.py:2296): the message in flight is the running turn's.
PairsItsOwn == flight.msg # None => flight.msg = turn

\* It does until the lists and the queue part: a $stop with turns queued, a turn
\* without a message queued before one with, or a restart.
PairsItsOwnUnlessShifted == shifted \/ PairsItsOwn

\* As long as they line up, a reply is withheld exactly for a silenced sender,
\* and a thread at rest wears no mark, but for an hourglass that reached Slack
\* after its removal or a message cut off while it was being marked.
WithheldForTheSilenced ==
    shifted \/ \A t \in Known : turnVerdict[t] # "none" =>
                  (turnVerdict[t] = "withheld" <=> kind[t] = "silent")
NoMarkAtRest ==
    ~RoomBusy /\ ~shifted /\ landing = {} =>
        \A t \in Turns \ late : wears[t] = {}
FollowsTheTurns ==
    PairsItsOwnUnlessShifted /\ WithheldForTheSilenced /\ NoMarkAtRest
=============================================================================
