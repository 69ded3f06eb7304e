---------------------------- MODULE SlackIngress ----------------------------
(***************************************************************************)
(* How a Slack message reaches the agent once (slack.py, event_dedupe.py,  *)
(* slack_watermarks.py, slack_failed_events.py).  Every delivered event    *)
(* runs its own handler, and a handler awaits Slack between its checks and *)
(* the point where it marks the event processed, so handlers interleave.   *)
(* Each connection starts a catch-up scan that replays the stored failed   *)
(* events and then reads, from the stored positions, what the conversation *)
(* got while nobody listened; a reconnect may start a second scan beside   *)
(* the first.  Slack may deliver an event twice, the connection may drop   *)
(* with events still on it, a handler may raise and the process may die    *)
(* anywhere.  Stamps are numbers in posting order.  A root message is in   *)
(* the conversation 0 (the channel), a reply in that of its root's stamp.  *)
(***************************************************************************)
EXTENDS Naturals, FiniteSets, Sequences, SequencesExt, Picking

CONSTANTS
    MaxTs,      \* messages posted, by people and by the app
    Kinds,      \* what the handler makes of a message, see Post
    Scans,      \* catch-up tasks that may run at once
    LedgerCap,  \* event_dedupe.DEFAULT_CAPACITY
    FailedCap,  \* slack_failed_events.DEFAULT_CAPACITY
    MarkCap,    \* slack_watermarks.DEFAULT_CAPACITY
    ScanCap,    \* MAX_CATCHUP_MESSAGES
    OddAt,      \* the one message that need not be a turn
    MaxFaults   \* exceptions, drops, repeats and crashes in a behaviour

ASSUME IngressAssumption ==
    /\ {MaxTs, LedgerCap, FailedCap, MarkCap, ScanCap} \subseteq Nat \ {0}
    /\ {OddAt, MaxFaults} \subseteq Nat
    /\ "live" \notin Scans

VARIABLES
    posted,       \* posted[t]: the root and the kind of the message stamped t
    wire,         \* events Slack has sent on this connection, not yet handled
    linked,       \* the Socket Mode connection is up
    stage,        \* how far the handler of an event is (_ingesting_events)
    owner,        \* who awaits that handler: a live frame or a scan
    eventLedger,  \* _processed_ts, oldest first
    failed,       \* _failed_events, oldest first
    pos,          \* _active_channels and _active_threads, 0 for none
    marks,        \* slack.watermarks.json, the least recently moved first
    scan,         \* the catch-up tasks
    horizon,      \* stamps up to here are past DEFAULT_MAX_AGE_SECONDS
    faults,       \* faults so far
    runs,         \* ghost: times a message was handed to the agent
    forgotten,    \* ghost: stamps the ledger held once and no longer does
    early,        \* ghost: own posts whose echo came before their own stamp
    excused       \* ghost: messages a named gap loses, see Overtaken

vars == <<posted, wire, linked, stage, owner, eventLedger, failed, pos, marks, scan,
          horizon, faults, runs, forgotten, early, excused>>
slackSide == <<posted, linked, horizon>>
ghosts == <<runs, forgotten, early, excused>>

Stamps == 1..MaxTs
Keys == 0..MaxTs
Posted == DOMAIN posted
IsRoot(t) == posted[t].root = t
\* The position a scan reads message t from, and those a handled t moves.
Conv(t) == IF IsRoot(t) THEN 0 ELSE posted[t].root
MovesChannelToo(t) == {0, posted[t].root}
Moved(t) == IF IsRoot(t) THEN {0, t} ELSE {posted[t].root}
Idle == [pc |-> "idle", todo |-> <<>>, targets |-> <<>>, key |-> 0,
         waits |-> FALSE, budget |-> 0]

\* The first connection of an install: no file holds anything, and its scan
\* has nothing to read.
Init ==
    /\ posted = <<>> /\ wire = {} /\ linked = TRUE
    /\ stage = [t \in Stamps |-> "none"] /\ owner = [t \in Stamps |-> "live"]
    /\ eventLedger = <<>> /\ failed = <<>>
    /\ pos = [k \in Keys |-> 0] /\ marks = <<>>
    /\ scan = [s \in Scans |-> Idle]
    /\ horizon = 0 /\ faults = 0
    /\ runs = [t \in Stamps |-> 0]
    /\ forgotten = {} /\ early = {} /\ excused = {}

-----------------------------------------------------------------------------
(* The three bounded files.  Each is written as it changes.                *)

Handled(t) == t \in ToSet(eventLedger)
LastN(q, n) == IF Len(q) > n THEN SubSeq(q, Len(q) - n + 1, Len(q)) ELSE q
AddedUnbounded(q, t) == IF t \in ToSet(q) THEN q ELSE Append(q, t)
Added(q, t) == IF t \in ToSet(q) THEN q ELSE LastN(Append(q, t), LedgerCap)
Dropped(q, t) == ToSet(q) \ ToSet(Added(q, t))

Without(q, t) == Picked(q, ToSet(q) \ {t})
Stored(q, t) == IF t \in ToSet(q) THEN q ELSE LastN(Append(q, t), FailedCap)

Advance(p, k, t) == [p EXCEPT ![k] = IF t >= @ THEN t ELSE @]
AdvanceAll(p, ks, t) ==
    [k \in Keys |-> IF k \in ks THEN Advance(p, k, t)[k] ELSE p[k]]
MarkOf(m, k) ==
    LET at == {i \in DOMAIN m : m[i].key = k}
    IN  IF at = {} THEN 0 ELSE m[CHOOSE i \in at : TRUE].ts
Record(m, k, t) ==
    IF MarkOf(m, k) >= t
    THEN m
    ELSE LastN(Append(Picked(m, {e \in ToSet(m) : e.key # k}), [key |-> k, ts |-> t]),
               MarkCap)
RecordAll(m, ks, t) ==
    LET others == IF 0 \in ks THEN Record(m, 0, t) ELSE m
        thread == ks \ {0}
    IN  IF thread = {} THEN others
        ELSE Record(others, CHOOSE k \in thread : TRUE, t)
Restored(m) ==
    [k \in Keys |-> IF MarkOf(m, k) > horizon THEN MarkOf(m, k) ELSE 0]

\* The positions inside the window, each with the stamp to read from.
Targets(p) ==
    LET keys == Picked([i \in 1..(MaxTs + 1) |-> i - 1], {k \in Keys : p[k] > horizon})
    IN  [i \in DOMAIN keys |-> [key |-> keys[i], from |-> p[keys[i]]]]
InPostingOrder(ts) == Picked([i \in Stamps |-> i], ts)
Missed(target) == InPostingOrder({t \in Posted : Conv(t) = target.key /\ t > target.from})

\* No later scan reads a message whose stamp the position has passed, or whose
\* conversation has no position inside the window.
Gap(t, p, old) == p[Conv(t)] <= old \/ p[Conv(t)] >= t
InMemory(t) ==
    \/ t \in wire \/ stage[t] # "none"
    \/ \E s \in Scans :
        \/ t \in ToSet(scan[s].todo)
        \/ \E g \in ToSet(scan[s].targets) : g.key = Conv(t) /\ g.from < t
Held(t) == InMemory(t) \/ t \in ToSet(failed)
Waiting == {t \in Posted : ~Handled(t) /\ ~Held(t)}

-----------------------------------------------------------------------------
(* Slack.                                                                  *)

\* turn: reaches the agent.  command: $stop, $compact, $model or $job, acted
\* on once marked.  drop: a bot policy drops it for good.  gate: the reply
\* limit holds it back.  skip: not for the bot.  own: posted by the app.
Post(root, kind) ==
    LET t == Len(posted) + 1
        next == Append(posted, [root |-> root, kind |-> kind])
    IN  /\ t \in Stamps
        /\ root = t \/ (root \in Posted /\ IsRoot(root))
        /\ kind = "turn" \/ t = OddAt
        /\ posted' = next
        /\ wire' = IF linked THEN wire \cup {t} ELSE wire
        /\ excused' = IF ~linked /\ pos[IF root = t THEN 0 ELSE root] <= horizon
                      THEN excused \cup {t} ELSE excused
        /\ UNCHANGED <<linked, stage, owner, eventLedger, failed, pos, marks, scan,
                       horizon, faults, runs, forgotten, early>>

\* chat.postMessage returns and the stamp of the app's own post is remembered.
Remember(t) ==
    /\ t \in Posted /\ posted[t].kind = "own" /\ ~Handled(t)
    /\ t \notin forgotten
    /\ eventLedger' = Added(eventLedger, t)
    /\ forgotten' = forgotten \cup Dropped(eventLedger, t)
    /\ UNCHANGED <<slackSide, wire, stage, owner, failed, pos, marks, scan,
                   faults, runs, early, excused>>

Fault == faults < MaxFaults /\ faults' = faults + 1

Redeliver(t) ==
    /\ Fault /\ linked /\ t \in Posted
    /\ wire' = wire \cup {t}
    /\ UNCHANGED <<slackSide, stage, owner, eventLedger, failed, pos, marks, scan,
                   ghosts>>

Disconnect ==
    /\ Fault /\ linked
    /\ linked' = FALSE
    /\ wire' = {}
    /\ excused' = excused \cup {t \in wire : Gap(t, pos, horizon)}
    /\ UNCHANGED <<posted, stage, owner, eventLedger, failed, pos, marks, scan,
                   horizon, runs, forgotten, early>>

\* A day passes over the older messages.
Ages ==
    /\ Fault /\ horizon < Len(posted)
    /\ horizon' = horizon + 1
    /\ failed' = Without(failed, horizon')
    /\ excused' = excused \cup {horizon'}
                       \cup {t \in Waiting : pos[Conv(t)] <= horizon'}
    /\ UNCHANGED <<posted, linked, wire, stage, owner, eventLedger, pos, marks, scan,
                   runs, forgotten, early>>

-----------------------------------------------------------------------------
(* One event, from _ingest_event to its return.                            *)

RefusesOnlyInFlight(t) == stage[t] # "none" \/ posted[t].kind = "skip"
Refused(t) == stage[t] # "none" \/ Handled(t) \/ posted[t].kind = "skip"

\* The return of a handler to whoever awaits it.  A scan that replays takes a
\* clean event from the store; one that reads history moves its position past
\* the message whatever became of it.
ByReplay(t) == owner[t] \in Scans /\ scan[owner[t]].pc = "replay"
ByHistory(t) == owner[t] \in Scans /\ scan[owner[t]].pc = "read"
\* The replay over, the positions are listed before anything else runs.
Onward(job, p) ==
    IF job.pc = "replay" /\ job.todo = <<>>
    THEN [job EXCEPT !.pc = "read", !.targets = Targets(p)] ELSE job
Past(s, p) ==
    [scan EXCEPT ![s] = Onward([@ EXCEPT !.todo = Tail(@), !.waits = FALSE], p)]
Returned(t, p) == IF owner[t] \in Scans THEN Past(owner[t], p) ELSE scan
\* A live or replayed message moves the position past those of its
\* conversation that wait for a scan to read them.
Overtaken(t) ==
    IF ByHistory(t) THEN {} ELSE {u \in Waiting : u < t /\ Conv(u) = Conv(t)}
Cleared(t, q) == IF ByReplay(t) THEN Without(q, t) ELSE q
End(t, clean, q, moved) ==
    /\ stage' = [stage EXCEPT ![t] = "none"]
    /\ owner' = [owner EXCEPT ![t] = "live"]
    /\ failed' = IF clean THEN Cleared(t, q) ELSE q
    /\ scan' = Returned(t, AdvanceAll(pos, moved, t))
    /\ LET ks == moved \cup (IF ByHistory(t) THEN {scan[owner[t]].key} ELSE {})
       IN  /\ pos' = AdvanceAll(pos, ks, t)
           /\ marks' = RecordAll(marks, ks, t)

Deliver(t) ==
    /\ linked /\ t \in wire
    /\ wire' = wire \ {t}
    /\ stage' = IF Refused(t) THEN stage ELSE [stage EXCEPT ![t] = "begun"]
    /\ owner' = IF Refused(t) THEN owner ELSE [owner EXCEPT ![t] = "live"]
    /\ early' = IF ~Refused(t) /\ posted[t].kind = "own" THEN early \cup {t}
                ELSE early
    /\ UNCHANGED <<slackSide, eventLedger, failed, pos, marks, scan, faults, runs,
                   forgotten, excused>>

\* The awaits are over: the event is marked processed and its position moves,
\* before the turn is handed off or the command acts.
Mark(t) ==
    /\ stage[t] = "begun" /\ posted[t].kind \in {"turn", "command", "own"}
    /\ stage' = [stage EXCEPT ![t] = "marked"]
    /\ eventLedger' = Added(eventLedger, t)
    /\ forgotten' = forgotten \cup Dropped(eventLedger, t)
    /\ pos' = AdvanceAll(pos, Moved(t), t)
    /\ marks' = RecordAll(marks, Moved(t), t)
    /\ excused' = excused \cup Overtaken(t)
    /\ UNCHANGED <<slackSide, wire, owner, failed, scan, faults, runs, early>>

HandOff(t) ==
    /\ stage[t] = "marked"
    /\ runs' = [runs EXCEPT ![t] = @ + 1]
    /\ End(t, TRUE, failed, {})
    /\ UNCHANGED <<slackSide, wire, eventLedger, faults, forgotten, early, excused>>

PolicyDrop(t) ==
    /\ stage[t] = "begun" /\ posted[t].kind = "drop"
    /\ eventLedger' = Added(eventLedger, t)
    /\ forgotten' = forgotten \cup Dropped(eventLedger, t)
    /\ End(t, TRUE, failed, Moved(t))
    /\ excused' = excused \cup Overtaken(t)
    /\ UNCHANGED <<slackSide, wire, faults, runs, early>>

HoldBack(t) ==
    /\ stage[t] = "begun" /\ posted[t].kind = "gate"
    /\ End(t, TRUE, failed, Moved(t))
    /\ excused' = excused \cup Overtaken(t)
    /\ UNCHANGED <<slackSide, wire, eventLedger, faults, runs, forgotten, early>>

\* The handler raises: an event not yet marked is stored, a marked one is not.
KeptFailed(t) == IF Handled(t) THEN Without(failed, t) ELSE Stored(failed, t)
Raise(t) ==
    /\ Fault /\ stage[t] # "none"
    /\ End(t, FALSE, KeptFailed(t), {})
    /\ excused' = excused \cup (ToSet(failed) \ ToSet(KeptFailed(t)))
                          \cup (IF stage[t] = "marked" THEN {t} ELSE {})
    /\ UNCHANGED <<slackSide, wire, eventLedger, runs, forgotten, early>>

-----------------------------------------------------------------------------
(* Catch-up.                                                               *)

\* A hello frame starts a scan.  (The first of a process restores the stored
\* positions; nothing reads them before, so Crash leaves them restored.)
Connect(s) ==
    /\ ~linked /\ scan[s] = Idle
    /\ linked' = TRUE
    /\ scan' = [scan EXCEPT ![s] = Onward([Idle EXCEPT
                  !.pc = "replay", !.budget = ScanCap,
                  !.todo = InPostingOrder(ToSet(failed))], pos)]
    /\ UNCHANGED <<posted, wire, stage, owner, eventLedger, failed, pos, marks,
                   horizon, faults, ghosts>>

Runs(s) == scan[s].pc # "idle" /\ ~scan[s].waits
\* One conversation is fetched.  A page that fails keeps the pages before it.
Fetch(s) ==
    /\ Runs(s) /\ scan[s].pc = "read" /\ scan[s].todo = <<>>
    /\ scan[s].targets # <<>>
    /\ \E n \in 0..Len(Missed(scan[s].targets[1])) :
        LET target == scan[s].targets[1]
            got == SubSeq(Missed(target), 1, n)
            over == n > scan[s].budget
        IN  /\ \/ n = Len(Missed(target)) /\ UNCHANGED faults
               \/ n < Len(Missed(target)) /\ Fault
            /\ scan' = [scan EXCEPT ![s].key = target.key,
                 ![s].todo = IF over THEN SubSeq(got, 1, scan[s].budget) ELSE got,
                 ![s].budget = IF over THEN 0 ELSE @ - n,
                 ![s].targets = IF over THEN <<>> ELSE Tail(@)]
            /\ excused' = excused \cup {t \in Posted :
                 /\ \E g \in ToSet(scan[s].targets) : t \in ToSet(Missed(g))
                 /\ t \notin ToSet(scan'[s].todo) /\ Gap(t, pos, horizon)
                 /\ over \/ n < Len(Missed(target))}
    /\ UNCHANGED <<slackSide, wire, stage, owner, eventLedger, failed, pos, marks,
                   runs, forgotten, early>>

\* The next message of the scan: skipped, refused or handed to a handler.
Take(s) ==
    /\ Runs(s) /\ scan[s].todo # <<>>
    /\ LET t == scan[s].todo[1]
           own == scan[s].pc = "read" /\ posted[t].kind = "own"
       IN  IF own \/ Refused(t)
           THEN /\ scan' = Past(s, pos)
                /\ failed' = IF scan[s].pc = "replay" THEN Without(failed, t)
                             ELSE failed
                /\ LET ks == IF scan[s].pc = "read" THEN {scan[s].key} ELSE {}
                   IN  /\ pos' = AdvanceAll(pos, ks, t)
                       /\ marks' = RecordAll(marks, ks, t)
                /\ UNCHANGED <<stage, owner>>
           ELSE /\ scan' = [scan EXCEPT ![s].waits = TRUE]
                /\ stage' = [stage EXCEPT ![t] = "begun"]
                /\ owner' = [owner EXCEPT ![t] = s]
                /\ UNCHANGED <<failed, pos, marks>>
    /\ UNCHANGED <<slackSide, wire, eventLedger, faults, ghosts>>

ScanEnds(s) ==
    /\ Runs(s) /\ scan[s].pc = "read"
    /\ scan[s].todo = <<>> /\ scan[s].targets = <<>>
    /\ scan' = [scan EXCEPT ![s] = Idle]
    /\ UNCHANGED <<slackSide, wire, stage, owner, eventLedger, failed, pos, marks,
                   faults, ghosts>>

\* The process dies, or is stopped, and starts again.  A power loss may take
\* the end of the ledger with it: the files are renamed and never synced.
Crash(tail) ==
    /\ Fault /\ tail <= Len(eventLedger)
    /\ linked' = FALSE /\ wire' = {}
    /\ stage' = [t \in Stamps |-> "none"] /\ owner' = [t \in Stamps |-> "live"]
    /\ scan' = [s \in Scans |-> Idle]
    /\ pos' = Restored(marks)
    /\ eventLedger' = SubSeq(eventLedger, 1, Len(eventLedger) - tail)
    /\ forgotten' = forgotten \cup (ToSet(eventLedger) \ ToSet(eventLedger'))
    /\ excused' = excused
         \cup {t \in Posted : InMemory(t) /\ Gap(t, pos', horizon)}
         \cup {t \in Posted : pos'[Conv(t)] <= horizon}
         \cup {t \in Posted : stage[t] = "marked"}
    /\ UNCHANGED <<posted, failed, marks, horizon, runs, early>>

Handler(t) ==
    Deliver(t) \/ Mark(t) \/ HandOff(t) \/ PolicyDrop(t) \/ HoldBack(t)
CatchUp(s) == Connect(s) \/ Fetch(s) \/ Take(s) \/ ScanEnds(s)

Next ==
    \/ \E r \in Stamps, k \in Kinds : Post(r, k)
    \/ \E t \in Stamps : Handler(t) \/ Remember(t) \/ Redeliver(t) \/ Raise(t)
    \/ \E s \in Scans : CatchUp(s)
    \/ Disconnect \/ Ages
    \/ \E tail \in 0..1 : Crash(tail)

Spec == Init /\ [][Next]_vars

-----------------------------------------------------------------------------
(* Properties.                                                             *)

Scanning == [pc : {"idle", "replay", "read"}, todo : Seq(Stamps),
             targets : Seq([key : Keys, from : Stamps]), key : Keys,
             waits : BOOLEAN, budget : 0..ScanCap]

\* Every variable has its type and every file and scan its bound.
TypeOK ==
    /\ posted \in Seq([root : Stamps, kind : Kinds])
    /\ wire \subseteq Posted /\ linked \in BOOLEAN
    /\ stage \in [Stamps -> {"none", "begun", "marked"}]
    /\ owner \in [Stamps -> Scans \cup {"live"}]
    /\ eventLedger \in Seq(Stamps) /\ Len(eventLedger) <= LedgerCap
    /\ failed \in Seq(Stamps) /\ Len(failed) <= FailedCap
    /\ pos \in [Keys -> 0..MaxTs]
    /\ marks \in Seq([key : Keys, ts : Stamps]) /\ Len(marks) <= MarkCap
    /\ scan \in [Scans -> Scanning]
    /\ \A s \in Scans : Len(scan[s].todo) <= FailedCap + ScanCap

\* A message people sent is handed to the agent, or acted on, at most once,
\* however often Slack delivers it and whichever scans read it beside the live
\* frames, unless the bounded ledger has let its stamp go (event_dedupe.py:50)
\* or a power loss took it; and the app never answers its own post, unless the
\* echo came before chat.postMessage had returned its stamp.
HandledOnceUnlessForgotten ==
    \A t \in Posted :
        /\ runs[t] <= 1 \/ t \in forgotten
        /\ posted[t].kind = "own" /\ runs[t] > 0 => t \in early \cup forgotten

\* A message that was for the bot is handled, or somebody still holds it (the
\* connection, a handler, a scan, the failed store), or the position of its
\* conversation is still behind it, so that the next scan reads it.  The
\* excuses are the gaps the code accepts: the conversation has no position, the
\* connection or the process died with the event in flight after a later one
\* had moved the position, a full store or the day's window dropped it, or its
\* handler raised once it was marked.
Wanted(t) == posted[t].kind \in {"turn", "command"}
NothingForgottenUnlessOvertaken ==
    \A t \in Posted :
        Wanted(t) => \/ Handled(t) \/ runs[t] > 0 \/ Held(t)
                     \/ ~Gap(t, pos, horizon) \/ t \in excused

\* "Every message read moves its position ... so the next scan continues past
\* the cap" (slack.py:3317), and "the position never passes a message nobody
\* read" (slack.py:3371).  While a scan is at its cap, a live message of the same
\* conversation moves the position past the messages the scan left.
AtCap(s) == scan[s].pc = "read" /\ scan[s].budget = 0 /\ scan[s].targets = <<>>
Unread(t) == t \in Waiting /\ Wanted(t) /\ pos[Conv(t)] \in (horizon + 1)..(t - 1)
CapLeavesForNextScan ==
    [][(\E s \in Scans : AtCap(s)) =>
           \A t \in Posted : Unread(t) /\ t \in Waiting' => pos'[Conv(t)] < t]_vars

\* An event is handled once and a failed or missed one is not forgotten: the ledger,
\* the failed-event store and the watermarks (slack.py) against each other.
EventsAreHandled == HandledOnceUnlessForgotten /\ NothingForgottenUnlessOvertaken
=============================================================================
