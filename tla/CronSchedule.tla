----------------------------- MODULE CronSchedule -----------------------------
(***************************************************************************)
(* When cron.py fires: CronDaemon's loop over its entries, the restart     *)
(* that catches up, the reload of an edited config and the run-now file.   *)
(* What a fire may enqueue is CronAdmission's subject; here it is one      *)
(* attempt, made for a scheduled time.  The daemon is one thread with no   *)
(* await inside the steps below: they are apart where a kill between two   *)
(* file operations leaves something behind, or where the clock is read     *)
(* twice.  The run-now file is written by another process.                 *)
(***************************************************************************)
EXTENDS Integers, FiniteSets

CONSTANTS Recurring,  \* entries with a cron expression
          OneShots,   \* entries with an at
          Periods,    \* the expressions in use: "every p minutes"
          AtTime,     \* when the one-shots are due
          CatchUp,    \* catch_up in minutes, 0 for an entry without
          MaxClock,   \* bound: minutes
          MaxLives,   \* bound: daemon processes
          MaxAsked    \* bound: run-now requests

ASSUME ScheduleAssumption ==
  /\ Recurring \intersect OneShots = {}
  /\ {"none", "nofile"} \intersect (Recurring \union OneShots) = {}
  /\ Periods \subseteq Nat \ {0}
  /\ AtTime \in Nat
  /\ CatchUp \in Nat
  /\ MaxClock \in Nat
  /\ MaxLives \in Nat
  /\ MaxAsked \in Nat

Entries == Recurring \union OneShots
NoWindow == 0

VARIABLES clock,    \* datetime.now(), in minutes
          config,   \* the expression of each recurring entry on disk
          loaded,   \* the one the daemon works from
          nextFire, \* EntryState.next_fire
          record,   \* <entry>/@schedule: the last scheduled fire and its expression
          spent,    \* one-shots whose fire is in the key-state store
          trigger,  \* cron.trigger: the entries it names, NoFile if absent
          draining, \* cron.draining, likewise
          asking,   \* request_run_now between its read and its replace
          pc, todo, now, due, \* the daemon: its place, its loop and its locals
          lives, asked,
          fired,    \* history: how often each scheduled time was attempted
          ran,      \* history: scheduled attempts of each one-shot
          told,     \* history: missed times a start has logged
          since,    \* history: when the entry's record was first made
          owed,     \* history: entries asked for and not fired since
          cuts      \* history: which known gaps have been hit

fileVars == <<config, record, spent, trigger, draining>>
loopVars == <<pc, todo, now, due>>
historyVars == <<fired, ran, told, since, owed, cuts>>
vars == <<clock, fileVars, loaded, nextFire, asking, loopVars, lives, asked, historyVars>>

NoFile == {"nofile"}
NoRecord == [at |-> -1, period |-> 0]
Never == MaxClock + 100
NoFire == [entry |-> "none", at |-> 0]
Times == 0..(MaxClock + 1)
Steps == {"down", "booted", "catchup", "catchfire", "asleep", "awake", "rename",
          "read", "runnow", "due", "fire", "mark"}

(* "skew": the clock moved between reload and catch-up.  "oversleep": a wake *)
(* came more than one occurrence late.  "edit": an expression was changed.   *)
(* The others name the daemon's death: "fire" after a scheduled fire was     *)
(* recorded and before it was made; "mark" after a one-shot was fired and    *)
(* before that was recorded; "drain" with a request unlinked and not fired.  *)
(* "replaced": a drain put a new request in the place of a leftover.         *)
Cuts == {"skew", "oversleep", "edit", "fire", "mark", "drain", "replaced"}

TypeOK ==
  /\ clock \in 0..MaxClock
  /\ config \in [Recurring -> Periods] /\ loaded \in [Recurring -> Periods]
  /\ nextFire \in [Entries -> Times \union {Never, AtTime}]
  /\ record \in [Recurring -> [at : Times, period : Periods] \union {NoRecord}]
  /\ spent \subseteq OneShots
  /\ trigger = NoFile \/ trigger \subseteq Entries
  /\ draining = NoFile \/ draining \subseteq Entries
  /\ asking = NoFile \/ asking \subseteq Entries
  /\ pc \in Steps
  /\ todo \subseteq Entries
  /\ now \in 0..MaxClock
  /\ due \in [entry : Entries \union {"none"}, at : Times \union {AtTime}]
  /\ lives \in 0..MaxLives /\ asked \in 0..MaxAsked
  /\ fired \in [Recurring -> [Times -> 0..2]]
  /\ ran \in [OneShots -> 0..2]
  /\ told \in [Recurring -> SUBSET Times]
  /\ since \in [Recurring -> 0..MaxClock]
  /\ owed \subseteq Entries
  /\ cuts \subseteq Cuts

\* next_fire: the first occurrence strictly after t.
NextAt(period, t) == (t \div period + 1) * period

\* Mutant: an occurrence due at exactly this moment does not count.
MissedBefore(period, after, upTo) ==
  {t \in Times : t % period = 0 /\ after < t /\ t < upTo}

\* missed_fires: the occurrences in (after, upTo].
Missed(period, after, upTo) == {t \in Times : t % period = 0 /\ after < t /\ t <= upTo}
Latest(S) == CHOOSE t \in S : \A u \in S : u <= t

\* Bound: what lies past the last minute never comes.
Capped(n) == IF n > MaxClock + 1 THEN Never ELSE n

Init ==
  /\ clock = 0
  /\ config \in [Recurring -> Periods] /\ loaded = config
  /\ nextFire = [e \in Entries |-> Never]
  /\ record = [e \in Recurring |-> NoRecord]
  /\ spent = {}
  /\ trigger = NoFile /\ draining = NoFile /\ asking = NoFile
  /\ pc = "down" /\ todo = {} /\ now = 0 /\ due = NoFire
  /\ lives = 0 /\ asked = 0
  /\ fired = [e \in Recurring |-> [t \in Times |-> 0]]
  /\ ran = [e \in OneShots |-> 0]
  /\ told = [e \in Recurring |-> {}]
  /\ since = [e \in Recurring |-> 0]
  /\ owed = {} /\ cuts = {}

Attempted(e, t) == fired' = [fired EXCEPT ![e][t] = IF @ = 2 THEN 2 ELSE @ + 1]

-----------------------------------------------------------------------------
(* Time, the operator's editor, and the dashboard's run-now key.           *)

Tick ==
  /\ clock < MaxClock
  /\ clock' = clock + 1
  /\ UNCHANGED <<fileVars, loaded, nextFire, asking, loopVars, lives, asked, historyVars>>

Edit(e) ==
  /\ "edit" \notin cuts
  /\ \E p \in Periods \ {config[e]} : config' = [config EXCEPT ![e] = p]
  /\ cuts' = cuts \union {"edit"}
  /\ UNCHANGED <<clock, record, spent, trigger, draining, loaded, nextFire, asking,
                 loopVars, lives, asked, fired, ran, told, since, owed>>

\* Mutant: the request names only itself.
AskAlone(e) ==
  /\ asking = NoFile
  /\ asked < MaxAsked
  /\ asked' = asked + 1
  /\ asking' = {e}
  /\ owed' = owed \union {e}
  /\ UNCHANGED <<clock, fileVars, loaded, nextFire, loopVars, lives, fired, ran, told,
                 since, cuts>>

\* request_run_now reads what the file already names ...
Ask(e) ==
  /\ asking = NoFile
  /\ asked < MaxAsked
  /\ asked' = asked + 1
  /\ asking' = {e} \union (IF trigger = NoFile THEN {} ELSE trigger)
  /\ owed' = owed \union {e}
  /\ UNCHANGED <<clock, fileVars, loaded, nextFire, loopVars, lives, fired, ran, told,
                 since, cuts>>

\* ... and replaces it.
WriteRequest ==
  /\ asking # NoFile
  /\ trigger' = asking
  /\ asking' = NoFile
  /\ UNCHANGED <<clock, config, record, spent, draining, loaded, nextFire, loopVars,
                 lives, asked, historyVars>>

-----------------------------------------------------------------------------
(* Start.                                                                  *)

\* Where reload puts next_fire: a kept expression keeps it.
Planned(p, e, keep) == IF keep THEN nextFire[e] ELSE Capped(NextAt(p, clock))

\* Mutant: a one-shot that is already past is not scheduled.
BootSkipsPast ==
  /\ pc = "down"
  /\ lives < MaxLives
  /\ lives' = lives + 1
  /\ loaded' = config
  /\ nextFire' = [e \in Entries |->
                    IF e \in OneShots THEN (IF AtTime < clock THEN Never ELSE AtTime)
                    ELSE Planned(config[e], e, FALSE)]
  /\ now' = clock
  /\ pc' = "booted"
  /\ UNCHANGED <<clock, fileVars, asking, todo, due, asked, historyVars>>

\* run: the first reload.  A one-shot is due at its time, even one long past.
Boot ==
  /\ pc = "down"
  /\ lives < MaxLives
  /\ lives' = lives + 1
  /\ loaded' = config
  /\ nextFire' = [e \in Entries |->
                    IF e \in OneShots THEN AtTime ELSE Planned(config[e], e, FALSE)]
  /\ now' = clock
  /\ pc' = "booted"
  /\ UNCHANGED <<clock, fileVars, asking, todo, due, asked, historyVars>>

\* _catch_up_missed(datetime.now()): a later reading than reload's.
BeginCatchUp ==
  /\ pc = "booted"
  /\ now' = clock
  /\ todo' = Recurring
  /\ pc' = "catchup"
  /\ cuts' = cuts \union (IF clock # now THEN {"skew"} ELSE {})
  /\ UNCHANGED <<clock, fileVars, loaded, nextFire, asking, due, lives, asked, fired,
                 ran, told, since, owed>>

KnownRecord(e) == record[e] # NoRecord /\ record[e].period = loaded[e]

CatchUpEntry(e) ==
  /\ pc = "catchup"
  /\ e \in todo
  /\ todo' = todo \ {e}
  /\ LET missed == Missed(loaded[e], record[e].at, now)
         Record(t) == record' = [record EXCEPT ![e] = [at |-> t, period |-> loaded[e]]]
     IN \/ /\ ~KnownRecord(e)
           /\ Record(now)
           /\ since' = [since EXCEPT ![e] = now]
           /\ UNCHANGED <<pc, due, told>>
        \/ /\ KnownRecord(e) /\ missed = {}
           /\ UNCHANGED <<record, pc, due, told, since>>
        \/ /\ KnownRecord(e) /\ missed # {}
           /\ told' = [told EXCEPT ![e] = @ \union missed]
           /\ UNCHANGED since
           /\ IF CatchUp # NoWindow /\ now - Latest(missed) <= CatchUp
              THEN /\ Record(Latest(missed))
                   /\ due' = [entry |-> e, at |-> Latest(missed)]
                   /\ pc' = "catchfire"
              ELSE Record(now) /\ UNCHANGED <<pc, due>>
  /\ UNCHANGED <<clock, config, spent, trigger, draining, loaded, nextFire, asking, now,
                 lives, asked, fired, ran, owed, cuts>>

CatchUpFire ==
  /\ pc = "catchfire"
  /\ Attempted(due.entry, due.at)
  /\ due' = NoFire
  /\ pc' = "catchup"
  /\ UNCHANGED <<clock, fileVars, loaded, nextFire, asking, todo, now, lives, asked,
                 ran, told, since, owed, cuts>>

CaughtUp ==
  /\ pc = "catchup"
  /\ todo = {}
  /\ pc' = "asleep"
  /\ UNCHANGED <<clock, fileVars, loaded, nextFire, asking, todo, now, due, lives, asked,
                 historyVars>>

-----------------------------------------------------------------------------
(* One turn of the loop.                                                   *)

\* The minute is over or a run-now file is there; _maybe_reload comes first.  The
\* clock's last minute stands for all later ones, so the loop keeps turning in it.
Wake ==
  /\ pc = "asleep"
  /\ clock > now \/ clock = MaxClock \/ trigger # NoFile \/ draining # NoFile
  /\ loaded' = config
  /\ nextFire' = [e \in Entries |->
                    IF e \in OneShots THEN nextFire[e]
                    ELSE Planned(config[e], e, config[e] = loaded[e])]
  /\ pc' = "rename"
  /\ UNCHANGED <<clock, fileVars, asking, todo, now, due, lives, asked, historyVars>>

\* Mutant: a leftover is only looked at when the daemon starts.
DrainNoLeftover ==
  /\ pc = "rename"
  /\ IF trigger # NoFile
     THEN draining' = trigger /\ trigger' = NoFile /\ pc' = "read"
     ELSE pc' = "awake" /\ UNCHANGED <<draining, trigger>>
  /\ UNCHANGED <<clock, config, record, spent, loaded, nextFire, asking, todo, now, due,
                 lives, asked, historyVars>>

\* _drain_triggers: the request becomes the .draining file, in place of any
\* leftover; the leftover is taken up only when there is no new request.
Drain ==
  /\ pc = "rename"
  /\ \/ trigger # NoFile /\ draining' = trigger /\ trigger' = NoFile /\ pc' = "read"
     \/ trigger = NoFile /\ draining # NoFile /\ pc' = "read" /\ UNCHANGED <<draining, trigger>>
     \/ trigger = NoFile /\ draining = NoFile /\ pc' = "awake" /\ UNCHANGED <<draining, trigger>>
  /\ cuts' = cuts \union
       (IF trigger # NoFile /\ draining # NoFile THEN {"replaced"} ELSE {})
  /\ UNCHANGED <<clock, config, record, spent, loaded, nextFire, asking, todo, now, due,
                 lives, asked, fired, ran, told, since, owed>>

\* Read and unlinked, then fired name by name.
ReadRequest ==
  /\ pc = "read"
  /\ todo' = draining
  /\ draining' = NoFile
  /\ pc' = "runnow"
  /\ UNCHANGED <<clock, config, record, spent, trigger, loaded, nextFire, asking, now,
                 due, lives, asked, historyVars>>

RunNow(e) ==
  /\ pc = "runnow"
  /\ e \in todo
  /\ todo' = todo \ {e}
  /\ owed' = owed \ {e}
  /\ UNCHANGED <<clock, fileVars, loaded, nextFire, asking, pc, now, due, lives, asked,
                 fired, ran, told, since, cuts>>

Drained ==
  /\ pc = "runnow"
  /\ todo = {}
  /\ pc' = "awake"
  /\ UNCHANGED <<clock, fileVars, loaded, nextFire, asking, todo, now, due, lives, asked,
                 historyVars>>

\* The clock is read once for the pass over the entries.
FindDue ==
  /\ pc = "awake"
  /\ now' = clock
  /\ todo' = {e \in Entries : nextFire[e] <= clock}
  /\ pc' = "due"
  /\ UNCHANGED <<clock, fileVars, loaded, nextFire, asking, due, lives, asked, historyVars>>

\* Mutant: the next fire is counted from the one just made.
RecurringFromScheduled(e) ==
  /\ pc = "due"
  /\ e \in todo \intersect Recurring
  /\ todo' = todo \ {e}
  /\ nextFire' = [nextFire EXCEPT ![e] = Capped(NextAt(loaded[e], @ - 1))]
  /\ record' = [record EXCEPT ![e] = [at |-> nextFire[e], period |-> loaded[e]]]
  /\ due' = [entry |-> e, at |-> nextFire[e]]
  /\ pc' = "fire"
  /\ UNCHANGED <<clock, config, spent, trigger, draining, loaded, asking, now, lives,
                 asked, historyVars>>

\* A recurring entry: advance next_fire, record the scheduled time, then fire.
DueRecurring(e) ==
  /\ pc = "due"
  /\ e \in todo \intersect Recurring
  /\ todo' = todo \ {e}
  /\ nextFire' = [nextFire EXCEPT ![e] = Capped(NextAt(loaded[e], now))]
  /\ record' = [record EXCEPT ![e] = [at |-> nextFire[e], period |-> loaded[e]]]
  /\ due' = [entry |-> e, at |-> nextFire[e]]
  /\ pc' = "fire"
  /\ cuts' = cuts \union
       (IF Missed(loaded[e], nextFire[e], now) # {} THEN {"oversleep"} ELSE {})
  /\ UNCHANGED <<clock, config, spent, trigger, draining, loaded, asking, now, lives,
                 asked, fired, ran, told, since, owed>>

FireRecurring ==
  /\ pc = "fire"
  /\ Attempted(due.entry, due.at)
  /\ due' = NoFire
  /\ pc' = "due"
  /\ UNCHANGED <<clock, fileVars, loaded, nextFire, asking, todo, now, lives, asked, ran,
                 told, since, owed, cuts>>

\* Mutant: the store is not asked before the fire.
OneShotUnasked(e) ==
  /\ pc = "due"
  /\ e \in todo \intersect OneShots
  /\ todo' = todo \ {e}
  /\ nextFire' = [nextFire EXCEPT ![e] = Never]
  /\ ran' = [ran EXCEPT ![e] = IF @ = 2 THEN 2 ELSE @ + 1]
  /\ due' = [entry |-> e, at |-> AtTime]
  /\ pc' = "mark"
  /\ UNCHANGED <<clock, fileVars, loaded, asking, now, lives, asked, fired, told, since, owed,
                 cuts>>

\* A one-shot: never again in this process; fired unless the store says it was,
\* and recorded after the fire.
DueOneShot(e) ==
  /\ pc = "due"
  /\ e \in todo \intersect OneShots
  /\ todo' = todo \ {e}
  /\ nextFire' = [nextFire EXCEPT ![e] = Never]
  /\ \/ e \in spent /\ UNCHANGED <<ran, due, pc>>
     \/ /\ e \notin spent
        /\ ran' = [ran EXCEPT ![e] = IF @ = 2 THEN 2 ELSE @ + 1]
        /\ due' = [entry |-> e, at |-> AtTime]
        /\ pc' = "mark"
  /\ UNCHANGED <<clock, fileVars, loaded, asking, now, lives, asked, fired, told, since, owed,
                 cuts>>

\* Mutant: the entry is recorded after the local was reset.
MarkForgotten ==
  /\ pc = "mark"
  /\ due' = NoFire
  /\ spent' = spent \union {NoFire.entry}
  /\ pc' = "due"
  /\ UNCHANGED <<clock, config, record, trigger, draining, loaded, nextFire, asking, todo,
                 now, lives, asked, historyVars>>

MarkOneShot ==
  /\ pc = "mark"
  /\ spent' = spent \union {due.entry}
  /\ due' = NoFire
  /\ pc' = "due"
  /\ UNCHANGED <<clock, config, record, trigger, draining, loaded, nextFire, asking, todo,
                 now, lives, asked, historyVars>>

Sleep ==
  /\ pc = "due"
  /\ todo = {}
  /\ pc' = "asleep"
  /\ UNCHANGED <<clock, fileVars, loaded, nextFire, asking, todo, now, due, lives, asked,
                 historyVars>>

Kill ==
  /\ pc # "down"
  /\ lives < MaxLives
  /\ pc' = "down" /\ todo' = {} /\ due' = NoFire
  /\ cuts' = cuts \union
       CASE pc \in {"fire", "catchfire"} -> {"fire"}
         [] pc = "mark" -> {"mark"}
         [] pc = "runnow" -> {"drain"}
         [] OTHER -> {}
  /\ UNCHANGED <<clock, fileVars, loaded, nextFire, asking, now, lives, asked, fired, ran,
                 told, since, owed>>

-----------------------------------------------------------------------------
DaemonStep ==
  \/ Boot \/ BeginCatchUp \/ CatchUpFire \/ CaughtUp
  \/ Wake \/ Drain \/ ReadRequest \/ Drained \/ FindDue \/ FireRecurring \/ MarkOneShot
  \/ Sleep
  \/ \E e \in Entries : RunNow(e) \/ DueOneShot(e)
  \/ \E e \in Recurring : CatchUpEntry(e) \/ DueRecurring(e)

Next ==
  \/ DaemonStep \/ Tick \/ WriteRequest \/ Kill
  \/ \E e \in Entries : Ask(e)
  \/ \E e \in Recurring : Edit(e)

Spec == Init /\ [][Next]_vars

(* The supervisor keeps the daemon up, its loop turns, a request that was   *)
(* begun is written, and time passes.                                       *)
FairSpec ==
  Spec /\ WF_vars(DaemonStep) /\ WF_vars(WriteRequest) /\ WF_vars(Tick)

-----------------------------------------------------------------------------
(* Properties.                                                             *)

\* _catch_up_missed: a missed time is caught up once, and a scheduled time fires
\* once, whatever is restarted in between.
FiresOnce == \A e \in Recurring, t \in Times : fired[e][t] <= 1

\* It does as long as reload and catch-up of one start read the same minute.
FiresOnceUnlessSkewed == "skew" \in cuts \/ FiresOnce

\* CronEntry.at: the fire is recorded in the key-state store, so a restart cannot
\* run a one-shot a second time.
OneShotOnce == \A e \in OneShots : ran[e] <= 1

\* It cannot, unless the daemon died between the fire and its record.
OneShotOnceUnlessCut == "mark" \in cuts \/ OneShotOnce

\* _catch_up_missed: no due time vanishes in an outage.  Whatever the record has
\* moved past was attempted or is in some start's log line.
NothingVanishes ==
  cuts \intersect {"fire", "oversleep", "edit"} = {} =>
    \A e \in Recurring, t \in Times :
      /\ record[e] # NoRecord
      /\ t % loaded[e] = 0 /\ since[e] < t /\ t <= record[e].at
      /\ pc \in {"asleep", "down"}
      => fired[e][t] > 0 \/ t \in told[e]

\* docs/agent/cron.md: a .draining leftover from a crashed drain is processed by
\* the next one, not dropped.
LeftoverProcessed ==
  [][draining # NoFile => draining \subseteq draining' \/ draining \subseteq todo']_vars

\* A request not yet fired is in one of the two files or being handled, unless the
\* daemon died between unlink and fire or a leftover was replaced: none falls
\* between a drain and a request that arrives during it.
RequestKeptUnlessCut ==
  cuts \intersect {"drain", "replaced"} = {} =>
    \A e \in owed :
      \/ e \in trigger \union draining \union asking
      \/ pc = "runnow" /\ e \in todo

\* A one-shot whose time has come runs in the end, even when the daemon was down
\* at that time.
OneShotRuns == \A e \in OneShots : <>(ran[e] > 0)

\* So does every run-now request, across restarts, that was not lost like that.
RequestFired ==
  \A e \in Entries :
    (e \in owed) ~> (e \notin owed \/ cuts \intersect {"drain", "replaced"} # {})

\* The three promises of _catch_up_missed, mark_one_shot and the run-now file, each
\* for recurring and one-shot entries or for entries and requests together: a time
\* fires once, nothing due is dropped, and what is owed runs in the end.
FiresOnceUnlessCut == FiresOnceUnlessSkewed /\ OneShotOnceUnlessCut
NothingOwedVanishes == NothingVanishes /\ RequestKeptUnlessCut
WhatIsOwedRuns == RequestFired /\ OneShotRuns
=============================================================================
