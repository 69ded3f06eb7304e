---------------------------- MODULE CronAdmission ----------------------------
(***************************************************************************)
(* How one producer entry of cron.py decides what to enqueue, against the  *)
(* worker process that finishes the jobs: CronDaemon._admit on one side,   *)
(* run_once and recover_stale on the other.  The two share the queue's     *)
(* directories and one key-state file per item (jobs/key_state.py), and no *)
(* lock.  _admit has no await, so within the daemon it is one stretch; the *)
(* steps here are the file reads and writes another process may separate.  *)
(*                                                                         *)
(* A key's jobs are interchangeable, so the directories are counts.  A     *)
(* record's failures and last_failed_at are kept as what should_skip asks  *)
(* of them: whether the backoff wait is still running.                     *)
(***************************************************************************)
EXTENDS Integers, FiniteSets

CONSTANTS Keys,          \* the items the producer may report
          Prints,        \* fingerprints an item may have
          MaxConcurrent, \* the entry's max_concurrent
          MaxFires,      \* the entry's max_fires, 0 for no limit
          Concurrency,   \* the worker's slots
          RunnerRaises,  \* whether runner.run may raise
          RenderFails,   \* whether a prompt may fail to render
          MaxKills       \* bound: how often a process is killed

ASSUME AdmissionAssumption ==
  /\ "none" \notin Keys /\ 0 \notin Prints
  /\ MaxConcurrent \in Nat \ {0}
  /\ MaxFires \in Nat
  /\ Concurrency \in Nat \ {0}
  /\ RunnerRaises \in BOOLEAN
  /\ RenderFails \in BOOLEAN
  /\ MaxKills \in Nat

VARIABLES world,   \* the fingerprint each item has at its source, or Gone
          waiting, \* how many of a key's jobs are in new/
          held,    \* how many are in cur/
          record,  \* the key-state file of each key
          pc,      \* where the daemon is in _admit
          items,   \* the items still to look at, with their fingerprints
          item,    \* the key being looked at
          seen,    \* what the glob of new/ counted
          outstanding, \* _admit's local of that name
          mine,    \* record_fire's copy of the record
          phase,   \* the worker: down, recovering or up
          running, \* how many of a key's jobs have a task
          outcome, \* the outcome the worker is about to record
          kills,
          streak,  \* history: fires of the item as it last was, and its print
          failed,  \* history: the wait after the last recorded failure
          races    \* history: which of the known races have happened

daemonVars == <<pc, items, item, seen, outstanding, mine>>
workerVars == <<phase, running, outcome>>
historyVars == <<streak, failed, races>>
vars == <<world, waiting, held, record, daemonVars, workerVars, kills, historyVars>>

Gone == 0
Nobody == [key |-> "none"]
Waits == {"none", "waiting", "over"}
Records == [print : Prints \union {Gone}, fires : Nat, wait : Waits]
Fresh == [print |-> Gone, fires |-> 0, wait |-> "none"]
Steps == {"idle", "totalling", "items", "counting", "gate", "admit", "fired", "recording"}

(* "torn": recover_stale moved files between the two globs of a count.      *)
(* "gap": an item was enqueued between its last job's archiving and the     *)
(* recording of that job's outcome.  "outran": a job finished before its    *)
(* own fire was recorded.  "unrecorded": the daemon died in between.        *)
Races == {"torn", "gap", "outran", "unrecorded"}

TypeOK ==
  /\ world \in [Keys -> Prints \union {Gone}]
  /\ waiting \in [Keys -> Nat] /\ held \in [Keys -> Nat] /\ running \in [Keys -> Nat]
  /\ \A k \in Keys : running[k] <= held[k]
  /\ record \in [Keys -> Records]
  /\ pc \in Steps
  /\ DOMAIN items \subseteq Keys /\ \A k \in DOMAIN items : items[k] \in Prints
  /\ pc \in {"counting", "gate", "admit", "fired", "recording"} => item \in DOMAIN items
  /\ seen \in Nat /\ outstanding \in Nat
  /\ mine \in Records
  /\ phase \in {"down", "recovering", "up"}
  /\ outcome = Nobody \/ outcome \in [key : Keys, ok : BOOLEAN, copy : Records \union {Nobody}]
  /\ kills \in 0..MaxKills
  /\ streak \in [Keys -> [print : Prints \union {Gone}, fires : Nat]]
  /\ failed \in [Keys -> Waits]
  /\ races \subseteq Races

Init ==
  /\ world \in [Keys -> Prints \union {Gone}]
  /\ waiting = [k \in Keys |-> 0] /\ held = [k \in Keys |-> 0]
  /\ record = [k \in Keys |-> Fresh]
  /\ pc = "idle" /\ items = << >> /\ item = "none" /\ seen = 0 /\ outstanding = 0
  /\ mine = Fresh
  /\ phase = "down" /\ running = [k \in Keys |-> 0] /\ outcome = Nobody
  /\ kills = 0
  /\ streak = [k \in Keys |-> [print |-> Gone, fires |-> 0]]
  /\ failed = [k \in Keys |-> "none"]
  /\ races = {}

\* The job files there are when each key has f[k] of them.
Total(f) == Cardinality(UNION {{k} \X (1 .. f[k]) : k \in DOMAIN f})

\* Bound: fires are told apart up to one too many; nothing asks for more.
Saturated(n) == IF n > MaxFires + 1 THEN MaxFires + 1 ELSE n

-----------------------------------------------------------------------------
(* The source the producer polls, and time.                                *)

Change(k) ==
  /\ \E p \in Prints \union {Gone} : p # world[k] /\ world' = [world EXCEPT ![k] = p]
  /\ UNCHANGED <<waiting, held, record, daemonVars, workerVars, kills, historyVars>>

\* The wait after k's last failure runs out, in the file and in every copy of it.
Aged(r) == IF r.wait = "waiting" THEN [r EXCEPT !.wait = "over"] ELSE r

Elapse(k) ==
  /\ record[k].wait = "waiting" \/ failed[k] = "waiting"
  /\ record' = [record EXCEPT ![k] = Aged(@)]
  /\ failed' = [failed EXCEPT ![k] = IF @ = "waiting" THEN "over" ELSE @]
  /\ mine' = IF item = k THEN Aged(mine) ELSE mine
  /\ outcome' = IF outcome.key = k /\ outcome.copy # Nobody
                THEN [outcome EXCEPT !.copy = Aged(@)] ELSE outcome
  /\ UNCHANGED <<world, waiting, held, pc, items, item, seen, outstanding, phase,
                 running, kills, streak, races>>

-----------------------------------------------------------------------------
(* The daemon: one producer at a time, then _admit over what it printed.   *)

\* The producer exits 0; count_unfinished(entry) globs new/ first.
Poll ==
  /\ pc = "idle"
  /\ \E k \in Keys : world[k] # Gone
  /\ items' = [k \in {i \in Keys : world[i] # Gone} |-> world[k]]
  /\ seen' = Total(waiting)
  /\ pc' = "totalling"
  /\ UNCHANGED <<world, waiting, held, record, item, outstanding, mine, workerVars,
                 kills, historyVars>>

\* ... and cur/ second.
CountEntry ==
  /\ pc = "totalling"
  /\ outstanding' = seen + Total(held)
  /\ pc' = "items" /\ seen' = 0
  /\ UNCHANGED <<world, waiting, held, record, items, item, mine, workerVars,
                 kills, historyVars>>

\* count_unfinished(entry, item) for the next item: new/ first.
TakeItem(k) ==
  /\ pc = "items"
  /\ k \in DOMAIN items
  /\ item' = k
  /\ seen' = waiting[k]
  /\ pc' = "counting"
  /\ UNCHANGED <<world, waiting, held, record, items, outstanding, mine, workerVars,
                 kills, historyVars>>

Without(f, k) == [i \in DOMAIN f \ {k} |-> f[i]]

NextItem ==
  /\ items' = Without(items, item)
  /\ item' = "none" /\ seen' = 0 /\ mine' = Fresh
  /\ pc' = "items"

\* Mutant: a claimed job does not count as unfinished.
CountItemNewOnly ==
  /\ pc = "counting"
  /\ IF seen > 0 \/ outstanding >= MaxConcurrent
     THEN NextItem
     ELSE pc' = "gate" /\ UNCHANGED <<items, item, seen, mine>>
  /\ UNCHANGED <<world, waiting, held, record, outstanding, workerVars, kills,
                 historyVars>>

\* cur/ second; an item already queued, or one over the cap, waits for a later poll.
CountItem ==
  /\ pc = "counting"
  /\ IF seen + held[item] > 0 \/ outstanding >= MaxConcurrent
     THEN NextItem
     ELSE pc' = "gate" /\ UNCHANGED <<items, item, seen, mine>>
  /\ UNCHANGED <<world, waiting, held, record, outstanding, workerVars, kills,
                 historyVars>>

\* Mutant: a moved item does not end the backoff or the parking.
HeldBackForever(r, print) ==
  r.wait = "waiting" \/ (MaxFires > 0 /\ r.fires >= MaxFires)

\* Mutant: one fire too many.
HeldBackLate(r, print) ==
  /\ r.print = print
  /\ r.wait = "waiting" \/ (MaxFires > 0 /\ r.fires > MaxFires)

\* Mutant: only the parking is asked for.
HeldBackParked(r, print) ==
  /\ r.print = print
  /\ MaxFires > 0 /\ r.fires >= MaxFires

\* should_skip: backing off, or parked, on an item that has not moved.
HeldBack(r, print) ==
  /\ r.print = print
  /\ r.wait = "waiting" \/ (MaxFires > 0 /\ r.fires >= MaxFires)

\* should_skip, and the rendering of the prompt, which may fail.
Gate ==
  /\ pc = "gate"
  /\ \/ HeldBack(record[item], items[item]) /\ NextItem
     \/ ~HeldBack(record[item], items[item]) /\ pc' = "admit"
                                           /\ UNCHANGED <<items, item, seen, mine>>
  /\ UNCHANGED <<world, waiting, held, record, outstanding, workerVars, kills,
                 historyVars>>

CannotRender ==
  /\ RenderFails
  /\ pc = "admit"
  /\ NextItem
  /\ UNCHANGED <<world, waiting, held, record, outstanding, workerVars, kills,
                 historyVars>>

\* _enqueue: the job is in new/ before its fire is recorded.
Admit ==
  /\ pc = "admit"
  /\ waiting' = [waiting EXCEPT ![item] = @ + 1]
  /\ pc' = "fired"
  /\ streak' = [streak EXCEPT ![item] =
                  [print |-> items[item],
                   fires |-> IF @.print = items[item] THEN Saturated(@.fires + 1) ELSE 1]]
  /\ races' = races \union (IF outcome.key = item THEN {"gap"} ELSE {})
  /\ UNCHANGED <<world, held, record, items, item, seen, outstanding, mine, workerVars,
                 kills, failed>>

\* record_fire: load ...
LoadForFire ==
  /\ pc = "fired"
  /\ mine' = record[item]
  /\ pc' = "recording"
  /\ UNCHANGED <<world, waiting, held, record, items, item, seen, outstanding,
                 workerVars, kills, historyVars>>

\* What record_fire makes of a record: a moved item starts over.
Fired(r, print) ==
  IF r.print = print THEN [r EXCEPT !.fires = Saturated(@ + 1)]
  ELSE [print |-> print, fires |-> 1, wait |-> "none"]

\* Mutant: _admit forgets to count what it just enqueued.
SaveFireUncounted ==
  /\ pc = "recording"
  /\ record' = [record EXCEPT ![item] = Fired(mine, items[item])]
  /\ failed' = [failed EXCEPT ![item] = IF mine.print = items[item] THEN @ ELSE "none"]
  /\ NextItem
  /\ UNCHANGED <<world, waiting, held, outstanding, workerVars, kills, streak, races>>

\* ... and save; _admit counts the job as outstanding.
SaveFire ==
  /\ pc = "recording"
  /\ record' = [record EXCEPT ![item] = Fired(mine, items[item])]
  /\ failed' = [failed EXCEPT ![item] = IF mine.print = items[item] THEN @ ELSE "none"]
  /\ outstanding' = outstanding + 1
  /\ NextItem
  /\ UNCHANGED <<world, waiting, held, workerVars, kills, streak, races>>

PollEnds ==
  /\ pc = "items"
  /\ items = << >>
  /\ pc' = "idle" /\ outstanding' = 0
  /\ UNCHANGED <<world, waiting, held, record, items, item, seen, mine, workerVars,
                 kills, historyVars>>

\* The daemon dies in mid-poll and is started again; a graceful stop cannot cut
\* _admit, which has no await.
KillDaemon ==
  /\ pc # "idle"
  /\ kills < MaxKills
  /\ kills' = kills + 1
  /\ races' = races \union (IF pc \in {"fired", "recording"} THEN {"unrecorded"} ELSE {})
  /\ pc' = "idle" /\ items' = << >> /\ item' = "none" /\ seen' = 0
  /\ outstanding' = 0 /\ mine' = Fresh
  /\ UNCHANGED <<world, waiting, held, record, workerVars, streak, failed>>

-----------------------------------------------------------------------------
(* The worker.                                                             *)

StartWorker ==
  /\ phase = "down"
  /\ phase' = "recovering"
  /\ UNCHANGED <<world, waiting, held, record, daemonVars, running, outcome, kills,
                 historyVars>>

\* recover_stale, one file at a time.
Recover(k) ==
  /\ phase = "recovering"
  /\ held[k] > 0
  /\ held' = [held EXCEPT ![k] = @ - 1]
  /\ waiting' = [waiting EXCEPT ![k] = @ + 1]
  /\ races' = races \union
       (IF pc = "totalling" \/ (pc = "counting" /\ item = k) THEN {"torn"} ELSE {})
  /\ UNCHANGED <<world, record, daemonVars, workerVars, kills, streak, failed>>

EnterLoop ==
  /\ phase = "recovering"
  /\ \A k \in Keys : held[k] = 0
  /\ phase' = "up"
  /\ UNCHANGED <<world, waiting, held, record, daemonVars, running, outcome, kills,
                 historyVars>>

\* The claim's rename.  Which key is oldest is left open.
Claim(k) ==
  /\ phase = "up"
  /\ outcome = Nobody
  /\ Total(running) < Concurrency
  /\ waiting[k] > 0
  /\ waiting' = [waiting EXCEPT ![k] = @ - 1]
  /\ held' = [held EXCEPT ![k] = @ + 1]
  /\ running' = [running EXCEPT ![k] = @ + 1]
  /\ UNCHANGED <<world, record, daemonVars, phase, outcome, kills, historyVars>>

\* The task ends with an exception and leaves its file in cur/.
RunRaises(k) ==
  /\ RunnerRaises
  /\ outcome = Nobody
  /\ running[k] > 0
  /\ running' = [running EXCEPT ![k] = @ - 1]
  /\ UNCHANGED <<world, waiting, held, record, daemonVars, phase, outcome, kills,
                 historyVars>>

\* Mutant: the finished task keeps its slot.
CompleteKeepsSlot(k, ok) ==
  /\ outcome = Nobody
  /\ running[k] > 0
  /\ held' = [held EXCEPT ![k] = @ - 1]
  /\ outcome' = [key |-> k, ok |-> ok, copy |-> Nobody]
  /\ UNCHANGED <<world, waiting, record, daemonVars, phase, running, kills, historyVars>>

\* complete() archives the job; recorder.record comes right after.
Complete(k, ok) ==
  /\ outcome = Nobody
  /\ running[k] > 0
  /\ running' = [running EXCEPT ![k] = @ - 1]
  /\ held' = [held EXCEPT ![k] = @ - 1]
  /\ outcome' = [key |-> k, ok |-> ok, copy |-> Nobody]
  /\ races' = races \union
       (IF pc \in {"fired", "recording"} /\ item = k THEN {"outran"} ELSE {})
  /\ UNCHANGED <<world, waiting, record, daemonVars, phase, kills, streak, failed>>

\* record_outcome: load ...
LoadForOutcome ==
  /\ outcome # Nobody
  /\ outcome.copy = Nobody
  /\ outcome' = [outcome EXCEPT !.copy = record[outcome.key]]
  /\ UNCHANGED <<world, waiting, held, record, daemonVars, phase, running, kills,
                 historyVars>>

\* ... and save.
SaveOutcome ==
  /\ outcome # Nobody
  /\ outcome.copy # Nobody
  /\ LET wait == IF outcome.ok THEN "none" ELSE "waiting"
     IN /\ record' = [record EXCEPT ![outcome.key] = [outcome.copy EXCEPT !.wait = wait]]
        /\ failed' = [failed EXCEPT ![outcome.key] = wait]
  /\ outcome' = Nobody
  /\ races' = races \union
       (IF pc = "admit" /\ item = outcome.key THEN {"gap"} ELSE {})
  /\ UNCHANGED <<world, waiting, held, daemonVars, phase, running, kills, streak>>

KillWorker ==
  /\ phase # "down"
  /\ kills < MaxKills
  /\ kills' = kills + 1
  /\ phase' = "down"
  /\ running' = [k \in Keys |-> 0]
  /\ outcome' = Nobody
  /\ UNCHANGED <<world, waiting, held, record, daemonVars, historyVars>>

-----------------------------------------------------------------------------
DaemonStep ==
  \/ Poll \/ CountEntry \/ (\E k \in Keys : TakeItem(k)) \/ CountItem \/ Gate
  \/ Admit \/ LoadForFire \/ SaveFire \/ PollEnds

WorkerStep(k) ==
  \/ Recover(k) \/ Claim(k) \/ \E ok \in BOOLEAN : Complete(k, ok)

RecordStep == StartWorker \/ EnterLoop \/ LoadForOutcome \/ SaveOutcome

Next ==
  \/ \E k \in Keys : Change(k) \/ Elapse(k) \/ WorkerStep(k) \/ RunRaises(k)
  \/ DaemonStep \/ CannotRender \/ RecordStep
  \/ KillDaemon \/ KillWorker

Spec == Init /\ [][Next]_vars

(* The entry keeps polling, a poll and an admission run to their end, the  *)
(* worker is started and drains, and a wait runs out.                      *)
Fairness ==
  /\ WF_vars(DaemonStep) /\ WF_vars(RecordStep)
  /\ \A k \in Keys : WF_vars(WorkerStep(k)) /\ WF_vars(Elapse(k))

FairSpec == Spec /\ Fairness

-----------------------------------------------------------------------------
(* Properties.                                                             *)

Unfinished(k) == waiting[k] + held[k]

\* count_unfinished's comment: a stale answer double-enqueues, so this one is
\* read from the directories each time.  One item has at most one job.
OneJobPerItem == \A k \in Keys : Unfinished(k) <= 1

\* Only a recovery that moves files between the two globs can break that, and
\* the cap with it: no claim, completion, kill or restart elsewhere does.
OneJobUnlessTorn == "torn" \in races \/ OneJobPerItem

CapUnlessTorn ==
  "torn" \in races \/ Total(waiting) + Total(held) <= MaxConcurrent

\* key_state.py: an item that does not move is parked after max_fires fires.
ParkedAtMaxFires == MaxFires > 0 => \A k \in Keys : streak[k].fires <= MaxFires

\* It is, unless the daemon died before recording a fire, or a job's outcome was
\* recorded while a fire of the same key was.
ParkedUnlessRaced == races \subseteq {"torn"} => ParkedAtMaxFires

\* docs/agent/cron.md, gate 3: an item whose last job failed is not enqueued
\* again, unmoved, while its backoff runs; the same races excepted.
BacksOff ==
  /\ races' \subseteq {"torn"}
  /\ pc = "admit" /\ pc' = "fired"
  /\ streak[item].print = items[item]
  => failed[item] # "waiting"
BacksOffUnlessRaced == [][BacksOff]_vars

\* An item that has come to rest at its source with new content is enqueued with
\* that content in the end, however its key was parked or backing off before.
MovedItemIsFired ==
  \A k \in Keys, p \in Prints : <>[](world[k] = p) => <>(streak[k].print = p)
=============================================================================
