----------------------------- MODULE JobsWorker -----------------------------
(***************************************************************************)
(* jobs/worker.py driven by jobs/cli._run: the one worker process that     *)
(* drains the file queue.  It recovers and redelivers at start, keeps up   *)
(* to Concurrency run_once tasks going on one event loop, is stopped by a  *)
(* signal (its tasks are cancelled) or killed outright, and is started     *)
(* again.  A task runs without interruption from one await to the next;    *)
(* only a kill can cut such a stretch, which is why complete() is two      *)
(* steps here: it has two durable effects.                                 *)
(***************************************************************************)
EXTENDS FileQueue, Sequences

CONSTANTS Concurrency,  \* JOBS_CONCURRENCY
          MaxLives,     \* bound: worker processes; the last one is left running
          RunnerRaises, \* whether runner.run may raise rather than return
          PostFails     \* whether a notifier may raise

ASSUME WorkerAssumption ==
  /\ Concurrency \in Nat \ {0}
  /\ MaxLives \in Nat \ {0}
  /\ RunnerRaises \in BOOLEAN
  /\ PostFails \in BOOLEAN

VARIABLES phase,   \* where the process is in _run / run_loop
          task,    \* what the task that owns a job is awaiting
          pending, \* redeliver_pending's list, what is left of it
          life,    \* how many worker processes have started
          runs,    \* history: runs of each job
          verdict, \* what the job finished with: the Result a task holds
          posted   \* history: the verdicts posted to each job's origin

workerVars == <<phase, task, pending, life, runs, verdict, posted>>
vars == <<queueVars, workerVars>>

Phases == {"down", "redelivering", "looping", "stopping"}

(* "run": runner.run.  "wrote": inside complete(), between its two renames. *)
(* "deliver", "posted": notifier.notify, before and after the post landed.  *)
(* "alert": alert_sink.alert.  "notice": the interrupted notice.            *)
(* "redeliver", "reposted": redeliver_pending's own call of _deliver.       *)
TaskStates == {"none", "run", "wrote", "deliver", "posted", "alert", "notice",
               "redeliver", "reposted"}

TypeOK ==
  /\ QueueTypeOK
  /\ phase \in Phases
  /\ task \in [Jobs -> TaskStates]
  /\ pending \in SUBSET Jobs
  /\ life \in Nat
  /\ runs \in [Jobs -> Nat]
  /\ verdict \in [Jobs -> Outcomes]
  /\ posted \in [Jobs -> Seq(Outcomes)]

Init ==
  /\ QueueInit
  /\ phase = "down"
  /\ task = [j \in Jobs |-> "none"]
  /\ pending = {}
  /\ life = 0
  /\ runs = [j \in Jobs |-> 0]
  /\ verdict = [j \in Jobs |-> "none"]
  /\ posted = [j \in Jobs |-> <<>>]

Idle == \A j \in Jobs : task[j] = "none"

\* No task is inside a stretch of code with no await, so another may step.
LoopFree == \A j \in Jobs : task[j] # "wrote"

Busy == {j \in Jobs : task[j] # "none"}

Become(j, s) == task' = [task EXCEPT ![j] = s]

-----------------------------------------------------------------------------
(* The rest of the world.                                                  *)

Produce ==
  /\ \E j \in Jobs, d \in 0..MaxDelay : Enqueue(j, d)
  /\ UNCHANGED workerVars

TimePasses == Tick /\ UNCHANGED workerVars

-----------------------------------------------------------------------------
(* Start and stop.                                                         *)

\* recover_stale, then undelivered(): no await between them.
Start ==
  /\ phase = "down"
  /\ life < MaxLives
  /\ RecoverStale
  /\ phase' = "redelivering"
  /\ pending' = Undelivered
  /\ life' = life + 1
  /\ UNCHANGED <<task, runs, verdict, posted>>

\* The stop event is set and run_loop leaves its wait: every task in flight is
\* cancelled.  A cancelled run goes on to tell its origin; a cancelled delivery
\* or alert just ends, and the result stays unmarked.
Stop ==
  /\ phase = "looping"
  /\ life < MaxLives
  /\ LoopFree
  /\ phase' = "stopping"
  /\ task' = [j \in Jobs |-> IF task[j] = "run" THEN "notice" ELSE "none"]
  /\ UNCHANGED <<queueVars, pending, life, runs, verdict, posted>>

\* The shielded, time-boxed notice returned, failed or ran out of time.
NoticeDone(j) ==
  /\ task[j] = "notice"
  /\ Become(j, "none")
  /\ UNCHANGED <<queueVars, phase, pending, life, runs, verdict, posted>>

Exit ==
  /\ phase = "stopping"
  /\ Idle
  /\ phase' = "down"
  /\ UNCHANGED <<queueVars, task, pending, life, runs, verdict, posted>>

\* SIGKILL, a power cut, or the end of the supervisor's grace.
Kill ==
  /\ phase # "down"
  /\ life < MaxLives
  /\ phase' = "down"
  /\ task' = [j \in Jobs |-> "none"]
  /\ pending' = {}
  /\ UNCHANGED <<queueVars, life, runs, verdict, posted>>

-----------------------------------------------------------------------------
(* redeliver_pending: one reply after the other, oldest first.             *)

BeginRedelivery(j) ==
  /\ phase = "redelivering"
  /\ Idle
  /\ j \in pending
  /\ \A k \in pending : j <= k
  /\ Become(j, "redeliver")
  /\ UNCHANGED <<queueVars, phase, pending, life, runs, verdict, posted>>

Repost(j) ==
  /\ task[j] = "redeliver"
  /\ Become(j, "reposted")
  /\ posted' = [posted EXCEPT ![j] = Append(@, result[j])]
  /\ UNCHANGED <<queueVars, phase, pending, life, runs, verdict>>

RepostReturns(j) ==
  /\ task[j] = "reposted"
  /\ MarkDelivered(j)
  /\ Become(j, "none")
  /\ pending' = pending \ {j}
  /\ UNCHANGED <<phase, life, runs, verdict, posted>>

\* notify raised, before or after the post landed.
RepostRaises(j) ==
  /\ PostFails
  /\ task[j] \in {"redeliver", "reposted"}
  /\ Become(j, "none")
  /\ pending' = pending \ {j}
  /\ UNCHANGED <<queueVars, phase, life, runs, verdict, posted>>

EnterLoop ==
  /\ phase = "redelivering"
  /\ Idle
  /\ pending = {}
  /\ phase' = "looping"
  /\ UNCHANGED <<queueVars, task, pending, life, runs, verdict, posted>>

-----------------------------------------------------------------------------
(* run_once.                                                               *)

Slot == phase = "looping" /\ LoopFree /\ Cardinality(Busy) < Concurrency

BeginRun(j) ==
  /\ Slot
  /\ Claim(j)
  /\ Become(j, "run")
  /\ runs' = [runs EXCEPT ![j] = @ + 1]
  /\ UNCHANGED <<phase, pending, life, verdict, posted>>

SkipPoison(j) ==
  /\ Slot
  /\ ClaimPoison(j)
  /\ UNCHANGED workerVars

\* runner.run returned and complete() replaced the result file.
FinishRun(j, v) ==
  /\ task[j] = "run"
  /\ phase = "looping"
  /\ LoopFree
  /\ WriteResult(j, v)
  /\ Become(j, "wrote")
  /\ UNCHANGED <<phase, pending, life, runs, verdict, posted>>

\* Mutant: the failed task puts its job back at once.
RunRaisesRequeues(j) ==
  /\ task[j] = "run"
  /\ phase = "looping"
  /\ LoopFree
  /\ place' = [place EXCEPT ![j] = "new"]
  /\ Become(j, "none")
  /\ UNCHANGED <<mtime, avail, result, resultAt, markedAt, clock,
                 phase, pending, life, runs, verdict, posted>>

\* runner.run raised something it does not turn into a Result (a broker that
\* cannot start, a workspace that cannot be made), or the result could not be
\* written: _harvest logs it, and the job stays in cur/ with nobody on it.
RunRaises(j) ==
  /\ RunnerRaises \/ FlakyDisk
  /\ task[j] = "run"
  /\ phase = "looping"
  /\ LoopFree
  /\ Become(j, "none")
  /\ UNCHANGED <<queueVars, phase, pending, life, runs, verdict, posted>>

\* The result is written but the job file cannot be moved: complete() raises.
ArchiveRaises(j) ==
  /\ FlakyDisk
  /\ task[j] = "wrote"
  /\ Become(j, "none")
  /\ UNCHANGED <<queueVars, phase, pending, life, runs, verdict, posted>>

\* The rest of complete(), and on to _deliver.
ArchiveJob(j) ==
  /\ task[j] = "wrote"
  /\ Archive(j)
  /\ Become(j, "deliver")
  /\ verdict' = [verdict EXCEPT ![j] = result[j]]
  /\ UNCHANGED <<phase, pending, life, runs, posted>>

Post(j) ==
  /\ LoopFree
  /\ task[j] = "deliver"
  /\ Become(j, "posted")
  /\ posted' = [posted EXCEPT ![j] = Append(@, verdict[j])]
  /\ UNCHANGED <<queueVars, phase, pending, life, runs, verdict>>

\* After the delivery a failed job alerts, whether or not the post worked.
Afterwards(j) == Become(j, IF verdict[j] = "fail" THEN "alert" ELSE "none")

PostReturns(j) ==
  /\ LoopFree
  /\ task[j] = "posted"
  /\ MarkDelivered(j)
  /\ Afterwards(j)
  /\ UNCHANGED <<phase, pending, life, runs, verdict, posted>>

\* Mutant: a notifier that raised counts as one that returned.
PostRaisesMarks(j) ==
  /\ PostFails
  /\ LoopFree
  /\ task[j] = "deliver"
  /\ MarkDelivered(j)
  /\ Afterwards(j)
  /\ UNCHANGED <<phase, pending, life, runs, verdict, posted>>

PostRaises(j) ==
  /\ PostFails
  /\ LoopFree
  /\ task[j] \in {"deliver", "posted"}
  /\ Afterwards(j)
  /\ UNCHANGED <<queueVars, phase, pending, life, runs, verdict, posted>>

\* Mutant: the slot is not given back as a free one.
AlertDoneLeaks(j) ==
  /\ LoopFree
  /\ task[j] = "alert"
  /\ Become(j, "alerted")
  /\ UNCHANGED <<queueVars, phase, pending, life, runs, verdict, posted>>

AlertDone(j) ==
  /\ LoopFree
  /\ task[j] = "alert"
  /\ Become(j, "none")
  /\ UNCHANGED <<queueVars, phase, pending, life, runs, verdict, posted>>

-----------------------------------------------------------------------------
Step(j) ==
  \/ NoticeDone(j)
  \/ BeginRedelivery(j) \/ Repost(j) \/ RepostReturns(j) \/ RepostRaises(j)
  \/ BeginRun(j) \/ SkipPoison(j)
  \/ \E v \in Verdicts : FinishRun(j, v)
  \/ RunRaises(j) \/ ArchiveRaises(j) \/ ArchiveJob(j)
  \/ Post(j) \/ PostReturns(j) \/ PostRaises(j) \/ AlertDone(j)

Next ==
  \/ Produce \/ TimePasses
  \/ Start \/ Stop \/ Exit \/ Kill \/ EnterLoop
  \/ \E j \in Jobs : Step(j)

Spec == Init /\ [][Next]_vars

(* Fairness: the supervisor starts a dead worker again, the event loop      *)
(* gives every task its turn, an agent run ends (its timeout sees to it)   *)
(* and time passes.  Nothing makes anyone enqueue, stop or kill.           *)
Fairness ==
  /\ WF_vars(Start) /\ WF_vars(Exit) /\ WF_vars(EnterLoop) /\ WF_vars(TimePasses)
  /\ \A j \in Jobs : WF_vars(Step(j))

FairSpec == Spec /\ Fairness

-----------------------------------------------------------------------------
(* Properties.                                                             *)

Finished(j) == place[j] \in {"done", "pruned"}

\* One worker life runs a job at most once and posts its result at most once,
\* whatever is cancelled, killed, raised or redelivered: duplicates are paid
\* for by restarts, never by the loop itself (run_loop, redeliver_pending).
OncePerLife == \A j \in Jobs : runs[j] <= life /\ Len(posted[j]) <= life

\* A delivery marker is never there before the reply went out: a marker
\* written early would turn an interrupted delivery into a lost reply
\* (_deliver, mark_delivered).
MarkedWasPosted == \A j \in Jobs : markedAt[j] # Absent => posted[j] # <<>>

\* Work that was answered is never done again: no restart, recovery or
\* quarantine puts a job whose reply went out back to work (redeliver_pending:
\* only the delivery is retried).
AnsweredNeverReruns ==
  [][\A j \in Jobs : posted[j] # <<>> => runs'[j] = runs[j]]_vars

\* A completed result without a delivery marker, young enough to be retried.
Owed(j) ==
  /\ resultAt[j] # Absent
  /\ markedAt[j] = Absent
  /\ resultAt[j] >= clock - RetryWindow

\* docs/agent/jobs.md: a result with no marker is a reply somebody is still
\* waiting for, and redeliver_pending re-posts it at the next start.  So its
\* job file, which holds the origin, has not been swept away.
OwedReplyKeepsItsOrigin ==
  \A j \in Jobs : Owed(j) => place[j] # "pruned"

\* The same for a job that finished soon enough after it was enqueued: the
\* sweep dates a job file by its enqueue time, and the two windows leave
\* Retention - RetryWindow for the wait in the queue and the run together.
PromptReplyKeepsItsOrigin ==
  \A j \in Jobs :
    /\ Owed(j)
    /\ resultAt[j] - mtime[j] <= Retention - RetryWindow
    => place[j] # "pruned"

\* The files and tasks implement the promise of JobPromise: the rename that
\* archives a job is the moment it finishes.
StatusOf(where) ==
  CASE where = "nowhere" -> "absent"
    [] where = "new" -> "waiting"
    [] where = "cur" -> "running"
    [] where = "failed" -> "rejected"
    [] OTHER -> "finished"

Standing == [j \in Jobs |-> StatusOf(place[j])]

Promise == INSTANCE JobPromise WITH status <- Standing, replies <- posted

KeepsPromise == Promise!Spec

\* An accepted job that can be read is eventually finished, however often the
\* worker is stopped or killed on the way.
AcceptedIsFinished ==
  \A j \in Jobs \ Poison : (place[j] = "new") ~> Finished(j)

\* A finished job's reply eventually goes out, even when the worker died
\* between finishing and posting, as long as the window is open.
FinishedIsAnswered ==
  \A j \in Jobs : Finished(j) ~> posted[j] # <<>>

\* Every job that parses is finished and answered: run_loop and redeliver_pending
\* together, across kills and stops.
EveryJobIsAnswered == AcceptedIsFinished /\ FinishedIsAnswered
=============================================================================
