----------------------------- MODULE JobPromise -----------------------------
(***************************************************************************)
(* What the background-job subsystem promises whoever hands it a job,      *)
(* stated without files, processes or restarts (the ports of jobs/core.py: *)
(* JobQueue, AgentRunner, Notifier).  An accepted job is worked on, maybe  *)
(* more than once, until it finishes with one verdict that never changes;  *)
(* its reply goes out only then, and carries that verdict.  A job whose    *)
(* record cannot be read is rejected and never worked on.                  *)
(***************************************************************************)
EXTENDS Sequences

CONSTANTS Jobs,     \* job ids
          Verdicts  \* what a run can end in

VARIABLES status,   \* where each job stands
          verdict,  \* what it finished with, "none" until then
          replies   \* the verdicts posted to the origin, in order

vars == <<status, verdict, replies>>

Statuses == {"absent", "waiting", "running", "finished", "rejected"}

TypeOK ==
  /\ status \in [Jobs -> Statuses]
  /\ verdict \in [Jobs -> Verdicts \union {"none"}]
  /\ replies \in [Jobs -> Seq(Verdicts)]

Init ==
  /\ status = [j \in Jobs |-> "absent"]
  /\ verdict = [j \in Jobs |-> "none"]
  /\ replies = [j \in Jobs |-> <<>>]

\* JobQueue.enqueue: durably record a new job.
Accept(j) ==
  /\ status[j] = "absent"
  /\ status' = [status EXCEPT ![j] = "waiting"]
  /\ UNCHANGED <<verdict, replies>>

\* JobQueue.claim: the job is owned by the caller until it completes.
Begin(j) ==
  /\ status[j] = "waiting"
  /\ status' = [status EXCEPT ![j] = "running"]
  /\ UNCHANGED <<verdict, replies>>

\* JobQueue.recover_stale: work that was cut short goes back to the queue.
Requeue(S) ==
  /\ \A j \in S : status[j] = "running"
  /\ status' = [j \in Jobs |-> IF j \in S THEN "waiting" ELSE status[j]]
  /\ UNCHANGED <<verdict, replies>>

\* JobQueue.complete: finished, with one verdict.
Finish(j, v) ==
  /\ status[j] = "running"
  /\ status' = [status EXCEPT ![j] = "finished"]
  /\ verdict' = [verdict EXCEPT ![j] = v]
  /\ UNCHANGED replies

\* An unreadable record is put aside, from wherever claim found it.
Reject(j) ==
  /\ status[j] = "waiting"
  /\ status' = [status EXCEPT ![j] = "rejected"]
  /\ UNCHANGED <<verdict, replies>>

\* Notifier.notify: only a finished job has a reply to post.
Reply(j) ==
  /\ status[j] = "finished"
  /\ replies' = [replies EXCEPT ![j] = Append(@, verdict[j])]
  /\ UNCHANGED <<status, verdict>>

Next ==
  \/ \E j \in Jobs : Accept(j) \/ Begin(j) \/ Reject(j) \/ Reply(j)
  \/ \E j \in Jobs, v \in Verdicts : Finish(j, v)
  \/ \E S \in SUBSET Jobs : Requeue(S)

Spec == Init /\ [][Next]_vars
=============================================================================
