------------------------------ MODULE FileQueue ------------------------------
(***************************************************************************)
(* jobs/file_queue.py: FileInboxQueue, the file-backed adapter of the      *)
(* JobQueue port.  A job is one file that os.rename moves between the      *)
(* directories new/, cur/, done/ and failed/ of a maildir tree; beside an  *)
(* archived job lie its result file and, once a notifier returned, its     *)
(* delivery marker.  The archive sweep and the redelivery window read file *)
(* modification times, so files carry theirs; a rename keeps it.           *)
(*                                                                         *)
(* Every operator here is one queue operation as an action on the queue's  *)
(* own variables.  JobsWorker composes them with the worker process.       *)
(***************************************************************************)
EXTENDS Integers, FiniteSets

CONSTANTS Jobs,        \* job ids; time-sortable in the code, hence numbers
          Retention,   \* DONE_RETENTION_S, in clock units
          RetryWindow, \* DELIVERY_RETRY_WINDOW_S, in clock units
          MaxDelay,    \* how far ahead available_at may lie
          MaxClock,    \* bound: no time is later than this
          Poison,      \* the jobs whose file does not parse
          FlakyDisk    \* whether the OSErrors the code handles may happen

ASSUME QueueAssumption ==
  /\ Jobs \subseteq Nat
  /\ Retention \in Nat
  /\ RetryWindow \in Nat
  /\ MaxDelay \in Nat
  /\ MaxClock \in Nat
  /\ Poison \subseteq Jobs
  /\ FlakyDisk \in BOOLEAN

VARIABLES place,    \* the directory that holds the job's file
          mtime,    \* modification time of the job's file: its enqueue time
          avail,    \* its available_at
          result,   \* contents of <id>.result.json, "none" when absent
          resultAt, \* that file's modification time, Absent when absent
          markedAt, \* same for <id>.delivered.json
          clock     \* wall clock

queueVars == <<place, mtime, avail, result, resultAt, markedAt, clock>>

Absent == -1
Verdicts == {"ok", "fail"}
Outcomes == Verdicts \union {"none"}
Places == {"nowhere", "new", "cur", "done", "failed", "pruned"}

QueueTypeOK ==
  /\ place \in [Jobs -> Places]
  /\ mtime \in [Jobs -> Nat]
  /\ avail \in [Jobs -> Nat]
  /\ result \in [Jobs -> Outcomes]
  /\ resultAt \in [Jobs -> Nat \union {Absent}]
  /\ markedAt \in [Jobs -> Nat \union {Absent}]
  /\ clock \in Nat

QueueInit ==
  /\ place = [j \in Jobs |-> "nowhere"]
  /\ mtime = [j \in Jobs |-> 0]
  /\ avail = [j \in Jobs |-> 0]
  /\ result = [j \in Jobs |-> "none"]
  /\ resultAt = [j \in Jobs |-> Absent]
  /\ markedAt = [j \in Jobs |-> Absent]
  /\ clock = 0

-----------------------------------------------------------------------------
(* Producer.  The write goes to tmp/ and one rename publishes it, so the   *)
(* rest of the system sees a single step.                                  *)

Enqueue(j, delay) ==
  /\ place[j] = "nowhere"
  /\ clock + delay <= MaxClock
  /\ place' = [place EXCEPT ![j] = "new"]
  /\ mtime' = [mtime EXCEPT ![j] = clock]
  /\ avail' = [avail EXCEPT ![j] = clock + delay]
  /\ UNCHANGED <<result, resultAt, markedAt, clock>>

-----------------------------------------------------------------------------
(* Worker side.                                                            *)

\* _due: the payload's available_at has passed.  A file that does not parse,
\* or that the disk refuses to read just then, counts as due as well.
SurelyDue(j) == place[j] = "new" /\ (avail[j] <= clock \/ j \in Poison)
Due(j) == SurelyDue(j) \/ (FlakyDisk /\ place[j] = "new")

\* claim scans sorted(new/) and takes the first due file.
NextDue(j) == Due(j) /\ \A k \in Jobs : SurelyDue(k) => j <= k

Claim(j) ==
  /\ NextDue(j)
  /\ j \notin Poison
  /\ place' = [place EXCEPT ![j] = "cur"]
  /\ UNCHANGED <<mtime, avail, result, resultAt, markedAt, clock>>

\* The claim's _load cannot read the file (malformed, or an OSError) and
\* _quarantine moves it to failed/; if that move fails too it stays in cur/.
ClaimPoison(j) ==
  /\ NextDue(j)
  /\ j \in Poison \/ FlakyDisk
  /\ \/ place' = [place EXCEPT ![j] = "failed"]
     \/ FlakyDisk /\ place' = [place EXCEPT ![j] = "cur"]
  /\ UNCHANGED <<mtime, avail, result, resultAt, markedAt, clock>>

\* complete, first half: the result file is replaced into done/.
WriteResult(j, v) ==
  /\ place[j] = "cur"
  /\ result' = [result EXCEPT ![j] = v]
  /\ resultAt' = [resultAt EXCEPT ![j] = clock]
  /\ UNCHANGED <<place, mtime, avail, markedAt, clock>>

\* Mutant: the sweep uses the redelivery window as its retention.
ExpiredEarly(at) == at # Absent /\ at < clock - RetryWindow

\* The archived files _prune_archive finds older than the retention window.
Expired(at) == at # Absent /\ at < clock - Retention

\* Mutant: the move looks for <id>.json, misses the keyed file, and only logs.
ArchiveBareName(j) ==
  place[j] = "cur" /\ UNCHANGED queueVars

\* The files of a sweep that are gone afterwards: an unlink that fails is skipped.
Swept(gone, old) == gone \subseteq old /\ (FlakyDisk \/ gone = old)

\* complete, second half: the job file joins its result in done/, then
\* _prune_archive unlinks every archived file older than the window, each by
\* its own modification time, the job just archived included.
Archive(j) ==
  /\ place[j] = "cur"
  /\ \E jobs, results, markers \in SUBSET Jobs :
       /\ Swept(jobs, {k \in Jobs : (place[k] = "done" \/ k = j) /\ Expired(mtime[k])})
       /\ Swept(results, {k \in Jobs : Expired(resultAt[k])})
       /\ Swept(markers, {k \in Jobs : Expired(markedAt[k])})
       /\ place' = [k \in Jobs |-> IF k \in jobs THEN "pruned"
                                   ELSE IF k = j THEN "done" ELSE place[k]]
       /\ result' = [k \in Jobs |-> IF k \in results THEN "none" ELSE result[k]]
       /\ resultAt' = [k \in Jobs |-> IF k \in results THEN Absent ELSE resultAt[k]]
       /\ markedAt' = [k \in Jobs |-> IF k \in markers THEN Absent ELSE markedAt[k]]
  /\ UNCHANGED <<mtime, avail, clock>>

\* mark_delivered: an OSError is logged and the marker stays missing.
MarkDelivered(j) ==
  /\ \/ markedAt' = [markedAt EXCEPT ![j] = clock]
     \/ FlakyDisk /\ UNCHANGED markedAt
  /\ UNCHANGED <<place, mtime, avail, result, resultAt, clock>>

\* Mutant: the job file is not asked for, so a result whose job is back in the
\* queue counts as owed.
UndeliveredAnywhere ==
  {j \in Jobs : resultAt[j] # Absent /\ markedAt[j] = Absent}

\* Mutant: nothing is ever redelivered.
UndeliveredNever == {}

\* undelivered: archived results inside the window with no marker, as long as
\* _load_delivery still finds the job file that holds the origin.
Undelivered ==
  {j \in Jobs : /\ resultAt[j] # Absent
                /\ markedAt[j] = Absent
                /\ resultAt[j] >= clock - RetryWindow
                /\ place[j] = "done"}

\* Mutant: nothing is recovered.
RecoverNothing == UNCHANGED queueVars

\* recover_stale(None): every file of cur/ goes back to new/; a rename that
\* fails leaves its file where it is.
RecoverStale ==
  /\ LET stale == {j \in Jobs : place[j] = "cur"}
     IN \E moved \in SUBSET stale :
          /\ FlakyDisk \/ moved = stale
          /\ place' = [j \in Jobs |-> IF j \in moved THEN "new" ELSE place[j]]
  /\ UNCHANGED <<mtime, avail, result, resultAt, markedAt, clock>>

\* Time passes; the unit is the granularity of the two windows.
Tick ==
  /\ clock < MaxClock
  /\ clock' = clock + 1
  /\ UNCHANGED <<place, mtime, avail, result, resultAt, markedAt>>
=============================================================================
