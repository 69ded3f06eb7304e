-------------------------- MODULE JobsWorkerProofs --------------------------
(***************************************************************************)
(* Safety of the job worker for every set of jobs, every concurrency and   *)
(* every combination of faults.  One inductive invariant carries all of    *)
(* it: where a job's task is says which directory its file is in.          *)
(***************************************************************************)
EXTENDS JobsWorker, SequenceTheorems, TLAPS

\* A task on its way through runner.run holds a claimed file; one that
\* delivers holds an archived one.
TaskMatchesFile ==
  \A j \in Jobs :
    /\ task[j] \in {"run", "wrote", "notice"} => place[j] = "cur"
    /\ task[j] \in {"deliver", "posted", "alert", "redeliver", "reposted"} => Finished(j)
    /\ phase = "down" => task[j] = "none"

\* Only a finished job is owed a reply, was posted or is marked.
ReplyMatchesFile ==
  \A j \in Jobs :
    /\ j \in pending => Finished(j)
    /\ posted[j] # <<>> => Finished(j)
    /\ task[j] \in {"posted", "reposted"} => posted[j] # <<>>
    /\ markedAt[j] # Absent => posted[j] # <<>>

\* What a life still allows: a file in new/ was not run in it, a reply that is
\* still to be posted was not posted in it.
LifeAllows ==
  /\ phase # "down" => life >= 1
  /\ phase # "redelivering" => pending = {}
  /\ \A j \in Jobs :
       /\ place[j] = "nowhere" => runs[j] = 0
       /\ place[j] = "new" /\ phase # "down" => runs[j] < life
       /\ task[j] = "deliver" => posted[j] = <<>>
       /\ task[j] = "redeliver" => j \in pending
       /\ task[j] \notin {"none", "redeliver", "reposted"} => phase \in {"looping", "stopping"}
       /\ j \in pending /\ task[j] # "reposted" => Len(posted[j]) < life

\* The verdict in hand, the one on file and the one promised are the same, and
\* a reply waiting for redelivery still has its result file.
VerdictMatchesFile ==
  /\ \A j \in Jobs :
       /\ Finished(j) => verdict[j] \in Verdicts
       /\ ~Finished(j) => verdict[j] = "none"
       /\ Finished(j) /\ resultAt[j] # Absent => result[j] = verdict[j]
       /\ j \in pending => resultAt[j] # Absent
       /\ task[j] = "redeliver" => j \in pending
       /\ task[j] = "wrote" => result[j] \in Verdicts
       /\ task[j] \notin {"none", "redeliver", "reposted"} => phase \in {"looping", "stopping"}
  /\ phase # "redelivering" => pending = {}
  /\ \A j, k \in Jobs : task[j] = "wrote" /\ task[k] = "wrote" => j = k

IInv == TypeOK /\ TaskMatchesFile /\ ReplyMatchesFile

-----------------------------------------------------------------------------
LEMMA Appended ==
  ASSUME NEW S, NEW s \in Seq(S), NEW e \in S
  PROVE  Append(s, e) \in Seq(S) /\ Append(s, e) # <<>> /\ Len(Append(s, e)) = Len(s) + 1
  BY AppendProperties

LEMMA ReplyAppended ==
  ASSUME TypeOK, NEW j \in Jobs, NEW v \in Outcomes
  PROVE  Append(posted[j], v) \in Seq(Outcomes) /\ Append(posted[j], v) # <<>>
  <1>1. posted[j] \in Seq(Outcomes)
    BY DEF TypeOK
  <1>2. QED
    BY <1>1, Appended

LEMMA MarkTyped ==
  ASSUME QueueTypeOK, NEW j \in Jobs, MarkDelivered(j)
  PROVE  QueueTypeOK'
  <1>1. CASE UNCHANGED markedAt
    BY <1>1 DEF MarkDelivered, QueueTypeOK
  <1>2. CASE markedAt' = [markedAt EXCEPT ![j] = clock]
    BY <1>2 DEF MarkDelivered, QueueTypeOK
  <1>3. QED
    BY <1>1, <1>2 DEF MarkDelivered

LEMMA ArchiveTyped ==
  ASSUME QueueTypeOK, NEW j \in Jobs, Archive(j)
  PROVE  QueueTypeOK'
  <1>1. QED
    BY DEF Archive, QueueTypeOK, Places, Outcomes

LEMMA TypeInit == Init => TypeOK
  BY DEF Init, QueueInit, TypeOK, QueueTypeOK, Places, Phases,
     TaskStates, Outcomes, Absent

LEMMA TypeStep == TypeOK /\ [Next]_vars => TypeOK'
  <1> SUFFICES ASSUME TypeOK, [Next]_vars PROVE TypeOK'
    OBVIOUS
  <1> USE QueueAssumption DEF QueueAssumption, TypeOK, QueueTypeOK, queueVars,
          workerVars, Places, Phases, TaskStates, Absent
  <1>1. ASSUME Produce PROVE TypeOK'
    <2>1. PICK i \in Jobs, d \in 0..MaxDelay : Enqueue(i, d)
      BY <1>1 DEF Produce
    <2>2. d \in Nat /\ clock + d \in Nat
      OBVIOUS
    <2>3. QED
      BY <1>1, <2>1, <2>2 DEF Produce, Enqueue
  <1>2. ASSUME TimePasses PROVE TypeOK'
    BY <1>2 DEF TimePasses, Tick
  <1>3. ASSUME Start PROVE TypeOK'
    BY <1>3 DEF Start, RecoverStale, Undelivered
  <1>4. ASSUME Stop PROVE TypeOK'
    BY <1>4 DEF Stop
  <1>5. ASSUME Exit PROVE TypeOK'
    BY <1>5 DEF Exit, Idle
  <1>6. ASSUME Kill PROVE TypeOK'
    BY <1>6 DEF Kill
  <1>7. ASSUME EnterLoop PROVE TypeOK'
    BY <1>7 DEF EnterLoop, Idle
  <1>8. ASSUME NEW j \in Jobs, NoticeDone(j) PROVE TypeOK'
    BY <1>8 DEF NoticeDone, Become
  <1>9. ASSUME NEW j \in Jobs, BeginRedelivery(j) PROVE TypeOK'
    BY <1>9 DEF BeginRedelivery, Idle, Become
  <1>10. ASSUME NEW j \in Jobs, Repost(j) PROVE TypeOK'
    <2>1. result[j] \in Outcomes
      OBVIOUS
    <2>2. Append(posted[j], result[j]) \in Seq(Outcomes) /\ Append(posted[j], result[j]) # <<>>
      BY <2>1, ReplyAppended
    <2>3. QED
      BY <1>10, <2>2 DEF Repost, Become
  <1>11. ASSUME NEW j \in Jobs, RepostReturns(j) PROVE TypeOK'
    <2>1. QueueTypeOK'
      BY <1>11, MarkTyped DEF RepostReturns
    <2>2. QED
      BY <1>11, <2>1 DEF RepostReturns, Become, Afterwards
  <1>12. ASSUME NEW j \in Jobs, RepostRaises(j) PROVE TypeOK'
    BY <1>12 DEF RepostRaises, Become
  <1>13. ASSUME NEW j \in Jobs, BeginRun(j) PROVE TypeOK'
    BY <1>13 DEF BeginRun, Slot, LoopFree, Claim, NextDue, Due, SurelyDue, Become
  <1>14. ASSUME NEW j \in Jobs, SkipPoison(j) PROVE TypeOK'
    BY <1>14 DEF SkipPoison, Slot, ClaimPoison, NextDue, Due, SurelyDue
  <1>15. ASSUME NEW j \in Jobs, NEW v \in Verdicts, FinishRun(j, v) PROVE TypeOK'
    BY <1>15 DEF FinishRun, LoopFree, WriteResult, Become, Outcomes
  <1>16. ASSUME NEW j \in Jobs, RunRaises(j) PROVE TypeOK'
    BY <1>16 DEF RunRaises, Become
  <1>23. ASSUME NEW j \in Jobs, ArchiveRaises(j) PROVE TypeOK'
    BY <1>23 DEF ArchiveRaises, Become
  <1>17. ASSUME NEW j \in Jobs, ArchiveJob(j) PROVE TypeOK'
    <2>1. QueueTypeOK'
      BY <1>17, ArchiveTyped DEF ArchiveJob
    <2>2. QED
      BY <1>17, <2>1 DEF ArchiveJob, Become, Afterwards
  <1>18. ASSUME NEW j \in Jobs, Post(j) PROVE TypeOK'
    <2>1. verdict[j] \in Outcomes
      OBVIOUS
    <2>2. Append(posted[j], verdict[j]) \in Seq(Outcomes) /\ Append(posted[j], verdict[j]) # <<>>
      BY <2>1, ReplyAppended
    <2>3. QED
      BY <1>18, <2>2 DEF Post, Become
  <1>19. ASSUME NEW j \in Jobs, PostReturns(j) PROVE TypeOK'
    <2>1. QueueTypeOK'
      BY <1>19, MarkTyped DEF PostReturns
    <2>2. QED
      BY <1>19, <2>1 DEF PostReturns, Become, Afterwards
  <1>20. ASSUME NEW j \in Jobs, PostRaises(j) PROVE TypeOK'
    BY <1>20 DEF PostRaises, Afterwards, Become
  <1>21. ASSUME NEW j \in Jobs, AlertDone(j) PROVE TypeOK'
    BY <1>21 DEF AlertDone, Become
  <1>22. CASE UNCHANGED vars
    BY <1>22 DEF vars, workerVars
  <1> QED
    BY <1>1, <1>2, <1>3, <1>4, <1>5, <1>6, <1>7, <1>8, <1>9, <1>10, <1>11, <1>12, <1>13,
       <1>14, <1>15, <1>16, <1>17, <1>18, <1>19, <1>20, <1>21, <1>22, <1>23 DEF Next, Step

\* Every variable keeps its type, whatever the constants.
THEOREM TypeCorrect == Spec => []TypeOK
  <1>1. QED
    BY TypeInit, TypeStep, PTL DEF Spec

-----------------------------------------------------------------------------
LEMMA IInvInit == Init => IInv
  BY TypeInit DEF Init, QueueInit, IInv, TaskMatchesFile, ReplyMatchesFile, Absent

LEMMA IInvStep == IInv /\ [Next]_vars => IInv'
  <1> SUFFICES ASSUME IInv, [Next]_vars PROVE TaskMatchesFile' /\ ReplyMatchesFile'
    BY TypeStep DEF IInv
  <1> USE DEF IInv, TaskMatchesFile, ReplyMatchesFile, Finished, TypeOK, QueueTypeOK,
          queueVars, workerVars, Places, Phases, TaskStates
  <1>1. ASSUME Produce PROVE TaskMatchesFile' /\ ReplyMatchesFile'
    BY <1>1 DEF Produce, Enqueue
  <1>2. ASSUME TimePasses PROVE TaskMatchesFile' /\ ReplyMatchesFile'
    BY <1>2 DEF TimePasses, Tick
  <1>3. ASSUME Start PROVE TaskMatchesFile' /\ ReplyMatchesFile'
    <2>1. pending' = Undelivered /\ UNCHANGED <<task, posted, markedAt>>
      BY <1>3 DEF Start, RecoverStale
    <2>2. \A j \in Jobs : place[j] # "cur" => place'[j] = place[j]
      BY <1>3 DEF Start, RecoverStale
    <2>3. \A j \in Jobs : task[j] = "none"
      BY <1>3 DEF Start
    <2>4. QED
      BY <2>1, <2>2, <2>3 DEF Undelivered
  <1>4. ASSUME Stop PROVE TaskMatchesFile' /\ ReplyMatchesFile'
    BY <1>4 DEF Stop
  <1>5. ASSUME Exit PROVE TaskMatchesFile' /\ ReplyMatchesFile'
    BY <1>5 DEF Exit, Idle
  <1>6. ASSUME Kill PROVE TaskMatchesFile' /\ ReplyMatchesFile'
    BY <1>6 DEF Kill
  <1>7. ASSUME EnterLoop PROVE TaskMatchesFile' /\ ReplyMatchesFile'
    BY <1>7 DEF EnterLoop, Idle
  <1>8. ASSUME NEW j \in Jobs, NoticeDone(j) PROVE TaskMatchesFile' /\ ReplyMatchesFile'
    BY <1>8 DEF NoticeDone, Become
  <1>9. ASSUME NEW j \in Jobs, BeginRedelivery(j) PROVE TaskMatchesFile' /\ ReplyMatchesFile'
    BY <1>9 DEF BeginRedelivery, Idle, Become
  <1>10. ASSUME NEW j \in Jobs, Repost(j) PROVE TaskMatchesFile' /\ ReplyMatchesFile'
    <2>1. result[j] \in Outcomes
      OBVIOUS
    <2>2. Append(posted[j], result[j]) \in Seq(Outcomes) /\ Append(posted[j], result[j]) # <<>>
      BY <2>1, ReplyAppended
    <2>3. QED
      BY <1>10, <2>2 DEF Repost, Become
  <1>11. ASSUME NEW j \in Jobs, RepostReturns(j) PROVE TaskMatchesFile' /\ ReplyMatchesFile'
    BY <1>11 DEF RepostReturns, MarkDelivered, Become
  <1>12. ASSUME NEW j \in Jobs, RepostRaises(j) PROVE TaskMatchesFile' /\ ReplyMatchesFile'
    BY <1>12 DEF RepostRaises, Become
  <1>13. ASSUME NEW j \in Jobs, BeginRun(j) PROVE TaskMatchesFile' /\ ReplyMatchesFile'
    BY <1>13 DEF BeginRun, Slot, LoopFree, Claim, NextDue, Due, SurelyDue, Become
  <1>14. ASSUME NEW j \in Jobs, SkipPoison(j) PROVE TaskMatchesFile' /\ ReplyMatchesFile'
    BY <1>14 DEF SkipPoison, Slot, ClaimPoison, NextDue, Due, SurelyDue
  <1>15. ASSUME NEW j \in Jobs, NEW v \in Verdicts, FinishRun(j, v) PROVE
     TaskMatchesFile' /\ ReplyMatchesFile'
    BY <1>15 DEF FinishRun, LoopFree, WriteResult, Become
  <1>16. ASSUME NEW j \in Jobs, RunRaises(j) PROVE TaskMatchesFile' /\ ReplyMatchesFile'
    BY <1>16 DEF RunRaises, Become
  <1>23. ASSUME NEW j \in Jobs, ArchiveRaises(j) PROVE TaskMatchesFile' /\ ReplyMatchesFile'
    BY <1>23 DEF ArchiveRaises, Become
  <1>17. ASSUME NEW j \in Jobs, ArchiveJob(j) PROVE TaskMatchesFile' /\ ReplyMatchesFile'
    BY <1>17 DEF ArchiveJob, Archive, Swept, Become
  <1>18. ASSUME NEW j \in Jobs, Post(j) PROVE TaskMatchesFile' /\ ReplyMatchesFile'
    <2>1. verdict[j] \in Outcomes
      OBVIOUS
    <2>2. Append(posted[j], verdict[j]) \in Seq(Outcomes) /\ Append(posted[j], verdict[j]) # <<>>
      BY <2>1, ReplyAppended
    <2>3. QED
      BY <1>18, <2>2 DEF Post, Become
  <1>19. ASSUME NEW j \in Jobs, PostReturns(j) PROVE TaskMatchesFile' /\ ReplyMatchesFile'
    BY <1>19 DEF PostReturns, MarkDelivered, Afterwards, Become
  <1>20. ASSUME NEW j \in Jobs, PostRaises(j) PROVE TaskMatchesFile' /\ ReplyMatchesFile'
    BY <1>20 DEF PostRaises, Afterwards, Become
  <1>21. ASSUME NEW j \in Jobs, AlertDone(j) PROVE TaskMatchesFile' /\ ReplyMatchesFile'
    BY <1>21 DEF AlertDone, Become
  <1>22. CASE UNCHANGED vars
    BY <1>22 DEF vars, workerVars
  <1> QED
    BY <1>1, <1>2, <1>3, <1>4, <1>5, <1>6, <1>7, <1>8, <1>9, <1>10, <1>11, <1>12, <1>13,
       <1>14, <1>15, <1>16, <1>17, <1>18, <1>19, <1>20, <1>21, <1>22, <1>23 DEF Next, Step

LEMMA InvariantHolds == Spec => []IInv
  <1>1. QED
    BY IInvInit, IInvStep, PTL DEF Spec

\* A marker is only ever found beside a reply that went out.
THEOREM MarkedIsPosted == Spec => []MarkedWasPosted
  <1>1. IInv => MarkedWasPosted
    BY DEF IInv, ReplyMatchesFile, MarkedWasPosted
  <1>2. QED
    BY <1>1, InvariantHolds, PTL

\* Once a reply went out, its job is never started again: the file of a posted
\* job is archived, and only a file in new/ is claimed.
THEOREM AnsweredIsFinal == Spec => AnsweredNeverReruns
  <1>1. ASSUME IInv, [Next]_vars, NEW i \in Jobs, posted[i] # <<>>
        PROVE  runs'[i] = runs[i]
    <2>1. place[i] # "new"
      BY <1>1 DEF IInv, ReplyMatchesFile, Finished
    <2>2. CASE \E j \in Jobs : BeginRun(j)
      BY <2>1, <2>2 DEF BeginRun, Claim, NextDue, Due, SurelyDue, IInv, TypeOK
    <2>3. CASE ~(\E j \in Jobs : BeginRun(j))
      BY <1>1, <2>3 DEF Next, Step, vars, workerVars, Produce, TimePasses, Start, Stop,
         Exit, Kill, EnterLoop, NoticeDone, BeginRedelivery, Repost, RepostReturns,
         RepostRaises, SkipPoison, FinishRun, RunRaises, ArchiveRaises, ArchiveJob,
            Post, PostReturns,
         PostRaises, AlertDone
    <2>4. QED
      BY <2>2, <2>3
  <1>2. IInv /\ [Next]_vars => [\A j \in Jobs : posted[j] # <<>> => runs'[j] = runs[j]]_vars
    BY <1>1
  <1>3. QED
    BY <1>2, InvariantHolds, PTL DEF Spec, AnsweredNeverReruns

-----------------------------------------------------------------------------
LInv == IInv /\ LifeAllows /\ OncePerLife

LEMMA LInvInit == Init => LInv
  BY IInvInit DEF Init, QueueInit, LInv, LifeAllows, OncePerLife

LEMMA LInvStep == LInv /\ [Next]_vars => LInv'
  <1> SUFFICES ASSUME LInv, [Next]_vars PROVE LifeAllows' /\ OncePerLife'
    BY IInvStep DEF LInv
  <1> USE DEF LInv, LifeAllows, OncePerLife, IInv, TaskMatchesFile, ReplyMatchesFile, Finished,
          TypeOK, QueueTypeOK, queueVars, workerVars, Places, Phases, TaskStates
  <1>1. ASSUME Produce PROVE LifeAllows' /\ OncePerLife'
    BY <1>1 DEF Produce, Enqueue
  <1>2. ASSUME TimePasses PROVE LifeAllows' /\ OncePerLife'
    BY <1>2 DEF TimePasses, Tick
  <1>3. ASSUME Start PROVE LifeAllows' /\ OncePerLife'
    BY <1>3 DEF Start, RecoverStale, Undelivered
  <1>4. ASSUME Stop PROVE LifeAllows' /\ OncePerLife'
    BY <1>4 DEF Stop
  <1>5. ASSUME Exit PROVE LifeAllows' /\ OncePerLife'
    BY <1>5 DEF Exit, Idle
  <1>6. ASSUME Kill PROVE LifeAllows' /\ OncePerLife'
    BY <1>6 DEF Kill
  <1>7. ASSUME EnterLoop PROVE LifeAllows' /\ OncePerLife'
    BY <1>7 DEF EnterLoop, Idle
  <1>8. ASSUME NEW j \in Jobs, NoticeDone(j) PROVE LifeAllows' /\ OncePerLife'
    BY <1>8 DEF NoticeDone, Become
  <1>9. ASSUME NEW j \in Jobs, BeginRedelivery(j) PROVE LifeAllows' /\ OncePerLife'
    BY <1>9 DEF BeginRedelivery, Idle, Become
  <1>10. ASSUME NEW j \in Jobs, Repost(j) PROVE LifeAllows' /\ OncePerLife'
    <2>1. j \in pending /\ Len(posted[j]) < life /\ phase = "redelivering"
      BY <1>10 DEF Repost
    <2>2. result[j] \in Outcomes /\ posted[j] \in Seq(Outcomes)
      OBVIOUS
    <2>3. Len(Append(posted[j], result[j])) = Len(posted[j]) + 1
      BY <2>2, Appended
    <2>4. posted' = [posted EXCEPT ![j] = Append(posted[j], result[j])]
      BY <1>10 DEF Repost
    <2>5. \A k \in Jobs : Len(posted'[k]) = IF k = j THEN Len(posted[j]) + 1 ELSE Len(posted[k])
      BY <2>3, <2>4
    <2>6. \A k \in Jobs : k # j => posted'[k] = posted[k]
      BY <2>4
    <2>7. \A k \in Jobs : task'[k] = IF k = j THEN "reposted" ELSE task[k]
      BY <1>10 DEF Repost, Become
    <2>8. UNCHANGED <<place, phase, pending, life, runs>>
      BY <1>10 DEF Repost
    <2>9. Len(posted[j]) \in Nat /\ life \in Nat
      BY <2>2
    <2>10. LifeAllows'
      BY <2>1, <2>5, <2>6, <2>7, <2>8
    <2>11. OncePerLife'
      BY <2>1, <2>5, <2>8, <2>9
    <2>12. QED
      BY <2>10, <2>11
  <1>11. ASSUME NEW j \in Jobs, RepostReturns(j) PROVE LifeAllows' /\ OncePerLife'
    BY <1>11 DEF RepostReturns, MarkDelivered, Become
  <1>12. ASSUME NEW j \in Jobs, RepostRaises(j) PROVE LifeAllows' /\ OncePerLife'
    BY <1>12 DEF RepostRaises, Become
  <1>13. ASSUME NEW j \in Jobs, BeginRun(j) PROVE LifeAllows' /\ OncePerLife'
    BY <1>13 DEF BeginRun, Slot, LoopFree, Claim, NextDue, Due, SurelyDue, Become
  <1>14. ASSUME NEW j \in Jobs, SkipPoison(j) PROVE LifeAllows' /\ OncePerLife'
    BY <1>14 DEF SkipPoison, Slot, ClaimPoison, NextDue, Due, SurelyDue
  <1>15. ASSUME NEW j \in Jobs, NEW v \in Verdicts, FinishRun(j, v) PROVE LifeAllows' /\
     OncePerLife'
    BY <1>15 DEF FinishRun, LoopFree, WriteResult, Become
  <1>16. ASSUME NEW j \in Jobs, RunRaises(j) PROVE LifeAllows' /\ OncePerLife'
    BY <1>16 DEF RunRaises, Become
  <1>23. ASSUME NEW j \in Jobs, ArchiveRaises(j) PROVE LifeAllows' /\ OncePerLife'
    BY <1>23 DEF ArchiveRaises, Become
  <1>17. ASSUME NEW j \in Jobs, ArchiveJob(j) PROVE LifeAllows' /\ OncePerLife'
    <2>1. place[j] = "cur" /\ posted[j] = <<>> /\ phase \in {"looping", "stopping"}
      BY <1>17 DEF ArchiveJob, Archive
    <2>2. \A k \in Jobs : place'[k] \in {"done", "pruned", place[k]}
      BY <1>17 DEF ArchiveJob, Archive, Swept
    <2>3. \A k \in Jobs : task'[k] = IF k = j THEN "deliver" ELSE task[k]
      BY <1>17 DEF ArchiveJob, Become
    <2>4. UNCHANGED <<phase, pending, life, runs, posted>>
      BY <1>17 DEF ArchiveJob
    <2>5. \A k \in Jobs : task[k] = "redeliver" => task'[k] = task[k] /\ k # j
      BY <1>17, <2>3 DEF ArchiveJob
    <2>6. LifeAllows'
      BY <2>1, <2>2, <2>3, <2>4, <2>5
    <2>7. OncePerLife'
      BY <2>4
    <2>8. QED
      BY <2>6, <2>7
  <1>18. ASSUME NEW j \in Jobs, Post(j) PROVE LifeAllows' /\ OncePerLife'
    <2>1. posted[j] = <<>> /\ life >= 1
      BY <1>18 DEF Post
    <2>2. verdict[j] \in Outcomes
      OBVIOUS
    <2>3. Append(<<>>, verdict[j]) = <<verdict[j]>> /\ Len(<<verdict[j]>>) = 1
      OBVIOUS
    <2>4. posted' = [posted EXCEPT ![j] = <<verdict[j]>>]
      BY <1>18, <2>1, <2>3 DEF Post
    <2>5. \A k \in Jobs : Len(posted'[k]) = IF k = j THEN 1 ELSE Len(posted[k])
      BY <2>3, <2>4
    <2>6. \A k \in Jobs : k # j => posted'[k] = posted[k]
      BY <2>4
    <2>7. \A k \in Jobs : task'[k] = IF k = j THEN "posted" ELSE task[k]
      BY <1>18 DEF Post, Become
    <2>8. UNCHANGED <<place, phase, pending, life, runs>>
      BY <1>18 DEF Post
    <2>9. j \notin pending
      BY <1>18 DEF Post
    <2>10. LifeAllows'
      BY <2>5, <2>6, <2>7, <2>8, <2>9, <1>18 DEF Post
    <2>11. OncePerLife'
      BY <2>1, <2>5, <2>6, <2>8
    <2>12. QED
      BY <2>10, <2>11
  <1>19. ASSUME NEW j \in Jobs, PostReturns(j) PROVE LifeAllows' /\ OncePerLife'
    BY <1>19 DEF PostReturns, MarkDelivered, Afterwards, Become
  <1>20. ASSUME NEW j \in Jobs, PostRaises(j) PROVE LifeAllows' /\ OncePerLife'
    BY <1>20 DEF PostRaises, Afterwards, Become
  <1>21. ASSUME NEW j \in Jobs, AlertDone(j) PROVE LifeAllows' /\ OncePerLife'
    BY <1>21 DEF AlertDone, Become
  <1>22. CASE UNCHANGED vars
    BY <1>22 DEF vars, workerVars
  <1> QED
    BY <1>1, <1>2, <1>3, <1>4, <1>5, <1>6, <1>7, <1>8, <1>9, <1>10, <1>11, <1>12, <1>13,
       <1>14, <1>15, <1>16, <1>17, <1>18, <1>19, <1>20, <1>21, <1>22, <1>23 DEF Next, Step

\* One worker life runs a job at most once and posts its reply at most once.
THEOREM OnceEachLife == Spec => []OncePerLife
  <1>1. LInv => OncePerLife
    BY DEF LInv
  <1>2. QED
    BY <1>1, LInvInit, LInvStep, PTL DEF Spec

-----------------------------------------------------------------------------
VInv == IInv /\ VerdictMatchesFile

LEMMA VInvInit == Init => VInv
  BY IInvInit DEF Init, QueueInit, VInv, VerdictMatchesFile, Finished, Absent

LEMMA VInvStep == VInv /\ [Next]_vars => VInv'
  <1> SUFFICES ASSUME VInv, [Next]_vars PROVE VerdictMatchesFile'
    BY IInvStep DEF VInv
  <1> USE DEF VInv, VerdictMatchesFile, IInv, TaskMatchesFile, Finished,
          TypeOK, QueueTypeOK, queueVars, workerVars, Places, Phases, TaskStates, Verdicts
  <1>1. ASSUME Produce PROVE VerdictMatchesFile'
    BY <1>1 DEF Produce, Enqueue
  <1>2. ASSUME TimePasses PROVE VerdictMatchesFile'
    BY <1>2 DEF TimePasses, Tick
  <1>3. ASSUME Start PROVE VerdictMatchesFile'
    BY <1>3 DEF Start, RecoverStale, Undelivered
  <1>4. ASSUME Stop PROVE VerdictMatchesFile'
    BY <1>4 DEF Stop
  <1>5. ASSUME Exit PROVE VerdictMatchesFile'
    BY <1>5 DEF Exit, Idle
  <1>6. ASSUME Kill PROVE VerdictMatchesFile'
    BY <1>6 DEF Kill
  <1>7. ASSUME EnterLoop PROVE VerdictMatchesFile'
    BY <1>7 DEF EnterLoop, Idle
  <1>8. ASSUME NEW j \in Jobs, NoticeDone(j) PROVE VerdictMatchesFile'
    BY <1>8 DEF NoticeDone, Become
  <1>9. ASSUME NEW j \in Jobs, BeginRedelivery(j) PROVE VerdictMatchesFile'
    BY <1>9 DEF BeginRedelivery, Idle, Become
  <1>10. ASSUME NEW j \in Jobs, Repost(j) PROVE VerdictMatchesFile'
    BY <1>10 DEF Repost, Become
  <1>11. ASSUME NEW j \in Jobs, RepostReturns(j) PROVE VerdictMatchesFile'
    BY <1>11 DEF RepostReturns, MarkDelivered, Become
  <1>12. ASSUME NEW j \in Jobs, RepostRaises(j) PROVE VerdictMatchesFile'
    BY <1>12 DEF RepostRaises, Become
  <1>13. ASSUME NEW j \in Jobs, BeginRun(j) PROVE VerdictMatchesFile'
    BY <1>13 DEF BeginRun, Slot, LoopFree, Claim, NextDue, Due, SurelyDue, Become
  <1>14. ASSUME NEW j \in Jobs, SkipPoison(j) PROVE VerdictMatchesFile'
    BY <1>14 DEF SkipPoison, Slot, ClaimPoison, NextDue, Due, SurelyDue
  <1>15. ASSUME NEW j \in Jobs, NEW v \in Verdicts, FinishRun(j, v) PROVE VerdictMatchesFile'
    BY <1>15 DEF FinishRun, LoopFree, WriteResult, Become
  <1>16. ASSUME NEW j \in Jobs, RunRaises(j) PROVE VerdictMatchesFile'
    BY <1>16 DEF RunRaises, Become
  <1>23. ASSUME NEW j \in Jobs, ArchiveRaises(j) PROVE VerdictMatchesFile'
    BY <1>23 DEF ArchiveRaises, Become
  <1>17. ASSUME NEW j \in Jobs, ArchiveJob(j) PROVE VerdictMatchesFile'
    <2>1. place[j] = "cur" /\ result[j] \in Verdicts /\ pending = {}
      BY <1>17 DEF ArchiveJob, Archive
    <2>2. \A k \in Jobs : task'[k] = IF k = j THEN "deliver" ELSE task[k]
      BY <1>17 DEF ArchiveJob, Become
    <2>3. \A k \in Jobs : k # j => task'[k] # "wrote"
      BY <1>17, <2>2 DEF ArchiveJob
    <2>4. \A k \in Jobs : Finished(k)' <=> Finished(k) \/ k = j
      BY <1>17 DEF ArchiveJob, Archive, Swept
    <2>5. \A k \in Jobs : verdict'[k] = IF k = j THEN result[j] ELSE verdict[k]
      BY <1>17 DEF ArchiveJob
    <2>6. \A k \in Jobs : resultAt'[k] # Absent => result'[k] = result[k] /\ resultAt[k] # Absent
      BY <1>17 DEF ArchiveJob, Archive, Swept
    <2>7. UNCHANGED <<phase, pending>>
      BY <1>17 DEF ArchiveJob
    <2>8. ASSUME NEW k \in Jobs
          PROVE  /\ Finished(k)' => verdict'[k] \in Verdicts
                 /\ ~Finished(k)' => verdict'[k] = "none"
                 /\ Finished(k)' /\ resultAt'[k] # Absent => result'[k] = verdict'[k]
      <3>1. CASE k = j
        BY <2>1, <2>4, <2>5, <2>6, <3>1
      <3>2. CASE k # j
        BY <2>4, <2>5, <2>6, <3>2
      <3>3. QED
        BY <3>1, <3>2
    <2>9. QED
      BY <2>1, <2>2, <2>3, <2>7, <2>8, <1>17 DEF ArchiveJob
  <1>18. ASSUME NEW j \in Jobs, Post(j) PROVE VerdictMatchesFile'
    BY <1>18 DEF Post, Become
  <1>19. ASSUME NEW j \in Jobs, PostReturns(j) PROVE VerdictMatchesFile'
    BY <1>19 DEF PostReturns, MarkDelivered, Afterwards, Become
  <1>20. ASSUME NEW j \in Jobs, PostRaises(j) PROVE VerdictMatchesFile'
    BY <1>20 DEF PostRaises, Afterwards, Become
  <1>21. ASSUME NEW j \in Jobs, AlertDone(j) PROVE VerdictMatchesFile'
    BY <1>21 DEF AlertDone, Become
  <1>22. CASE UNCHANGED vars
    BY <1>22 DEF vars, workerVars
  <1> QED
    BY <1>1, <1>2, <1>3, <1>4, <1>5, <1>6, <1>7, <1>8, <1>9, <1>10, <1>11, <1>12, <1>13,
       <1>14, <1>15, <1>16, <1>17, <1>18, <1>19, <1>20, <1>21, <1>22, <1>23 DEF Next, Step
LEMMA PromiseInit == Init => Promise!Init
  BY DEF Init, QueueInit, Promise!Init, Standing, StatusOf

LEMMA PromiseStep == VInv /\ [Next]_vars => [Promise!Next]_(Promise!vars)
  <1> SUFFICES ASSUME VInv, [Next]_vars PROVE [Promise!Next]_(Promise!vars)
    OBVIOUS
  <1> USE DEF VInv, VerdictMatchesFile, IInv, TaskMatchesFile, Finished, TypeOK,
          QueueTypeOK, Places, TaskStates, Standing, StatusOf
  <1>1. ASSUME Produce PROVE Promise!Next
    <2>1. PICK j \in Jobs : /\ place[j] = "nowhere"
                            /\ place' = [place EXCEPT ![j] = "new"]
      BY <1>1 DEF Produce, Enqueue
    <2>2. Promise!Accept(j)
      BY <1>1, <2>1 DEF Promise!Accept, Produce, workerVars
    <2>3. QED
      BY <2>2 DEF Promise!Next
  <1>2. ASSUME Start PROVE Promise!Next
    <2>1. PICK S \in SUBSET {j \in Jobs : place[j] = "cur"} :
            place' = [j \in Jobs |-> IF j \in S THEN "new" ELSE place[j]]
      BY <1>2 DEF Start, RecoverStale
    <2>2. Promise!Requeue(S)
      BY <1>2, <2>1 DEF Promise!Requeue, Start
    <2>3. S \in SUBSET Jobs
      BY <2>1
    <2>4. QED
      BY <2>2, <2>3 DEF Promise!Next
  <1>3. ASSUME NEW j \in Jobs, BeginRun(j) PROVE Promise!Next
    <2>1. Promise!Begin(j)
      BY <1>3 DEF Promise!Begin, BeginRun, Claim, NextDue, Due, SurelyDue
    <2>2. QED
      BY <2>1 DEF Promise!Next
  <1>4. ASSUME NEW j \in Jobs, SkipPoison(j) PROVE Promise!Next
    <2>1. place[j] = "new"
      BY <1>4 DEF SkipPoison, ClaimPoison, NextDue, Due, SurelyDue
    <2>2. CASE place' = [place EXCEPT ![j] = "failed"]
      <3>1. Promise!Reject(j)
        BY <1>4, <2>1, <2>2 DEF Promise!Reject, SkipPoison, workerVars
      <3>2. QED
        BY <3>1 DEF Promise!Next
    <2>3. CASE place' = [place EXCEPT ![j] = "cur"]
      <3>1. Promise!Begin(j)
        BY <1>4, <2>1, <2>3 DEF Promise!Begin, SkipPoison, workerVars
      <3>2. QED
        BY <3>1 DEF Promise!Next
    <2>4. QED
      BY <1>4, <2>2, <2>3 DEF SkipPoison, ClaimPoison
  <1>5. ASSUME NEW j \in Jobs, ArchiveJob(j) PROVE Promise!Next
    <2>1. place[j] = "cur" /\ result[j] \in Verdicts
      BY <1>5 DEF ArchiveJob, Archive
    <2>2. \A k \in Jobs : /\ k # j => place'[k] = place[k]
                                      \/ (place[k] = "done" /\ place'[k] = "pruned")
                          /\ place'[j] \in {"done", "pruned"}
      BY <1>5 DEF ArchiveJob, Archive, Swept
    <2>3. Standing' = [Standing EXCEPT ![j] = "finished"]
      BY <2>1, <2>2
    <2>4. PICK v \in Verdicts : v = result[j]
      BY <2>1
    <2>5. Promise!Finish(j, v)
      BY <1>5, <2>1, <2>3, <2>4 DEF Promise!Finish, ArchiveJob
    <2>6. QED
      BY <2>5 DEF Promise!Next
  <1>6. ASSUME NEW j \in Jobs, Post(j) PROVE Promise!Next
    <2>1. Promise!Reply(j)
      BY <1>6 DEF Promise!Reply, Post, queueVars
    <2>2. QED
      BY <2>1 DEF Promise!Next
  <1>7. ASSUME NEW j \in Jobs, Repost(j) PROVE Promise!Next
    <2>1. result[j] = verdict[j] /\ Finished(j)
      BY <1>7 DEF Repost
    <2>2. Promise!Reply(j)
      BY <1>7, <2>1 DEF Promise!Reply, Repost, queueVars
    <2>3. QED
      BY <2>2 DEF Promise!Next
  <1>8. CASE UNCHANGED <<place, verdict, posted>>
    BY <1>8 DEF Promise!vars
  <1>9. QED
    BY <1>1, <1>2, <1>3, <1>4, <1>5, <1>6, <1>7, <1>8
    DEF Next, Step, vars, queueVars, workerVars, TimePasses, Tick, Stop, Exit, Kill,
        EnterLoop, NoticeDone, BeginRedelivery, RepostReturns, RepostRaises, FinishRun,
        WriteResult, RunRaises, ArchiveRaises, PostReturns, PostRaises, AlertDone, MarkDelivered

\* The worker and its file queue implement the promise: a job finishes once, with
\* one verdict, and every reply that ever goes out carries it.
THEOREM WorkerKeepsPromise == Spec => KeepsPromise
  <1>1. QED
    BY VInvInit, VInvStep, PromiseInit, PromiseStep, PTL DEF Spec, KeepsPromise, Promise!Spec

-----------------------------------------------------------------------------
\* The sweep takes a job file only once it is older than the retention window,
\* and a swept file never gets younger: the clock only advances.
SweptIsOld == \A j \in Jobs : place[j] = "pruned" => mtime[j] < clock - Retention

LEMMA SweptInit == Init => SweptIsOld
  BY DEF Init, QueueInit, SweptIsOld

LEMMA SweptStep == TypeOK /\ SweptIsOld /\ [Next]_vars => SweptIsOld'
  <1> SUFFICES ASSUME TypeOK, SweptIsOld, [Next]_vars, NEW k \in Jobs, place'[k] = "pruned"
               PROVE  mtime'[k] < clock' - Retention
    BY DEF SweptIsOld
  <1>0. /\ mtime[k] \in Nat /\ clock \in Nat /\ Retention \in Nat
        /\ place[k] = "pruned" => mtime[k] < clock - Retention
    BY QueueAssumption DEF TypeOK, QueueTypeOK, SweptIsOld
  <1>1. ASSUME NEW j \in Jobs, NEW d \in 0..MaxDelay, Enqueue(j, d)
        PROVE  mtime'[k] < clock' - Retention
    <2>1. k # j /\ place[k] = "pruned"
      BY <1>1 DEF Enqueue, TypeOK, QueueTypeOK
    <2>2. mtime'[k] = mtime[k] /\ clock' = clock
      BY <1>1, <2>1 DEF Enqueue, TypeOK, QueueTypeOK
    <2>3. QED
      BY <1>0, <2>1, <2>2
  <1>2. CASE Tick
    <2>1. place[k] = "pruned" /\ mtime'[k] = mtime[k] /\ clock' = clock + 1
      BY <1>2 DEF Tick
    <2>2. QED
      BY <1>0, <2>1
  <1>3. ASSUME NEW j \in Jobs, Archive(j)
        PROVE  mtime'[k] < clock' - Retention
    <2>1. mtime' = mtime /\ clock' = clock
      BY <1>3 DEF Archive
    <2>2. place[k] = "pruned" \/ Expired(mtime[k])
      BY <1>3 DEF Archive, Swept
    <2>3. QED
      BY <1>0, <2>1, <2>2 DEF Expired
  <1>4. ASSUME mtime' = mtime, clock' = clock, place[k] = "pruned"
        PROVE  mtime'[k] < clock' - Retention
    BY <1>0, <1>4
  <1>5. CASE RecoverStale
    BY <1>4, <1>5 DEF RecoverStale, TypeOK, QueueTypeOK
  <1>6. ASSUME NEW j \in Jobs, Claim(j) \/ ClaimPoison(j)
        PROVE  mtime'[k] < clock' - Retention
    BY <1>4, <1>6 DEF Claim, ClaimPoison, TypeOK, QueueTypeOK
  <1>7. CASE UNCHANGED <<place, mtime, clock>>
    BY <1>4, <1>7
  <1>8. QED
    BY <1>1, <1>2, <1>3, <1>5, <1>6, <1>7
    DEF Next, Step, vars, queueVars, Produce, TimePasses, Start, Stop, Exit, Kill,
        EnterLoop, NoticeDone, BeginRedelivery, Repost, RepostReturns, RepostRaises,
        BeginRun, SkipPoison, FinishRun, WriteResult, RunRaises, ArchiveRaises,
        ArchiveJob, Post, PostReturns, PostRaises, AlertDone, MarkDelivered

\* A job that finished within Retention - RetryWindow of its enqueueing keeps the
\* file with its origin for as long as its reply may still be redelivered.
THEOREM PromptReplyIsKept == Spec => []PromptReplyKeepsItsOrigin
  <1>1. TypeOK /\ SweptIsOld => PromptReplyKeepsItsOrigin
    <2> SUFFICES ASSUME TypeOK, SweptIsOld, NEW j \in Jobs, Owed(j), place[j] = "pruned",
                        resultAt[j] - mtime[j] <= Retention - RetryWindow
                 PROVE  FALSE
      BY DEF PromptReplyKeepsItsOrigin
    <2>1. /\ mtime[j] \in Nat /\ clock \in Nat /\ resultAt[j] \in Int
          /\ Retention \in Nat /\ RetryWindow \in Nat
      BY QueueAssumption DEF TypeOK, QueueTypeOK, Absent
    <2>2. mtime[j] < clock - Retention /\ resultAt[j] >= clock - RetryWindow
      BY DEF SweptIsOld, Owed
    <2>3. QED
      BY <2>1, <2>2
  <1>2. QED
    BY <1>1, TypeCorrect, SweptInit, SweptStep, PTL DEF Spec

=============================================================================
