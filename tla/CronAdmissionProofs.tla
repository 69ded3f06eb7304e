------------------------- MODULE CronAdmissionProofs -------------------------
(***************************************************************************)
(* The gates of _admit for every set of items and fingerprints, every cap  *)
(* and limit and any number of kills: one job of an item at a time, no     *)
(* fire past max_fires, none while a backoff runs, each up to the races    *)
(* that are named.  Unraced says what the key-state file is worth then:    *)
(* it holds the fires and the wait of the item as it last was.             *)
(***************************************************************************)
EXTENDS CronAdmission, FiniteSetTheorems, TLAPS

\* The types the gates depend on.  The counts of a poll are sums over all items.
Typed ==
  /\ world \in [Keys -> Prints \union {Gone}]
  /\ waiting \in [Keys -> Nat] /\ held \in [Keys -> Nat] /\ running \in [Keys -> Nat]
  /\ \A k \in Keys : running[k] <= held[k] /\ (phase # "up" => running[k] = 0)
  /\ record \in [Keys -> Records]
  /\ DOMAIN items \subseteq Keys /\ \A k \in DOMAIN items : items[k] \in Prints
  /\ pc \in {"counting", "gate", "admit", "fired", "recording"} => item \in DOMAIN items
  /\ pc = "counting" => seen \in Nat
  /\ mine \in Records
  /\ outcome = Nobody \/ outcome \in [key : Keys, ok : BOOLEAN, copy : Records \union {Nobody}]
  /\ streak \in [Keys -> [print : Prints \union {Gone}, fires : Nat]]
  /\ failed \in [Keys -> Waits]

\* Between the globs, and until the job is in new/, only the daemon adds a job of the item.
Counted ==
  \/ "torn" \in races
  \/ /\ OneJobPerItem
     /\ pc = "counting" /\ seen = 0 => waiting[item] = 0
     /\ pc \in {"gate", "admit"} => Unfinished(item) = 0

Recording(k) == pc \in {"fired", "recording"} /\ item = k

\* The copies that wait to be written back are still what the file says, and the file says
\* what happened to the item: of the fire being recorded, what it will say.
CopiesCurrent ==
  /\ outcome # Nobody => ~Recording(outcome.key)
  /\ outcome # Nobody /\ outcome.copy # Nobody => outcome.copy = record[outcome.key]
  /\ pc = "recording" => mine = record[item]

FileTells ==
  /\ \A k \in Keys : failed[k] = record[k].wait
  /\ \A k \in Keys : ~Recording(k) =>
       streak[k].print = record[k].print /\ streak[k].fires = record[k].fires
  /\ \A k \in Keys : Recording(k) =>
       /\ streak[k].print = items[k]
       /\ streak[k].fires = Fired(record[k], items[k]).fires
  /\ pc = "admit" => ~HeldBack(record[item], items[item])

Unraced == races \subseteq {"torn"} => CopiesCurrent /\ FileTells /\ ParkedAtMaxFires

IInv == Typed /\ Counted /\ Unraced
-----------------------------------------------------------------------------
LEMMA SaturatedTyped == ASSUME NEW n \in Nat PROVE Saturated(n + 1) \in Nat \ {0}
  BY AdmissionAssumption DEF Saturated

LEMMA FiredTyped ==
  ASSUME NEW r \in Records, NEW p \in Prints
  PROVE  Fired(r, p) \in Records
  BY SaturatedTyped DEF Fired, Records, Waits

LEMMA AgedTyped ==
  ASSUME NEW r \in Records
  PROVE  /\ Aged(r) \in Records /\ Aged(r).print = r.print /\ Aged(r).fires = r.fires
         /\ Aged(r).wait = IF r.wait = "waiting" THEN "over" ELSE r.wait
  BY DEF Aged, Records, Waits

LEMMA CopyIsNotNobody == \A r \in Records : r # Nobody
  <1> SUFFICES ASSUME NEW r \in Records, r = Nobody PROVE FALSE
    OBVIOUS
  <1>1. DOMAIN r = {"print", "fires", "wait"} /\ DOMAIN Nobody = {"key"}
    BY DEF Records, Nobody
  <1>2. QED
    BY <1>1

\* NextItem leaves a shorter list of items and a blank copy.
LEMMA NextItemTyped ==
  ASSUME Typed, NextItem
  PROVE  /\ DOMAIN items' \subseteq Keys /\ \A k \in DOMAIN items' : items'[k] \in Prints
         /\ mine' \in Records /\ pc' = "items"
  <1>1. DOMAIN items' = DOMAIN items \ {item}
    BY DEF NextItem, Without
  <1>2. \A k \in DOMAIN items' : items'[k] = items[k]
    BY <1>1 DEF NextItem, Without
  <1>3. Fresh \in Records
    BY DEF Fresh, Records, Waits, Gone
  <1>4. QED
    BY <1>1, <1>2, <1>3 DEF NextItem, Typed

\* Admit counts a fire of the item as it is, or the first of a moved one.
LEMMA AdmitCounts ==
  ASSUME Typed, Admit
  PROVE  /\ item \in Keys /\ items[item] \in Prints
         /\ streak' \in [Keys -> [print : Prints \union {Gone}, fires : Nat]]
         /\ streak'[item].print = items[item]
         /\ streak'[item].fires =
              IF streak[item].print = items[item] THEN Saturated(streak[item].fires + 1) ELSE 1
         /\ \A k \in Keys : k # item => streak'[k] = streak[k]
  <1>1. item \in Keys /\ items[item] \in Prints
    BY DEF Admit, Typed
  <1>2. streak[item] \in [print : Prints \union {Gone}, fires : Nat]
    BY <1>1 DEF Typed
  <1>3. Saturated(streak[item].fires + 1) \in Nat
    BY <1>2, SaturatedTyped
  <1>4. streak' = [streak EXCEPT ![item] =
                     [print |-> items[item],
                      fires |-> IF streak[item].print = items[item]
                                THEN Saturated(streak[item].fires + 1) ELSE 1]]
    BY DEF Admit
  <1>5. QED
    BY <1>1, <1>2, <1>3, <1>4 DEF Typed
-----------------------------------------------------------------------------
LEMMA TypedInit == Init => Typed
  BY DEF Init, Typed, Records, Fresh, Waits, Gone, Nobody

LEMMA TypedStep == Typed /\ [Next]_vars => Typed'
  <1> SUFFICES ASSUME Typed, [Next]_vars PROVE Typed'
    OBVIOUS
  <1> USE AdmissionAssumption DEF Typed, daemonVars, workerVars, historyVars
  <1>1. ASSUME NEW k \in Keys, Change(k) PROVE Typed'
    BY <1>1 DEF Change
  <1>2. ASSUME NEW k \in Keys, Elapse(k) PROVE Typed'
    <2>1. record' \in [Keys -> Records] /\ mine' \in Records
      BY <1>2, AgedTyped DEF Elapse
    <2>2. failed' \in [Keys -> Waits]
      BY <1>2 DEF Elapse, Waits
    <2>3. \/ outcome' = Nobody
          \/ outcome' \in [key : Keys, ok : BOOLEAN, copy : Records \union {Nobody}]
      <3>1. CASE outcome' = outcome
        BY <3>1
      <3>2. CASE outcome.key = k /\ outcome.copy # Nobody
        <4>1. outcome \in [key : Keys, ok : BOOLEAN, copy : Records \union {Nobody}]
          BY <3>2 DEF Nobody
        <4>2. outcome' = [outcome EXCEPT !.copy = Aged(outcome.copy)] /\ outcome.copy \in Records
          BY <1>2, <3>2, <4>1 DEF Elapse
        <4>3. QED
          BY <4>1, <4>2, AgedTyped
      <3>3. QED
        BY <1>2, <3>1, <3>2 DEF Elapse
    <2>4. QED
      BY <1>2, <2>1, <2>2, <2>3 DEF Elapse
  <1>3. CASE Poll
    <2>1. DOMAIN items' \subseteq Keys /\ \A k \in DOMAIN items' : items'[k] \in Prints
      BY <1>3 DEF Poll
    <2>2. QED
      BY <1>3, <2>1 DEF Poll
  <1>4. CASE CountEntry
    BY <1>4 DEF CountEntry
  <1>5. ASSUME NEW k \in Keys, TakeItem(k) PROVE Typed'
    BY <1>5 DEF TakeItem
  <1>6. CASE CountItem
    BY <1>6, NextItemTyped DEF CountItem
  <1>7. CASE Gate
    BY <1>7, NextItemTyped DEF Gate
  <1>8. CASE CannotRender
    BY <1>8, NextItemTyped DEF CannotRender
  <1>9. CASE Admit
    <2>1. item \in Keys /\ items[item] \in Prints
      BY <1>9 DEF Admit
    <2>2. waiting' \in [Keys -> Nat]
      BY <1>9, <2>1 DEF Admit
    <2>3. QED
      BY <1>9, <2>2, AdmitCounts DEF Admit
  <1>10. CASE LoadForFire
    BY <1>10 DEF LoadForFire
  <1>11. CASE SaveFire
    <2>1. Fired(mine, items[item]) \in Records
      BY <1>11, FiredTyped DEF SaveFire
    <2>2. record' \in [Keys -> Records] /\ failed' \in [Keys -> Waits]
      BY <1>11, <2>1 DEF SaveFire, Waits
    <2>3. QED
      BY <1>11, <2>2, NextItemTyped DEF SaveFire
  <1>12. CASE PollEnds
    BY <1>12 DEF PollEnds
  <1>13. CASE KillDaemon
    BY <1>13 DEF KillDaemon, Fresh, Records, Waits, Gone
  <1>14. CASE StartWorker \/ EnterLoop
    BY <1>14 DEF StartWorker, EnterLoop
  <1>15. ASSUME NEW k \in Keys, Recover(k) PROVE Typed'
    BY <1>15 DEF Recover
  <1>16. ASSUME NEW k \in Keys, Claim(k) PROVE Typed'
    BY <1>16 DEF Claim
  <1>17. ASSUME NEW k \in Keys, RunRaises(k) PROVE Typed'
    BY <1>17 DEF RunRaises
  <1>18. ASSUME NEW k \in Keys, NEW ok \in BOOLEAN, Complete(k, ok) PROVE Typed'
    BY <1>18 DEF Complete
  <1>19. CASE LoadForOutcome
    BY <1>19 DEF LoadForOutcome
  <1>20. CASE SaveOutcome
    <2>1. outcome.key \in Keys /\ outcome.copy \in Records
      BY <1>20 DEF SaveOutcome
    <2>2. record' \in [Keys -> Records] /\ failed' \in [Keys -> Waits]
      BY <1>20, <2>1 DEF SaveOutcome, Records, Waits
    <2>3. QED
      BY <1>20, <2>2 DEF SaveOutcome
  <1>21. CASE KillWorker
    BY <1>21 DEF KillWorker
  <1>22. CASE UNCHANGED vars
    BY <1>22 DEF vars
  <1> HIDE DEF Typed
  <1>23. QED
    BY <1>1, <1>2, <1>3, <1>4, <1>5, <1>6, <1>7, <1>8, <1>9, <1>10, <1>11, <1>12, <1>13, <1>14,
       <1>15, <1>16, <1>17, <1>18, <1>19, <1>20, <1>21, <1>22
       DEF Next, DaemonStep, WorkerStep, RecordStep
-----------------------------------------------------------------------------
LEMMA CountedInit == Init => Counted
  BY DEF Init, Counted, OneJobPerItem, Unfinished

\* Steps that leave the directories and the daemon's counting as they are.
LEMMA CountedKept ==
  ASSUME Typed, Counted, races \subseteq races', UNCHANGED <<waiting, held>>,
         \/ pc' \notin {"counting", "gate", "admit"}
         \/ UNCHANGED <<pc, item, seen>>
         \/ pc = "gate" /\ pc' = "admit" /\ item' = item
  PROVE  Counted'
  BY DEF Typed, Counted, OneJobPerItem, Unfinished

LEMMA CountedStep == Typed /\ Counted /\ [Next]_vars => Counted'
  <1> SUFFICES ASSUME Typed, Counted, [Next]_vars PROVE Counted'
    OBVIOUS
  <1> USE DEF daemonVars, workerVars, historyVars
  <1>1. ASSUME NEW k \in Keys, Change(k) \/ Elapse(k) \/ RunRaises(k) PROVE Counted'
    BY <1>1, CountedKept DEF Change, Elapse, RunRaises
  <1>2. CASE Poll \/ CountEntry \/ Gate \/ CannotRender \/ LoadForFire \/ SaveFire \/ PollEnds
    BY <1>2, CountedKept DEF Poll, CountEntry, Gate, CannotRender, LoadForFire, SaveFire,
       PollEnds, NextItem
  <1>3. CASE KillDaemon \/ StartWorker \/ EnterLoop \/ LoadForOutcome \/ SaveOutcome \/ KillWorker
    BY <1>3, CountedKept DEF KillDaemon, StartWorker, EnterLoop, LoadForOutcome, SaveOutcome,
       KillWorker
  <1>4. ASSUME NEW k \in Keys, TakeItem(k) PROVE Counted'
    BY <1>4 DEF TakeItem, Counted, OneJobPerItem, Unfinished
  <1>5. CASE CountItem
    <2>1. CASE NextItem
      BY <1>5, <2>1, CountedKept DEF CountItem, NextItem
    <2>2. CASE ~(seen + held[item] > 0) /\ pc' = "gate" /\ item' = item
      <3>0. item \in Keys /\ seen \in Nat /\ held[item] \in Nat
        BY <1>5 DEF CountItem, Typed
      <3>1. seen = 0 /\ held[item] = 0
        BY <2>2, <3>0
      <3>2. QED
        BY <1>5, <2>2, <3>1 DEF CountItem, Counted, OneJobPerItem, Unfinished, Typed
    <2>3. QED
      BY <1>5, <2>1, <2>2 DEF CountItem
  <1>6. CASE Admit
    <2>1. item \in Keys
      BY <1>6 DEF Admit, Typed
    <2>2. CASE "torn" \in races
      BY <1>6, <2>2 DEF Admit, Counted
    <2>3. CASE OneJobPerItem /\ Unfinished(item) = 0
      <3>1. \A k \in Keys : Unfinished(k)' <= 1
        BY <1>6, <2>1, <2>3 DEF Admit, OneJobPerItem, Unfinished, Typed
      <3>2. QED
        BY <1>6, <3>1 DEF Admit, Counted, OneJobPerItem
    <2>4. QED
      BY <1>6, <2>2, <2>3 DEF Admit, Counted
  <1>7. ASSUME NEW k \in Keys, Recover(k) PROVE Counted'
    <2>1. CASE "torn" \in races'
      BY <2>1 DEF Counted
    <2>2. CASE "torn" \notin races'
      <3>1. "torn" \notin races /\ ~(pc = "counting" /\ item = k) /\ UNCHANGED <<pc, item, seen>>
        BY <1>7, <2>2 DEF Recover
      <3>2. \A i \in Keys : Unfinished(i)' = Unfinished(i) /\ (i # k => waiting'[i] = waiting[i])
        BY <1>7 DEF Recover, Unfinished, Typed
      <3>3. pc \in {"counting", "gate", "admit"} => item \in Keys
        BY DEF Typed
      <3>4. /\ \A i \in Keys : Unfinished(i)' <= 1
            /\ pc' = "counting" /\ seen' = 0 => waiting'[item'] = 0
            /\ pc' \in {"gate", "admit"} => Unfinished(item)' = 0
        BY <3>1, <3>2, <3>3 DEF Counted, OneJobPerItem
      <3>5. QED
        BY <3>1, <3>4 DEF Counted, OneJobPerItem, Unfinished
    <2>3. QED
      BY <2>1, <2>2
  <1>8. ASSUME NEW k \in Keys, Claim(k) PROVE Counted'
    <2>1. races' = races /\ UNCHANGED <<pc, item, seen>>
      BY <1>8 DEF Claim
    <2>2. \A i \in Keys : Unfinished(i)' = Unfinished(i) /\ (waiting[i] = 0 => waiting'[i] = 0)
      <3>1. waiting[k] \in Nat /\ waiting[k] > 0 /\ held[k] \in Nat
        BY <1>8 DEF Claim, Typed
      <3>2. /\ waiting'[k] = waiting[k] - 1 /\ held'[k] = held[k] + 1
            /\ \A i \in Keys : i # k => waiting'[i] = waiting[i] /\ held'[i] = held[i]
        BY <1>8 DEF Claim, Typed
      <3>3. QED
        BY <3>1, <3>2 DEF Unfinished
    <2>3. pc \in {"counting", "gate", "admit"} => item \in Keys
      BY DEF Typed
    <2>4. QED
      BY <2>1, <2>2, <2>3 DEF Counted, OneJobPerItem, Unfinished
  <1>9. ASSUME NEW k \in Keys, NEW ok \in BOOLEAN, Complete(k, ok) PROVE Counted'
    <2>1. races \subseteq races' /\ UNCHANGED <<pc, item, seen, waiting>>
      BY <1>9 DEF Complete
    <2>2. \A i \in Keys : held'[i] <= held[i] /\ held'[i] \in Nat
      BY <1>9 DEF Complete, Typed
    <2>3. pc \in {"counting", "gate", "admit"} => item \in Keys
      BY DEF Typed
    <2>4. QED
      BY <2>1, <2>2, <2>3 DEF Counted, OneJobPerItem, Unfinished, Typed
  <1>10. CASE UNCHANGED vars
    BY <1>10, CountedKept DEF vars
  <1>11. QED
    BY <1>1, <1>2, <1>3, <1>4, <1>5, <1>6, <1>7, <1>8, <1>9, <1>10
       DEF Next, DaemonStep, WorkerStep, RecordStep
-----------------------------------------------------------------------------
LEMMA FiredTells ==
  ASSUME NEW r \in Records, NEW p \in Prints
  PROVE  /\ Fired(r, p).print = p
         /\ Fired(r, p).fires = IF r.print = p THEN Saturated(r.fires + 1) ELSE 1
         /\ Fired(r, p).wait = IF r.print = p THEN r.wait ELSE "none"
  BY DEF Fired, Records

\* A recorded fire counts up from what the file said before, so aging changes no count.
LEMMA FiredAged ==
  ASSUME NEW r \in Records, NEW p \in Prints
  PROVE  Fired(Aged(r), p).fires = Fired(r, p).fires /\ (HeldBack(Aged(r), p) => HeldBack(r, p))
  BY AgedTyped, FiredTells DEF HeldBack

LEMMA UnracedInit == Init => Unraced
  BY AdmissionAssumption DEF Init, Unraced, CopiesCurrent, FileTells, ParkedAtMaxFires, Recording,
     Fresh, Nobody

\* Steps that write neither file nor copy and keep the daemon outside the stretch from the
\* gate to the recorded fire, or where it is.
LEMMA UnracedKept ==
  ASSUME Typed, Unraced, UNCHANGED <<record, streak, failed>>,
         races \subseteq races' /\ (outcome' = outcome \/ outcome' = Nobody),
         \/ pc \notin {"fired", "recording"} /\ pc' \notin {"admit", "fired", "recording"}
         \/ UNCHANGED <<pc, item, items, mine>>
  PROVE  Unraced'
  BY DEF Unraced, CopiesCurrent, FileTells, ParkedAtMaxFires, Recording

LEMMA UnracedStep == Typed /\ Unraced /\ [Next]_vars => Unraced'
  <1> SUFFICES ASSUME Typed, Unraced, [Next]_vars, races' \subseteq {"torn"}
               PROVE  CopiesCurrent' /\ FileTells' /\ ParkedAtMaxFires'
    BY DEF Unraced
  <1> USE DEF daemonVars, workerVars, historyVars
  <1>1. ASSUME NEW k \in Keys, Change(k) \/ RunRaises(k) \/ Recover(k) \/ Claim(k) PROVE Unraced'
    BY <1>1, UnracedKept DEF Change, RunRaises, Recover, Claim
  <1>2. CASE Poll \/ CountEntry \/ CannotRender \/ PollEnds \/ CountItem
    BY <1>2, UnracedKept DEF Poll, CountEntry, CannotRender, PollEnds, CountItem, NextItem,
       Unraced
  <1>3. ASSUME NEW k \in Keys, TakeItem(k) PROVE Unraced'
    BY <1>3, UnracedKept DEF TakeItem
  <1>4. CASE StartWorker \/ EnterLoop \/ KillWorker
    BY <1>4, UnracedKept DEF StartWorker, EnterLoop, KillWorker, Unraced
  <1>5. CASE KillDaemon
    <2>1. pc \notin {"fired", "recording"} \/ "unrecorded" \in races'
      BY <1>5 DEF KillDaemon
    <2>2. QED
      BY <1>5, <2>1, UnracedKept DEF KillDaemon, Unraced
  <1>6. CASE UNCHANGED vars
    BY <1>6, UnracedKept DEF vars, Unraced
  <1>a. races \subseteq {"torn"} => CopiesCurrent /\ FileTells /\ ParkedAtMaxFires
    BY DEF Unraced
  <1>7. ASSUME NEW k \in Keys, Elapse(k)
        PROVE  CopiesCurrent' /\ FileTells' /\ ParkedAtMaxFires'
    <2>1. /\ UNCHANGED <<pc, item, items, streak, races>>
          /\ record'[k] = Aged(record[k]) /\ \A i \in Keys : i # k => record'[i] = record[i]
          /\ mine' = (IF item = k THEN Aged(mine) ELSE mine)
          /\ failed'[k] = (IF failed[k] = "waiting" THEN "over" ELSE failed[k])
          /\ \A i \in Keys : i # k => failed'[i] = failed[i]
      BY <1>7 DEF Elapse, Typed
    <2>2. /\ outcome # Nobody => outcome' # Nobody /\ outcome'.key = outcome.key
          /\ outcome = Nobody => outcome' = Nobody
          /\ outcome # Nobody /\ outcome'.copy # Nobody =>
               /\ outcome.copy # Nobody
               /\ outcome'.copy = IF outcome.key = k THEN Aged(outcome.copy) ELSE outcome.copy
      <3>1. CASE outcome = Nobody
        BY <1>7, <3>1, AdmissionAssumption DEF Elapse, Nobody
      <3>2. CASE outcome # Nobody
        <4>1. outcome \in [key : Keys, ok : BOOLEAN, copy : Records \union {Nobody}]
          BY <3>2 DEF Typed
        <4>2. CASE outcome.key = k /\ outcome.copy # Nobody
          <5>1. outcome' = [outcome EXCEPT !.copy = Aged(outcome.copy)]
            BY <1>7, <4>2 DEF Elapse
          <5>2. outcome'.key = outcome.key /\ outcome'.copy = Aged(outcome.copy)
            BY <4>1, <5>1
          <5>3. outcome' # Nobody
            BY <4>1, <5>2, AdmissionAssumption DEF Nobody
          <5>4. QED
            BY <3>2, <4>2, <5>2, <5>3
        <4>3. CASE ~(outcome.key = k /\ outcome.copy # Nobody)
          BY <1>7, <3>2, <4>3 DEF Elapse
        <4>4. QED
          BY <4>2, <4>3
      <3>3. QED
        BY <3>1, <3>2
    <2>3. CopiesCurrent /\ FileTells /\ ParkedAtMaxFires
      BY <1>a, <2>1
    <2>4. ParkedAtMaxFires'
      BY <2>1, <2>3 DEF ParkedAtMaxFires
    <2>5. pc \in {"admit", "fired", "recording"} => item \in Keys /\ items[item] \in Prints
      BY DEF Typed
    <2>6. outcome # Nobody => outcome.key \in Keys
      BY DEF Typed
    <2>7. CopiesCurrent'
      BY <2>1, <2>2, <2>3, <2>5, <2>6 DEF CopiesCurrent, Recording
    <2>8. \A i \in Keys : record'[i].print = record[i].print /\ record'[i].fires = record[i].fires
      BY <2>1, AgedTyped DEF Typed
    <2>9. failed'[k] = record'[k].wait
      BY <2>1, <2>3, AgedTyped DEF Typed, FileTells
    <2>10. \A i \in Keys :
             Recording(i) => Fired(record'[i], items[i]).fires = Fired(record[i], items[i]).fires
      BY <2>1, <2>5, FiredAged DEF Typed, Recording
    <2>11. pc = "admit" => ~HeldBack(record'[item], items[item])
      BY <2>1, <2>3, <2>5, FiredAged DEF Typed, FileTells
    <2>12. QED
      BY <2>1, <2>3, <2>4, <2>7, <2>8, <2>9, <2>10, <2>11 DEF FileTells, Recording
  <1>8. CASE Gate
    <2>1. CASE NextItem
      BY <1>8, <2>1, UnracedKept DEF Gate, NextItem, Unraced
    <2>2. CASE /\ ~HeldBack(record[item], items[item]) /\ pc' = "admit"
               /\ UNCHANGED <<items, item, mine>>
      BY <1>8, <2>2, <1>a DEF Gate, CopiesCurrent, FileTells, ParkedAtMaxFires, Recording
    <2>3. QED
      BY <1>8, <2>1, <2>2 DEF Gate
  <1>9. CASE Admit
    <2>1. /\ races \subseteq {"torn"} /\ outcome.key # item /\ pc = "admit" /\ pc' = "fired"
          /\ UNCHANGED <<record, failed, item, items, mine, outcome>>
      BY <1>9 DEF Admit
    <2>2. CopiesCurrent /\ FileTells /\ ParkedAtMaxFires /\ ~HeldBack(record[item], items[item])
      BY <1>a, <2>1 DEF FileTells
    <2>3. item \in Keys /\ record[item] \in Records
      BY <1>9, AdmitCounts DEF Typed
    <2>4. CopiesCurrent'
      BY <2>1, <2>2 DEF CopiesCurrent, Recording
    <2>5. streak[item].print = record[item].print /\ streak[item].fires = record[item].fires
      BY <2>1, <2>2, <2>3 DEF FileTells, Recording
    <2>6. /\ streak'[item].print = items[item]
          /\ streak'[item].fires = Fired(record[item], items[item]).fires
      BY <1>9, <2>3, <2>5, AdmitCounts, FiredTells
    <2>7. FileTells'
      BY <1>9, <2>1, <2>2, <2>6, AdmitCounts DEF FileTells, Recording
    <2>8. MaxFires > 0 => streak'[item].fires <= MaxFires
      <3>1. CASE streak[item].print = items[item]
        <4>1. MaxFires > 0 => record[item].fires < MaxFires
          BY <2>2, <2>3, <2>5, <3>1, AdmissionAssumption DEF HeldBack, Records
        <4>2. streak'[item].fires = Saturated(record[item].fires + 1)
          BY <1>9, <2>5, <3>1, AdmitCounts
        <4>3. QED
          BY <2>3, <4>1, <4>2, AdmissionAssumption DEF Saturated, Records
      <3>2. CASE streak[item].print # items[item]
        BY <1>9, <3>2, AdmitCounts, AdmissionAssumption
      <3>3. QED
        BY <3>1, <3>2
    <2>9. ParkedAtMaxFires'
      BY <1>9, <2>2, <2>8, AdmitCounts DEF ParkedAtMaxFires
    <2>10. QED
      BY <2>4, <2>7, <2>9
  <1>10. CASE LoadForFire
    BY <1>10, <1>a DEF LoadForFire, CopiesCurrent, FileTells, ParkedAtMaxFires, Recording
  <1>11. CASE SaveFire
    <2>1. /\ pc = "recording" /\ pc' = "items" /\ UNCHANGED <<streak, races, outcome>>
          /\ item \in Keys /\ items[item] \in Prints
      BY <1>11 DEF SaveFire, NextItem, Typed
    <2>2. CopiesCurrent /\ FileTells /\ ParkedAtMaxFires /\ mine = record[item]
      BY <1>a, <2>1 DEF CopiesCurrent
    <2>3. /\ record'[item] = Fired(record[item], items[item])
          /\ failed'[item] = (IF record[item].print = items[item] THEN failed[item] ELSE "none")
          /\ \A k \in Keys : k # item => record'[k] = record[k] /\ failed'[k] = failed[k]
      BY <1>11, <2>1, <2>2 DEF SaveFire, Typed
    <2>4. record[item] \in Records
      BY <2>1 DEF Typed
    <2>5. /\ record'[item].print = streak[item].print /\ record'[item].fires = streak[item].fires
          /\ failed'[item] = record'[item].wait
      BY <2>1, <2>2, <2>3, <2>4, FiredTells DEF FileTells, Recording
    <2>6. FileTells'
      BY <2>1, <2>2, <2>3, <2>5 DEF FileTells, Recording
    <2>7. CopiesCurrent'
      BY <2>1, <2>2, <2>3 DEF CopiesCurrent, Recording, Typed
    <2>8. QED
      BY <2>1, <2>2, <2>6, <2>7 DEF ParkedAtMaxFires
  <1>12. ASSUME NEW k \in Keys, NEW ok \in BOOLEAN, Complete(k, ok)
         PROVE  CopiesCurrent' /\ FileTells' /\ ParkedAtMaxFires'
    <2>1. /\ races \subseteq {"torn"} /\ ~Recording(k)
          /\ outcome' = [key |-> k, ok |-> ok, copy |-> Nobody]
          /\ UNCHANGED <<record, failed, streak, pc, item, items, mine>>
      BY <1>12 DEF Complete, Recording
    <2>2. QED
      BY <1>a, <2>1 DEF CopiesCurrent, FileTells, ParkedAtMaxFires, Recording
  <1>13. CASE LoadForOutcome
    <2>1. /\ outcome # Nobody /\ outcome' = [outcome EXCEPT !.copy = record[outcome.key]]
          /\ UNCHANGED <<record, failed, streak, races, pc, item, items, mine>>
      BY <1>13 DEF LoadForOutcome
    <2>2. outcome \in [key : Keys, ok : BOOLEAN, copy : Records \union {Nobody}]
      BY <2>1 DEF Typed
    <2>3. outcome'.key = outcome.key /\ outcome'.copy = record[outcome.key]
      BY <2>1, <2>2
    <2>4. QED
      BY <1>a, <2>1, <2>3 DEF CopiesCurrent, FileTells, ParkedAtMaxFires, Recording
  <1>14. CASE SaveOutcome
    <2>0. PICK wait \in Waits :
            /\ record' = [record EXCEPT ![outcome.key] = [outcome.copy EXCEPT !.wait = wait]]
            /\ failed' = [failed EXCEPT ![outcome.key] = wait]
      BY <1>14 DEF SaveOutcome, Waits
    <2>1. /\ outcome # Nobody /\ outcome.copy # Nobody /\ outcome' = Nobody
          /\ UNCHANGED <<streak, pc, item, items, mine>>
          /\ races \subseteq {"torn"} /\ ~(pc = "admit" /\ item = outcome.key)
      BY <1>14 DEF SaveOutcome
    <2>2. outcome.key \in Keys /\ outcome.copy = record[outcome.key] /\ ~Recording(outcome.key)
      BY <1>a, <2>1 DEF CopiesCurrent, Typed
    <2>3. record[outcome.key] \in Records
      BY <2>2 DEF Typed
    <2>4. /\ record'[outcome.key].print = record[outcome.key].print
          /\ record'[outcome.key].fires = record[outcome.key].fires
          /\ record'[outcome.key].wait = wait /\ failed'[outcome.key] = wait
          /\ \A k \in Keys : k # outcome.key => record'[k] = record[k] /\ failed'[k] = failed[k]
      BY <2>0, <2>2, <2>3 DEF Typed, Records
    <2>5. pc = "admit" \/ pc = "recording" => item \in Keys /\ item # outcome.key
      BY <2>1, <2>2 DEF Recording, Typed
    <2>6. \A k \in Keys : Recording(k) => k # outcome.key
      BY <2>2
    <2>7. FileTells'
      BY <1>a, <2>1, <2>2, <2>4, <2>5, <2>6 DEF FileTells, Recording
    <2>8. QED
      BY <1>a, <2>1, <2>4, <2>5, <2>7 DEF CopiesCurrent, ParkedAtMaxFires
  <1>20. QED
    BY <1>1, <1>2, <1>3, <1>4, <1>5, <1>6, <1>7, <1>8, <1>9, <1>10, <1>11, <1>12, <1>13, <1>14
       DEF Next, DaemonStep, WorkerStep, RecordStep, Unraced

LEMMA IInvHolds == Spec => []IInv
  <1>1. Init => IInv
    BY TypedInit, CountedInit, UnracedInit DEF IInv
  <1>2. IInv /\ [Next]_vars => IInv'
    BY TypedStep, CountedStep, UnracedStep DEF IInv
  <1>3. QED
    BY <1>1, <1>2, PTL DEF Spec

\* count_unfinished: one item never has two jobs, but by a recovery between the globs.
THEOREM OneJobEach == Spec => []OneJobUnlessTorn
  <1>1. IInv => OneJobUnlessTorn
    BY DEF IInv, Counted, OneJobUnlessTorn
  <1>2. QED
    BY <1>1, IInvHolds, PTL

\* should_skip: an item that does not move is fired at most max_fires times, unless one of
\* the races with the record happened.
THEOREM ParkedInTime == Spec => []ParkedUnlessRaced
  <1>1. IInv => ParkedUnlessRaced
    BY DEF IInv, Unraced, ParkedUnlessRaced
  <1>2. QED
    BY <1>1, IInvHolds, PTL

\* should_skip: no fire of an item as it last failed while its wait runs, the same races
\* excepted.
THEOREM BacksOffInTime == Spec => BacksOffUnlessRaced
  <1>1. IInv /\ [Next]_vars => [BacksOff]_vars
    <2> SUFFICES ASSUME IInv, [Next]_vars, races' \subseteq {"torn"}, pc = "admit", pc' = "fired",
                        streak[item].print = items[item]
                 PROVE  failed[item] # "waiting"
      BY DEF BacksOff
    <2> USE DEF daemonVars, workerVars, historyVars
    <2>1. Admit
      BY DEF Next, DaemonStep, WorkerStep, RecordStep, Change, Elapse, RunRaises, Recover, Claim,
         Poll, CountEntry, TakeItem, CountItem, Gate, CannotRender, LoadForFire, SaveFire, PollEnds,
         NextItem, StartWorker, EnterLoop, KillDaemon, KillWorker, Complete, LoadForOutcome,
         SaveOutcome, vars
    <2>2. item \in Keys /\ races \subseteq {"torn"}
      BY <2>1, AdmitCounts DEF IInv, Admit
    <2>3. FileTells /\ ~Recording(item)
      BY <2>2 DEF IInv, Unraced, Recording
    <2>4. QED
      BY <2>2, <2>3 DEF FileTells, HeldBack
  <1>2. QED
    BY <1>1, IInvHolds, PTL DEF BacksOffUnlessRaced, Spec
-----------------------------------------------------------------------------
(* The cap, and the types of the counts, which are sizes of directories.   *)

Files(f) == UNION {{k} \X (1 .. f[k]) : k \in DOMAIN f}

Listable == IsFiniteSet(Files(waiting)) /\ IsFiniteSet(Files(held))

OnFile == Total(waiting) + Total(held)

\* What a poll counted bounds what there is until the poll ends: only the daemon adds jobs,
\* a claim moves one from what was counted first to what is counted next, and the local
\* count is short of at most the job whose fire is not recorded.
Reckoned ==
  \/ "torn" \in races
  \/ /\ OnFile <= MaxConcurrent
     /\ pc = "totalling" => Total(waiting) <= seen
     /\ pc \in {"items", "counting", "gate", "admit"} => OnFile <= outstanding
     /\ pc \in {"fired", "recording"} => OnFile <= outstanding + 1
     /\ pc \in {"gate", "admit"} => outstanding < MaxConcurrent

CInv == Typed /\ TypeOK /\ Listable /\ Reckoned

Grows(f, g, k) ==
  /\ f \in [Keys -> Nat] /\ g \in [Keys -> Nat] /\ k \in Keys
  /\ g = [f EXCEPT ![k] = f[k] + 1]

Shrinks(f, g, k) ==
  /\ f \in [Keys -> Nat] /\ g \in [Keys -> Nat] /\ k \in Keys
  /\ f[k] > 0 /\ g = [f EXCEPT ![k] = f[k] - 1]

LEMMA OneMoreFile ==
  ASSUME NEW f, NEW g, NEW k, Grows(f, g, k), IsFiniteSet(Files(f))
  PROVE  IsFiniteSet(Files(g)) /\ Total(g) = Total(f) + 1
  <1> USE DEF Grows
  <1>1. Files(g) = Files(f) \cup {<<k, f[k] + 1>>}
    <2>1. ASSUME NEW e \in Files(g) PROVE e \in Files(f) \cup {<<k, f[k] + 1>>}
      <3>1. PICK i \in Keys, n \in Nat : n \in 1 .. g[i] /\ e = <<i, n>>
        BY DEF Files
      <3>2. CASE i = k /\ n = f[k] + 1
        BY <3>1, <3>2
      <3>3. CASE ~(i = k /\ n = f[k] + 1)
        <4>1. n \in 1 .. f[i]
          BY <3>1, <3>3
        <4>2. QED
          BY <3>1, <4>1 DEF Files
      <3>4. QED
        BY <3>2, <3>3
    <2>2. ASSUME NEW e \in Files(f) PROVE e \in Files(g)
      <3>1. PICK i \in Keys, n \in Nat : n \in 1 .. f[i] /\ e = <<i, n>>
        BY DEF Files
      <3>2. n \in 1 .. g[i]
        BY <3>1
      <3>3. QED
        BY <3>1, <3>2 DEF Files
    <2>3. <<k, f[k] + 1>> \in Files(g)
      <3>1. f[k] + 1 \in 1 .. g[k]
        OBVIOUS
      <3>2. QED
        BY <3>1 DEF Files
    <2>4. QED
      BY <2>1, <2>2, <2>3
  <1>2. <<k, f[k] + 1>> \notin Files(f)
    <2>1. f[k] + 1 \notin 1 .. f[k]
      OBVIOUS
    <2>2. QED
      BY <2>1 DEF Files
  <1>3. Total(f) = Cardinality(Files(f)) /\ Total(g) = Cardinality(Files(g))
    BY DEF Total, Files
  <1>4. QED
    <2> DEFINE S == Files(f)
               x == <<k, f[k] + 1>>
    <2>1. IsFiniteSet(S)
      OBVIOUS
    <2> HIDE DEF S, x
    <2>2. /\ IsFiniteSet(S \cup {x})
          /\ Cardinality(S \cup {x}) = IF x \in S THEN Cardinality(S) ELSE Cardinality(S)+ 1
      BY <2>1, FS_AddElement
    <2>3. Files(g) = S \cup {x} /\ x \notin S /\ S = Files(f)
      BY <1>1, <1>2 DEF S, x
    <2>4. QED
      BY <1>3, <2>2, <2>3

LEMMA OneFileFewer ==
  ASSUME NEW f, NEW g, NEW k, Shrinks(f, g, k), IsFiniteSet(Files(f))
  PROVE  IsFiniteSet(Files(g)) /\ Total(g) = Total(f) - 1
  <1> USE DEF Shrinks
  <1>1. Files(g) = Files(f) \ {<<k, f[k]>>}
    <2>1. ASSUME NEW e \in Files(g) PROVE e \in Files(f) /\ e # <<k, f[k]>>
      <3>1. PICK i \in Keys, n \in Nat : n \in 1 .. g[i] /\ e = <<i, n>>
        BY DEF Files
      <3>2. n \in 1 .. f[i] /\ ~(i = k /\ n = f[k])
        BY <3>1
      <3>3. QED
        BY <3>1, <3>2 DEF Files
    <2>2. ASSUME NEW e \in Files(f), e # <<k, f[k]>> PROVE e \in Files(g)
      <3>1. PICK i \in Keys, n \in Nat : n \in 1 .. f[i] /\ e = <<i, n>>
        BY DEF Files
      <3>2. ~(i = k /\ n = f[k])
        BY <2>2, <3>1
      <3>3. n \in 1 .. g[i]
        BY <3>1, <3>2
      <3>4. QED
        BY <3>1, <3>3 DEF Files
    <2>3. QED
      BY <2>1, <2>2
  <1>2. <<k, f[k]>> \in Files(f)
    <2>1. f[k] \in 1 .. f[k]
      OBVIOUS
    <2>2. QED
      BY <2>1 DEF Files
  <1>3. Total(f) = Cardinality(Files(f)) /\ Total(g) = Cardinality(Files(g))
    BY DEF Total, Files
  <1>4. QED
    <2> DEFINE S == Files(f)
               x == <<k, f[k]>>
    <2>1. IsFiniteSet(S)
      OBVIOUS
    <2> HIDE DEF S, x
    <2>2. /\ IsFiniteSet(S \ {x})
          /\ Cardinality(S \ {x}) = IF x \in S THEN Cardinality(S) - 1 ELSE Cardinality(S)
      BY <2>1, FS_RemoveElement
    <2>3. Files(g) = S \ {x} /\ x \in S /\ S = Files(f)
      BY <1>1, <1>2 DEF S, x
    <2>4. QED
      BY <1>3, <2>2, <2>3

LEMMA TotalTyped == ASSUME Listable PROVE Total(waiting) \in Nat /\ Total(held) \in Nat
  BY FS_CardinalityType DEF Listable, Total, Files

\* The two invariants of a state and of the next in terms of the directories of each.
LEMMA ListableIs ==
  /\ Listable <=> IsFiniteSet(Files(waiting)) /\ IsFiniteSet(Files(held))
  /\ Listable' <=> IsFiniteSet(Files(waiting')) /\ IsFiniteSet(Files(held'))
  BY DEF Listable, Files

LEMMA ReckonedIs ==
  /\ Reckoned <=>
       \/ "torn" \in races
       \/ /\ Total(waiting) + Total(held) <= MaxConcurrent
          /\ pc = "totalling" => Total(waiting) <= seen
          /\ pc \in {"items", "counting", "gate", "admit"} =>
               Total(waiting) + Total(held) <= outstanding
          /\ pc \in {"fired", "recording"} => Total(waiting) + Total(held) <= outstanding + 1
          /\ pc \in {"gate", "admit"} => outstanding < MaxConcurrent
  /\ Reckoned' <=>
       \/ "torn" \in races'
       \/ /\ Total(waiting') + Total(held') <= MaxConcurrent
          /\ pc' = "totalling" => Total(waiting') <= seen'
          /\ pc' \in {"items", "counting", "gate", "admit"} =>
               Total(waiting') + Total(held') <= outstanding'
          /\ pc' \in {"fired", "recording"} => Total(waiting') + Total(held') <= outstanding' + 1
          /\ pc' \in {"gate", "admit"} => outstanding' < MaxConcurrent
  BY DEF Reckoned, OnFile, Total

\* What each step does to the two directories.
LEMMA AdmitFiles ==
  ASSUME Typed, Typed', Listable, Admit
  PROVE  Listable' /\ Total(waiting') = Total(waiting) + 1 /\ Total(held') = Total(held)
  <1>1. Grows(waiting, waiting', item) /\ held' = held
    BY DEF Admit, Typed, Grows
  <1>2. QED
    BY <1>1, OneMoreFile, ListableIs

LEMMA RecoverFiles ==
  ASSUME Typed, Typed', Listable, NEW k \in Keys, Recover(k)
  PROVE  Listable' /\ Total(waiting') = Total(waiting) + 1 /\ Total(held') = Total(held) - 1
  <1>1. Grows(waiting, waiting', k) /\ Shrinks(held, held', k)
    BY DEF Recover, Typed, Grows, Shrinks
  <1>2. QED
    BY <1>1, OneMoreFile, OneFileFewer, ListableIs

LEMMA ClaimFiles ==
  ASSUME Typed, Typed', Listable, NEW k \in Keys, Claim(k)
  PROVE  Listable' /\ Total(waiting') = Total(waiting) - 1 /\ Total(held') = Total(held) + 1
  <1>1. Shrinks(waiting, waiting', k) /\ Grows(held, held', k)
    BY DEF Claim, Typed, Grows, Shrinks
  <1>2. QED
    BY <1>1, OneMoreFile, OneFileFewer, ListableIs

LEMMA CompleteFiles ==
  ASSUME Typed, Typed', Listable, NEW k \in Keys, NEW ok \in BOOLEAN, Complete(k, ok)
  PROVE  Listable' /\ Total(waiting') = Total(waiting) /\ Total(held') = Total(held) - 1
  <1>1. running[k] > 0 /\ running[k] <= held[k] /\ running[k] \in Nat /\ held[k] \in Nat
    BY DEF Complete, Typed
  <1>2. Shrinks(held, held', k) /\ waiting' = waiting
    BY <1>1 DEF Complete, Typed, Shrinks
  <1>3. QED
    BY <1>2, OneFileFewer, ListableIs

-----------------------------------------------------------------------------
LEMMA CInvInit == Init => CInv
  <1> SUFFICES ASSUME Init PROVE CInv
    OBVIOUS
  <1>1. Files(waiting) = {} /\ Files(held) = {}
    BY DEF Init, Files
  <1>2. Total(waiting) = 0 /\ Total(held) = 0 /\ Listable
    BY <1>1, FS_EmptySet DEF Total, Files, Listable
  <1>3. TypeOK
    BY TypedInit, AdmissionAssumption DEF Init, TypeOK, Typed, Steps, Races
  <1>4. Reckoned
    BY <1>2, AdmissionAssumption DEF Init, Reckoned, OnFile
  <1>5. QED
    BY <1>2, <1>3, <1>4, TypedInit DEF CInv

\* Steps that leave the directories alone and do not count.
LEMMA ReckonedKept ==
  ASSUME Reckoned, "torn" \in races => "torn" \in races', UNCHANGED <<waiting, held>>,
         \/ UNCHANGED <<pc, seen, outstanding>>
         \/ pc' = "idle"
         \/ pc = "items" /\ pc' = "counting" /\ outstanding' = outstanding
         \/ pc \in {"counting", "gate", "admit"} /\ pc' = "items" /\ outstanding' = outstanding
         \/ pc = "gate" /\ pc' = "admit" /\ outstanding' = outstanding
         \/ pc = "fired" /\ pc' = "recording" /\ outstanding' = outstanding
         \/ pc = "recording" /\ pc' = "items" /\ outstanding' = outstanding + 1
  PROVE  Reckoned'
  BY ReckonedIs

LEMMA CInvStep == CInv /\ [Next]_vars => CInv'
  <1> SUFFICES ASSUME CInv, [Next]_vars PROVE CInv'
    OBVIOUS
  <1> USE DEF daemonVars, workerVars, historyVars
  <1>a. /\ Typed /\ Typed' /\ Listable /\ Reckoned /\ TypeOK
        /\ Total(waiting) \in Nat /\ Total(held) \in Nat
        /\ seen \in Nat /\ outstanding \in Nat /\ pc \in Steps
        /\ MaxConcurrent \in Nat
    BY TypedStep, TotalTyped, AdmissionAssumption DEF CInv, TypeOK
  \* The types that Typed leaves out.
  <1>b. TypeOK'
    <2>1. seen' \in Nat /\ outstanding' \in Nat
      <3>1. CASE Poll \/ CountEntry
        BY <1>a, <3>1 DEF Poll, CountEntry
      <3>2. CASE \E k \in Keys : TakeItem(k)
        BY <1>a, <3>2 DEF TakeItem, Typed
      <3>3. CASE ~(Poll \/ CountEntry \/ \E k \in Keys : TakeItem(k))
        BY <1>a, <3>3 DEF Next, DaemonStep, WorkerStep, RecordStep, Change, Elapse, RunRaises,
           Recover, Claim, CountItem, Gate, CannotRender, Admit, LoadForFire, SaveFire, PollEnds,
           NextItem, StartWorker, EnterLoop, KillDaemon, KillWorker, Complete, LoadForOutcome,
           SaveOutcome, vars
      <3>4. QED
        BY <3>1, <3>2, <3>3
    <2>2. pc' \in Steps
      BY <1>a DEF Steps, Next, DaemonStep, WorkerStep, RecordStep, Change, Elapse, RunRaises,
         Recover, Claim, Poll, CountEntry, TakeItem, CountItem, Gate, CannotRender, Admit,
         LoadForFire, SaveFire, PollEnds, NextItem, StartWorker, EnterLoop, KillDaemon, KillWorker,
         Complete, LoadForOutcome, SaveOutcome, vars
    <2>3. phase' \in {"down", "recovering", "up"} /\ kills' \in 0 .. MaxKills /\ races' \subseteq Races
      <3>1. phase \in {"down", "recovering", "up"} /\ kills \in 0 .. MaxKills /\ races \subseteq Races
            /\ MaxKills \in Nat
        BY <1>a, AdmissionAssumption DEF TypeOK
      <3>2. QED
        BY <3>1 DEF Races, Next, DaemonStep, WorkerStep, RecordStep, Change, Elapse, RunRaises,
           Recover, Claim, Poll, CountEntry, TakeItem, CountItem, Gate, CannotRender, Admit,
           LoadForFire, SaveFire, PollEnds, NextItem, StartWorker, EnterLoop, KillDaemon,
           KillWorker, Complete, LoadForOutcome, SaveOutcome, vars
    <2>4. QED
      BY <1>a, <2>1, <2>2, <2>3 DEF TypeOK, Typed
  <1>1. ASSUME NEW k \in Keys, Change(k) \/ Elapse(k) \/ RunRaises(k) PROVE Listable' /\ Reckoned'
    BY <1>a, <1>1, ReckonedKept, ListableIs DEF Change, Elapse, RunRaises
  <1>2. ASSUME Gate \/ CannotRender \/ LoadForFire \/ SaveFire \/ PollEnds
        PROVE Listable' /\ Reckoned'
    BY <1>a, <1>2, ReckonedKept, ListableIs DEF Gate, CannotRender, LoadForFire, SaveFire, PollEnds, NextItem
  <1>3. ASSUME \/ KillDaemon \/ StartWorker \/ EnterLoop
               \/ LoadForOutcome \/ SaveOutcome \/ KillWorker
        PROVE Listable' /\ Reckoned'
    BY <1>a, <1>3, ReckonedKept, ListableIs DEF KillDaemon, StartWorker, EnterLoop, LoadForOutcome,
       SaveOutcome, KillWorker
  <1>4. ASSUME NEW k \in Keys, TakeItem(k) PROVE Listable' /\ Reckoned'
    BY <1>a, <1>4, ReckonedKept, ListableIs DEF TakeItem
  <1>5. ASSUME UNCHANGED vars PROVE Listable' /\ Reckoned'
    BY <1>a, <1>5, ReckonedKept, ListableIs DEF vars
  <1>6. ASSUME Poll PROVE Listable' /\ Reckoned'
    BY <1>a, <1>6, ListableIs, ReckonedIs DEF Poll
  <1>7. ASSUME CountEntry PROVE Listable' /\ Reckoned'
    BY <1>a, <1>7, ListableIs, ReckonedIs DEF CountEntry
  <1>8. ASSUME CountItem PROVE Listable' /\ Reckoned'
    <2>1. CASE NextItem
      BY <1>a, <1>8, <2>1, ReckonedKept, ListableIs DEF CountItem, NextItem
    <2>2. CASE ~(seen + held[item] > 0 \/ outstanding >= MaxConcurrent) /\ pc' = "gate"
      BY <1>a, <1>8, <2>2, ListableIs, ReckonedIs DEF CountItem
    <2>3. QED
      BY <1>8, <2>1, <2>2 DEF CountItem
  <1>9. ASSUME Admit PROVE Listable' /\ Reckoned'
    <2>1. /\ pc = "admit" /\ pc' = "fired" /\ outstanding' = outstanding
          /\ "torn" \in races => "torn" \in races'
      BY <1>9 DEF Admit
    <2>2. QED
      BY <1>a, <1>9, <2>1, AdmitFiles, ReckonedIs
  <1>10. ASSUME NEW k \in Keys, Recover(k) PROVE Listable' /\ Reckoned'
    <2>1. /\ UNCHANGED <<pc, seen, outstanding>>
          /\ pc = "totalling" => "torn" \in races'
          /\ "torn" \in races => "torn" \in races'
      BY <1>10 DEF Recover
    <2>2. QED
      BY <1>a, <1>10, <2>1, RecoverFiles, ReckonedIs
  <1>11. ASSUME NEW k \in Keys, Claim(k) PROVE Listable' /\ Reckoned'
    <2>1. UNCHANGED <<pc, seen, outstanding, races>>
      BY <1>11 DEF Claim
    <2>2. QED
      BY <1>a, <1>11, <2>1, ClaimFiles, ReckonedIs
  <1>12. ASSUME NEW k \in Keys, NEW ok \in BOOLEAN, Complete(k, ok) PROVE Listable' /\ Reckoned'
    <2>1. UNCHANGED <<pc, seen, outstanding>> /\ ("torn" \in races => "torn" \in races')
      BY <1>12 DEF Complete
    <2>2. QED
      BY <1>a, <1>12, <2>1, CompleteFiles, ReckonedIs
  <1>13. Listable' /\ Reckoned'
    BY <1>1, <1>2, <1>3, <1>4, <1>5, <1>6, <1>7, <1>8, <1>9, <1>10, <1>11, <1>12
       DEF Next, DaemonStep, WorkerStep, RecordStep
  <1>14. QED
    BY <1>a, <1>b, <1>13 DEF CInv

LEMMA CInvHolds == Spec => []CInv
  BY CInvInit, CInvStep, PTL DEF Spec

\* The counts of a poll, the copies of a record and the local of _admit keep their types.
THEOREM AdmissionTypeCorrect == Spec => []TypeOK
  <1>1. CInv => TypeOK
    BY DEF CInv
  <1>2. QED
    BY <1>1, CInvHolds, PTL

\* count_unfinished: the jobs of an entry never exceed its cap, but by a recovery between
\* the globs.
THEOREM WithinTheCap == Spec => []CapUnlessTorn
  <1>1. CInv => CapUnlessTorn
    BY DEF CInv, Reckoned, OnFile, CapUnlessTorn
  <1>2. QED
    BY <1>1, CInvHolds, PTL
=============================================================================
