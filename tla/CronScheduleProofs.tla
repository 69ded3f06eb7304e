-------------------------- MODULE CronScheduleProofs --------------------------
(***************************************************************************)
(* The cron daemon's promises for every set of entries, expressions and    *)
(* windows and any number of minutes, lives and requests: a scheduled time *)
(* fires once, a due time does not vanish, a request is kept.  All of it   *)
(* rests on where the record of an entry stands against its next fire:     *)
(* what has fired is at or before both, and no due time is between them.   *)
(***************************************************************************)
EXTENDS CronSchedule, TLAPS

\* What the steps of the loop rely on besides the types.
Shape ==
  /\ TypeOK
  /\ now <= clock
  /\ \A e \in Recurring : nextFire[e] \in Times \union {Never}
  /\ pc = "read" => draining # NoFile
  /\ pc \in {"fire", "catchfire"} => due.entry \in Recurring /\ due.at \in Times
  /\ pc = "mark" => due.entry \in OneShots
  /\ pc \in {"due", "fire", "mark"} => \A e \in todo : nextFire[e] <= now
  /\ pc \in {"catchup", "catchfire"} => todo \subseteq Recurring

\* Without a skew, what has fired is behind the record and behind the next fire, and what
\* is about to fire has not.
FiredIsPast ==
  /\ FiresOnce
  /\ \A e \in Recurring, t \in Times : fired[e][t] > 0 =>
       t <= now /\ t <= record[e].at /\ (pc # "down" => t < nextFire[e])
  /\ pc \in {"fire", "catchfire"} =>
       /\ fired[due.entry][due.at] = 0
       /\ due.at <= now /\ due.at = record[due.entry].at /\ due.at < nextFire[due.entry]
  /\ pc \in {"booted", "catchup", "catchfire"} => \A e \in Recurring : nextFire[e] > now

\* A one-shot that ran is in the store or about to be.
RanIsSpent ==
  /\ OneShotOnce
  /\ \A e \in OneShots : ran[e] > 0 => e \in spent \/ (pc = "mark" /\ due.entry = e)

\* A request under way has read what is in the file.
AskedIsRead == asking # NoFile => trigger \in {NoFile} \union SUBSET asking

\* As long as nobody edits, the record is of the expression the daemon works from.
Unedited ==
  /\ loaded = config
  /\ \A e \in Recurring : record[e] # NoRecord => record[e].period = config[e]

Due(e) == {t \in Times : t % loaded[e] = 0}
CaughtUpOn(e) == pc \notin {"down", "booted"} /\ ~(pc \in {"catchup", "catchfire"} /\ e \in todo)

\* No due time is between the record and the next fire, once the start has caught up on
\* the entry; before, none is between that start and the next fire.
NoDueBetween ==
  /\ \A e \in Recurring : CaughtUpOn(e) =>
       record[e] # NoRecord /\ \A t \in Due(e) : ~(record[e].at < t /\ t < nextFire[e])
  /\ pc \in {"booted", "catchup", "catchfire"} =>
       \A e \in Recurring : \A t \in Due(e) : ~(now < t /\ t < nextFire[e])

\* What the record has moved past was attempted, told, or is the attempt at hand.
DueIsTold ==
  \A e \in Recurring : record[e] # NoRecord =>
    \A t \in Due(e) : since[e] < t /\ t <= record[e].at =>
      \/ fired[e][t] > 0
      \/ t \in told[e]
      \/ pc \in {"fire", "catchfire"} /\ due = [entry |-> e, at |-> t]

Once == "skew" \in cuts \/ FiredIsPast
Spent == "mark" \in cuts \/ RanIsSpent
Kept == AskedIsRead /\ RequestKeptUnlessCut
Told == cuts \intersect {"fire", "oversleep", "edit"} = {} => Unedited /\ NoDueBetween /\ DueIsTold

IInv == Shape /\ Once /\ Spent /\ Kept /\ Told
-----------------------------------------------------------------------------
USE ScheduleAssumption


LEMMA Division ==
  ASSUME NEW p \in Nat \ {0}, NEW t \in Nat
  PROVE  /\ t \div p \in Nat /\ t % p \in 0..(p - 1)
         /\ t = p * (t \div p) + (t % p)
  OBVIOUS

\* Multiples of p are p apart.
LEMMA Apart ==
  ASSUME NEW p \in Nat \ {0}, NEW a \in Nat, NEW b \in Nat, p * a < p * b
  PROVE  p * (a + 1) <= p * b
  <1>1. a < b
    OBVIOUS
  <1>2. PICK d \in Nat : b = a + 1 + d
    <2>1. b - a - 1 \in Nat /\ b = a + 1 + (b - a - 1)
      BY <1>1
    <2>2. QED
      BY <2>1
  <1>3. p * b = p * (a + 1) + p * d
    BY <1>2
  <1>4. p * d \in Nat /\ p * (a + 1) \in Nat
    BY <1>2
  <1>5. QED
    BY <1>3, <1>4

LEMMA Multiple ==
  ASSUME NEW p \in Nat \ {0}, NEW a \in Nat, NEW m \in Nat, m = p * a
  PROVE  m % p = 0
  <1> DEFINE d == m \div p  r == m % p
  <1>1. d \in Nat /\ r \in 0..(p - 1) /\ m = p * d + r
    BY Division
  <1> HIDE DEF d, r
  <1>2. p * d \in Nat
    BY <1>1
  <1>3. ~(p * d < p * a)
    <2>1. SUFFICES ASSUME p * d < p * a PROVE FALSE
      OBVIOUS
    <2>2. p * (d + 1) <= p * a
      BY <1>1, <2>1, Apart
    <2>3. p * (d + 1) = p * d + p
      BY <1>1
    <2>4. QED
      BY <1>1, <1>2, <2>2, <2>3
  <1>4. r = 0
    BY <1>1, <1>2, <1>3
  <1>5. QED
    BY <1>4 DEF r

\* next_fire is the first due time after t.
LEMMA NextAtIsNext ==
  ASSUME NEW p \in Nat \ {0}, NEW t \in Nat
  PROVE  /\ NextAt(p, t) \in Nat /\ t < NextAt(p, t)
         /\ \A m \in Nat : m % p = 0 /\ t < m => NextAt(p, t) <= m
  <1> DEFINE q == t \div p
  <1>1. q \in Nat /\ t % p \in 0..(p - 1) /\ t = p * q + (t % p)
    BY Division
  <1>2. NextAt(p, t) = p * (q + 1) /\ p * (q + 1) = p * q + p /\ p * q \in Nat
    BY <1>1 DEF NextAt
  <1>3. NextAt(p, t) \in Nat /\ t < NextAt(p, t)
    BY <1>1, <1>2
  <1>4. ASSUME NEW m \in Nat, m % p = 0, t < m
        PROVE  NextAt(p, t) <= m
    <2>1. m \div p \in Nat /\ m = p * (m \div p)
      BY <1>4, Division
    <2>2. p * q < p * (m \div p)
      BY <1>1, <1>2, <1>4, <2>1
    <2>3. QED
      BY <1>1, <1>2, <2>1, <2>2, Apart
  <1>5. QED
    BY <1>3, <1>4

\* Of the missed times there is a latest.
LEMMA LatestIsLatest ==
  ASSUME NEW p \in Nat \ {0}, NEW a \in Int, NEW u \in 0..MaxClock, Missed(p, a, u) # {}
  PROVE  /\ Latest(Missed(p, a, u)) \in Missed(p, a, u)
         /\ \A m \in Missed(p, a, u) : m <= Latest(Missed(p, a, u))
  <1> DEFINE l == p * (u \div p)
  <1>1. u \div p \in Nat /\ u % p \in 0..(p - 1) /\ u = l + (u % p) /\ l \in Nat
    BY Division
  <1>2. l % p = 0
    BY <1>1, Multiple
  <1>3. ASSUME NEW m \in Nat, m % p = 0, m <= u
        PROVE  m <= l
    <2>1. m \div p \in Nat /\ m = p * (m \div p)
      <3>1. m \div p \in Nat /\ m = p * (m \div p) + (m % p)
        BY Division
      <3>2. QED
        BY <1>3, <3>1
    <2>2. SUFFICES ASSUME l < m PROVE FALSE
      BY <1>1
    <2>3. p * ((u \div p) + 1) <= m
      BY <1>1, <2>1, <2>2, Apart
    <2>4. p * ((u \div p) + 1) = l + p
      BY <1>1
    <2>5. QED
      BY <1>1, <1>3, <2>3, <2>4
  <1>4. l \in Missed(p, a, u)
    BY <1>1, <1>2, <1>3 DEF Missed, Times
  <1>5. \A m \in Missed(p, a, u) : m <= l
    BY <1>3 DEF Missed, Times
  <1>6. QED
    BY <1>4, <1>5 DEF Latest

\* Where reload and the loop put next_fire, with the bound on the clock.
LEMMA PlannedIsNext ==
  ASSUME NEW p \in Periods, NEW t \in 0..MaxClock
  PROVE  /\ Capped(NextAt(p, t)) \in Times \union {Never} /\ t < Capped(NextAt(p, t))
         /\ \A m \in Times : m % p = 0 /\ t < m => Capped(NextAt(p, t)) <= m
  <1>0. p \in Nat \ {0} /\ t \in Nat
    OBVIOUS
  <1>1. /\ NextAt(p, t) \in Nat /\ t < NextAt(p, t)
        /\ \A m \in Nat : m % p = 0 /\ t < m => NextAt(p, t) <= m
    BY <1>0, NextAtIsNext
  <1>2. CASE NextAt(p, t) > MaxClock + 1
    <2>1. Capped(NextAt(p, t)) = MaxClock + 100
      BY <1>2 DEF Capped, Never
    <2>2. \A m \in Times : m % p = 0 => ~(t < m)
      <3>1. SUFFICES ASSUME NEW m \in Times, m % p = 0, t < m PROVE FALSE
        OBVIOUS
      <3>2. m \in Nat /\ m <= MaxClock + 1
        BY DEF Times
      <3>3. NextAt(p, t) <= m
        BY <1>1, <3>1, <3>2
      <3>4. QED
        BY <1>1, <1>2, <3>2, <3>3
    <2>3. QED
      BY <2>1, <2>2 DEF Never
  <1>3. CASE ~(NextAt(p, t) > MaxClock + 1)
    BY <1>1, <1>3 DEF Capped, Times, Never
  <1>4. QED
    BY <1>2, <1>3

LEMMA LatestTyped ==
  ASSUME NEW p \in Periods, NEW a \in Int, NEW u \in 0..MaxClock, Missed(p, a, u) # {}
  PROVE  LET l == Latest(Missed(p, a, u))
         IN  /\ l \in Times /\ l \in Missed(p, a, u) /\ a < l /\ l <= u
             /\ \A m \in Missed(p, a, u) : m <= l
  <1>1. p \in Nat \ {0}
    OBVIOUS
  <1>2. /\ Latest(Missed(p, a, u)) \in Missed(p, a, u)
        /\ \A m \in Missed(p, a, u) : m <= Latest(Missed(p, a, u))
    BY <1>1, LatestIsLatest
  <1>3. QED
    BY <1>2 DEF Missed

LEMMA AttemptCounts ==
  ASSUME TypeOK, NEW e \in Recurring, NEW t \in Times, Attempted(e, t)
  PROVE  /\ fired' \in [Recurring -> [Times -> 0..2]]
         /\ fired'[e][t] > 0 /\ fired'[e][t] <= fired[e][t] + 1
         /\ \A f \in Recurring, u \in Times : f # e \/ u # t => fired'[f][u] = fired[f][u]
  <1>1. fired[e] \in [Times -> 0..2] /\ fired[e][t] \in 0..2
    BY DEF TypeOK
  <1>2. fired'[e][t] = IF fired[e][t] = 2 THEN 2 ELSE fired[e][t] + 1
    BY DEF TypeOK, Attempted
  <1>3. \A f \in Recurring, u \in Times : f # e \/ u # t => fired'[f][u] = fired[f][u]
    BY DEF TypeOK, Attempted
  <1>4. fired' \in [Recurring -> [Times -> 0..2]]
    BY <1>1 DEF TypeOK, Attempted
  <1>5. QED
    BY <1>1, <1>2, <1>3, <1>4
-----------------------------------------------------------------------------
LEMMA ShapeInit == Init => Shape
  BY DEF Init, Shape, TypeOK, Entries, NoFire, NoRecord, NoFile, Times, Never, Steps, Cuts

\* What the steps that make a record, a next fire or an attempt leave typed.
LEMMA RecordTyped ==
  ASSUME TypeOK, NEW e \in Recurring, NEW t \in Times,
         record' = [record EXCEPT ![e] = [at |-> t, period |-> loaded[e]]]
  PROVE  /\ record' \in [Recurring -> [at : Times, period : Periods] \union {NoRecord}]
         /\ record'[e] = [at |-> t, period |-> loaded[e]] /\ record'[e] # NoRecord
         /\ \A f \in Recurring : f # e => record'[f] = record[f]
  <1>1. loaded[e] \in Periods /\ t # -1
    BY DEF TypeOK, Times
  <1>2. QED
    BY <1>1 DEF TypeOK, NoRecord

LEMMA BootTyped ==
  ASSUME Shape, Boot
  PROVE  /\ nextFire' \in [Entries -> Times \union {Never, AtTime}]
         /\ \A e \in Recurring :
              /\ nextFire'[e] = Capped(NextAt(config[e], clock))
              /\ nextFire'[e] \in Times \union {Never} /\ clock < nextFire'[e]
  <1>1. \A e \in Recurring : e \in Entries /\ e \notin OneShots
    BY DEF Entries
  <1>2. \A e \in Recurring : nextFire'[e] = Capped(NextAt(config[e], clock))
    BY <1>1 DEF Boot, Planned
  <1>3. \A e \in Recurring : config[e] \in Periods /\ clock \in 0..MaxClock
    BY DEF Shape, TypeOK
  <1>4. \A e \in Recurring : nextFire'[e] \in Times \union {Never} /\ clock < nextFire'[e]
    BY <1>2, <1>3, PlannedIsNext
  <1>5. \A e \in Entries : nextFire'[e] \in Times \union {Never, AtTime}
    BY <1>4 DEF Boot, Entries
  <1>6. nextFire' = [e \in Entries |-> nextFire'[e]]
    BY DEF Boot
  <1>7. QED
    BY <1>2, <1>4, <1>5, <1>6

LEMMA WakeTyped ==
  ASSUME Shape, Wake
  PROVE  /\ nextFire' \in [Entries -> Times \union {Never, AtTime}]
         /\ \A e \in Recurring :
              /\ nextFire'[e] \in Times \union {Never}
              /\ IF config[e] = loaded[e] THEN nextFire'[e] = nextFire[e] ELSE clock < nextFire'[e]
  <1>1. \A e \in Recurring : e \in Entries /\ e \notin OneShots
    BY DEF Entries
  <1>2. \A e \in Recurring :
          nextFire'[e] = IF config[e] = loaded[e] THEN nextFire[e]
                         ELSE Capped(NextAt(config[e], clock))
    BY <1>1 DEF Wake, Planned
  <1>3. \A e \in Recurring : config[e] \in Periods /\ clock \in 0..MaxClock
    BY DEF Shape, TypeOK
  <1>4. \A e \in Recurring : nextFire[e] \in Times \union {Never}
    BY DEF Shape
  <1>5. \A e \in Recurring :
              /\ nextFire'[e] \in Times \union {Never}
              /\ IF config[e] = loaded[e] THEN nextFire'[e] = nextFire[e] ELSE clock < nextFire'[e]
    BY <1>2, <1>3, <1>4, PlannedIsNext
  <1>6. \A e \in OneShots : e \in Entries /\ nextFire'[e] = nextFire[e]
    BY DEF Wake, Entries
  <1>7. \A e \in Entries : nextFire'[e] \in Times \union {Never, AtTime}
    BY <1>5, <1>6 DEF Entries, Shape, TypeOK
  <1>8. nextFire' = [e \in Entries |-> nextFire'[e]]
    BY DEF Wake
  <1>9. QED
    BY <1>5, <1>7, <1>8

LEMMA DueRecurringTyped ==
  ASSUME Shape, NEW e \in Entries, DueRecurring(e)
  PROVE  /\ e \in Recurring /\ nextFire[e] \in Times /\ nextFire[e] <= now
         /\ nextFire' \in [Entries -> Times \union {Never, AtTime}]
         /\ nextFire'[e] = Capped(NextAt(loaded[e], now))
         /\ nextFire'[e] \in Times \union {Never} /\ now < nextFire'[e]
         /\ \A m \in Times : m % loaded[e] = 0 /\ now < m => nextFire'[e] <= m
         /\ \A f \in Entries : f # e => nextFire'[f] = nextFire[f]
         /\ record' \in [Recurring -> [at : Times, period : Periods] \union {NoRecord}]
         /\ record'[e] = [at |-> nextFire[e], period |-> loaded[e]] /\ record'[e] # NoRecord
         /\ \A f \in Recurring : f # e => record'[f] = record[f]
  <1>1. e \in Recurring /\ nextFire[e] \in Times \union {Never} /\ nextFire[e] <= now
    BY DEF DueRecurring, Shape
  <1>2. now \in 0..MaxClock /\ loaded[e] \in Periods
    BY <1>1 DEF Shape, TypeOK
  <1>3. nextFire[e] \in Times
    BY <1>1, <1>2 DEF Never
  <1>4. /\ nextFire' = [nextFire EXCEPT ![e] = Capped(NextAt(loaded[e], now))]
        /\ record' = [record EXCEPT ![e] = [at |-> nextFire[e], period |-> loaded[e]]]
    BY DEF DueRecurring
  <1>5. /\ Capped(NextAt(loaded[e], now)) \in Times \union {Never}
        /\ now < Capped(NextAt(loaded[e], now))
        /\ \A m \in Times : m % loaded[e] = 0 /\ now < m => Capped(NextAt(loaded[e], now)) <= m
    BY <1>2, PlannedIsNext
  <1>6. /\ nextFire' \in [Entries -> Times \union {Never, AtTime}]
        /\ nextFire'[e] = Capped(NextAt(loaded[e], now))
        /\ \A f \in Entries : f # e => nextFire'[f] = nextFire[f]
    BY <1>4, <1>5 DEF Shape, TypeOK
  <1>7. QED
    BY <1>1, <1>3, <1>4, <1>5, <1>6, RecordTyped DEF Shape

\* What a start makes of an entry: a new record, nothing, or the times it has missed told
\* and either the latest of them about to be fired or none.
MissedBy(e) == Missed(loaded[e], record[e].at, now)
RecordsAt(e, t) == record'[e] = [at |-> t, period |-> loaded[e]]
BeginsRecord(e) ==
  ~KnownRecord(e) /\ RecordsAt(e, now) /\ since'[e] = now /\ UNCHANGED <<pc, due, told>>
MissedNone(e) == KnownRecord(e) /\ MissedBy(e) = {} /\ UNCHANGED <<record, pc, due, told, since>>
TellsMissed(e) ==
  /\ KnownRecord(e) /\ MissedBy(e) # {} /\ since' = since
  /\ told'[e] = told[e] \union MissedBy(e)
CatchesUp(e) ==
  /\ TellsMissed(e) /\ RecordsAt(e, Latest(MissedBy(e)))
  /\ due' = [entry |-> e, at |-> Latest(MissedBy(e))] /\ pc' = "catchfire"
LetsGo(e) == TellsMissed(e) /\ RecordsAt(e, now) /\ UNCHANGED <<pc, due>>

LEMMA CatchUpTyped ==
  ASSUME Shape, NEW e \in Recurring, CatchUpEntry(e)
  PROVE  /\ pc = "catchup" /\ e \in todo /\ todo' = todo \ {e}
         /\ BeginsRecord(e) \/ MissedNone(e) \/ CatchesUp(e) \/ LetsGo(e)
         /\ ~MissedNone(e) => record'[e] # NoRecord
         /\ MissedBy(e) # {} =>
              Latest(MissedBy(e)) \in Times /\ record[e].at < Latest(MissedBy(e))
              /\ Latest(MissedBy(e)) <= now /\ \A m \in MissedBy(e) : m <= Latest(MissedBy(e))
         /\ record' \in [Recurring -> [at : Times, period : Periods] \union {NoRecord}]
         /\ since' \in [Recurring -> 0..MaxClock] /\ told' \in [Recurring -> SUBSET Times]
         /\ \A f \in Recurring : f # e =>
              record'[f] = record[f] /\ since'[f] = since[f] /\ told'[f] = told[f]
  <1>1. /\ loaded[e] \in Periods /\ now \in 0..MaxClock /\ record[e].at \in Int
        /\ record[e] \in [at : Times, period : Periods] \union {NoRecord}
    BY DEF Shape, TypeOK, Times, NoRecord
  <1>2. MissedBy(e) # {} =>
          /\ Latest(MissedBy(e)) \in Times /\ record[e].at < Latest(MissedBy(e))
          /\ Latest(MissedBy(e)) <= now /\ \A m \in MissedBy(e) : m <= Latest(MissedBy(e))
    BY <1>1, LatestTyped DEF MissedBy
  <1>3. now \in Times /\ MissedBy(e) \subseteq Times
    BY <1>1 DEF Times, MissedBy, Missed
  <1>4. CASE /\ ~KnownRecord(e)
             /\ record' = [record EXCEPT ![e] = [at |-> now, period |-> loaded[e]]]
             /\ since' = [since EXCEPT ![e] = now] /\ UNCHANGED <<pc, due, told>>
    <2>1. RecordsAt(e, now) /\ BeginsRecord(e)
      BY <1>3, <1>4, RecordTyped DEF RecordsAt, BeginsRecord, Shape, TypeOK
    <2>2. QED
      BY <1>1, <1>2, <1>3, <1>4, <2>1, RecordTyped DEF CatchUpEntry, Shape, TypeOK
  <1>5. CASE /\ KnownRecord(e) /\ MissedBy(e) = {} /\ UNCHANGED <<record, pc, due, told, since>>
    BY <1>2, <1>5 DEF CatchUpEntry, MissedNone, Shape, TypeOK
  <1>6. CASE /\ KnownRecord(e) /\ MissedBy(e) # {} /\ UNCHANGED since
             /\ told' = [told EXCEPT ![e] = @ \union MissedBy(e)]
    <2>1. /\ told' \in [Recurring -> SUBSET Times]
          /\ TellsMissed(e) /\ \A f \in Recurring : f # e => told'[f] = told[f]
      BY <1>3, <1>6 DEF TellsMissed, Shape, TypeOK
    <2>2. CASE /\ record' = [record EXCEPT ![e] =
                               [at |-> Latest(MissedBy(e)), period |-> loaded[e]]]
               /\ due' = [entry |-> e, at |-> Latest(MissedBy(e))] /\ pc' = "catchfire"
      <3>1. CatchesUp(e)
        BY <1>2, <2>1, <2>2, <1>6, RecordTyped DEF CatchesUp, RecordsAt, Shape
      <3>2. QED
        BY <1>2, <1>6, <2>1, <2>2, <3>1, RecordTyped DEF CatchUpEntry, Shape, TypeOK
    <2>3. CASE /\ record' = [record EXCEPT ![e] = [at |-> now, period |-> loaded[e]]]
               /\ UNCHANGED <<pc, due>>
      <3>1. LetsGo(e)
        BY <1>3, <2>1, <2>3, RecordTyped DEF LetsGo, RecordsAt, Shape
      <3>2. QED
        BY <1>2, <1>3, <1>6, <2>1, <2>3, <3>1, RecordTyped DEF CatchUpEntry, Shape, TypeOK
    <2>4. QED
      BY <1>6, <2>2, <2>3 DEF CatchUpEntry, MissedBy
  <1>7. QED
    BY <1>4, <1>5, <1>6 DEF CatchUpEntry, MissedBy

LEMMA ShapeStep == Shape /\ [Next]_vars => Shape'
  <1> SUFFICES ASSUME Shape, [Next]_vars PROVE Shape'
    OBVIOUS
  <1> USE DEF fileVars, loopVars, historyVars
  <1>1. CASE Tick
    BY <1>1 DEF Tick, Shape, TypeOK
  <1>2. ASSUME NEW e \in Recurring, Edit(e) PROVE Shape'
    BY <1>2 DEF Edit, Shape, TypeOK, Cuts
  <1>3. ASSUME NEW e \in Entries, Ask(e) PROVE Shape'
    BY <1>3 DEF Ask, Shape, TypeOK
  <1>4. CASE WriteRequest
    BY <1>4 DEF WriteRequest, Shape, TypeOK
  <1>5. CASE Boot
    <2>1. /\ nextFire' \in [Entries -> Times \union {Never, AtTime}]
          /\ \A e \in Recurring : nextFire'[e] \in Times \union {Never}
      BY <1>5, BootTyped
    <2>2. /\ lives' \in 0..MaxLives /\ loaded' = config /\ now' = clock /\ pc' = "booted"
          /\ UNCHANGED <<clock, fileVars, asking, todo, due, asked, historyVars>>
      BY <1>5 DEF Boot, Shape, TypeOK
    <2>3. QED
      BY <2>1, <2>2 DEF Shape, TypeOK, Steps
  <1>6. CASE BeginCatchUp
    BY <1>6 DEF BeginCatchUp, Shape, TypeOK, Steps, Cuts, Entries
  <1>7. ASSUME NEW e \in Recurring, CatchUpEntry(e) PROVE Shape'
    <2>1. /\ pc = "catchup" /\ todo' \subseteq todo
          /\ record' \in [Recurring -> [at : Times, period : Periods] \union {NoRecord}]
          /\ since' \in [Recurring -> 0..MaxClock] /\ told' \in [Recurring -> SUBSET Times]
          /\ UNCHANGED <<clock, config, spent, trigger, draining, loaded, nextFire, asking, now,
                         lives, asked, fired, ran, owed, cuts>>
      BY <1>7, CatchUpTyped DEF CatchUpEntry
    <2>2. \/ pc' = pc /\ due' = due
          \/ pc' = "catchfire" /\ due'.entry = e /\ due'.at \in Times
             /\ due' \in [entry : Entries \union {"none"}, at : Times \union {AtTime}]
      <3>1. CASE CatchesUp(e)
        BY <1>7, <3>1, CatchUpTyped DEF CatchesUp, TellsMissed, Entries
      <3>2. QED
        BY <1>7, <3>1, CatchUpTyped DEF BeginsRecord, MissedNone, LetsGo
    <2>3. QED
      BY <2>1, <2>2 DEF Shape, TypeOK, Steps
  <1>8. CASE CatchUpFire \/ FireRecurring
    <2>1. fired' \in [Recurring -> [Times -> 0..2]]
      BY <1>8, AttemptCounts DEF CatchUpFire, FireRecurring, Shape
    <2>2. NoFire \in [entry : Entries \union {"none"}, at : Times \union {AtTime}]
      BY DEF NoFire, Times
    <2>3. QED
      BY <1>8, <2>1, <2>2 DEF CatchUpFire, FireRecurring, Shape, TypeOK, Steps
  <1>9. CASE CaughtUp \/ Sleep \/ Drained
    BY <1>9 DEF CaughtUp, Sleep, Drained, Shape, TypeOK, Steps
  <1>10. CASE Wake
    <2>1. /\ nextFire' \in [Entries -> Times \union {Never, AtTime}]
          /\ \A e \in Recurring : nextFire'[e] \in Times \union {Never}
      BY <1>10, WakeTyped
    <2>2. QED
      BY <1>10, <2>1 DEF Wake, Shape, TypeOK, Steps
  <1>11. CASE Drain
    BY <1>11 DEF Drain, Shape, TypeOK, Steps, Cuts
  <1>12. CASE ReadRequest
    BY <1>12 DEF ReadRequest, Shape, TypeOK, Steps
  <1>13. ASSUME NEW e \in Entries, RunNow(e) PROVE Shape'
    BY <1>13 DEF RunNow, Shape, TypeOK
  <1>14. CASE FindDue
    BY <1>14 DEF FindDue, Shape, TypeOK, Steps
  <1>15. ASSUME NEW e \in Recurring, DueRecurring(e) PROVE Shape'
    <2>1. e \in Entries
      BY DEF Entries
    <2>2. due' \in [entry : Entries \union {"none"}, at : Times \union {AtTime}]
          /\ due'.entry = e /\ due'.at \in Times
      BY <1>15, <2>1, DueRecurringTyped DEF DueRecurring
    <2>3. \A f \in Recurring : nextFire'[f] \in Times \union {Never}
      BY <1>15, <2>1, DueRecurringTyped DEF Shape, Entries
    <2>4. \A f \in todo' : nextFire'[f] <= now'
      BY <1>15, <2>1, DueRecurringTyped DEF DueRecurring, Shape, TypeOK
    <2>5. TypeOK'
      BY <1>15, <2>1, <2>2, DueRecurringTyped DEF DueRecurring, Shape, TypeOK, Steps, Cuts
    <2>6. QED
      BY <1>15, <2>2, <2>3, <2>4, <2>5 DEF DueRecurring, Shape
  <1>16. ASSUME NEW e \in Entries, DueOneShot(e) PROVE Shape'
    <2>1. e \in OneShots /\ e \notin Recurring /\ e \in Entries
      BY <1>16 DEF DueOneShot, Entries
    <2>2. /\ nextFire' \in [Entries -> Times \union {Never, AtTime}]
          /\ \A f \in Entries : f # e => nextFire'[f] = nextFire[f]
      BY <1>16, <2>1 DEF DueOneShot, Shape, TypeOK
    <2>3. ran' \in [OneShots -> 0..2]
      BY <1>16, <2>1 DEF DueOneShot, Shape, TypeOK
    <2>4. TypeOK'
      BY <1>16, <2>1, <2>2, <2>3 DEF DueOneShot, Shape, TypeOK, Steps
    <2>5. /\ pc = "due" /\ pc' \in {"due", "mark"} /\ (pc' = "mark" => due'.entry = e)
          /\ todo' = todo \ {e} /\ UNCHANGED <<now, clock>>
      BY <1>16 DEF DueOneShot
    <2>6. /\ \A f \in Recurring : nextFire'[f] = nextFire[f]
          /\ \A f \in todo' : nextFire'[f] = nextFire[f]
      BY <2>1, <2>2, <2>5 DEF Shape, TypeOK, Entries
    <2>7. QED
      BY <2>1, <2>4, <2>5, <2>6 DEF Shape
  <1>17. CASE MarkOneShot
    BY <1>17 DEF MarkOneShot, Shape, TypeOK, Steps, NoFire, Times
  <1>18. CASE Kill
    <2>1. cuts' \subseteq Cuts
      BY <1>18 DEF Kill, Shape, TypeOK, Cuts
    <2>2. /\ pc' = "down" /\ todo' = {} /\ due' = NoFire
          /\ UNCHANGED <<clock, fileVars, loaded, nextFire, asking, now, lives, asked, fired,
                         ran, told, since, owed>>
      BY <1>18 DEF Kill
    <2>3. NoFire \in [entry : Entries \union {"none"}, at : Times \union {AtTime}]
      BY DEF NoFire, Times
    <2>4. QED
      BY <2>1, <2>2, <2>3 DEF Shape, TypeOK, Steps
  <1>19. CASE UNCHANGED vars
    BY <1>19 DEF vars, Shape, TypeOK
  <1>20. QED
    BY <1>1, <1>2, <1>3, <1>4, <1>5, <1>6, <1>7, <1>8, <1>9, <1>10, <1>11, <1>12, <1>13, <1>14,
       <1>15, <1>16, <1>17, <1>18, <1>19 DEF Next, DaemonStep
-----------------------------------------------------------------------------
LEMMA OnceInit == Init => Once
  BY DEF Init, Once, FiredIsPast, FiresOnce

\* Steps that neither fire nor plan nor record, in a life that goes on or has ended.
LEMMA OnceKept ==
  ASSUME Once, UNCHANGED <<fired, record, nextFire>>, cuts \subseteq cuts', now' = now,
         \/ UNCHANGED <<pc, due>>
         \/ pc # "down" /\ pc' \notin {"booted", "catchup", "fire", "catchfire"}
  PROVE  Once'
  BY DEF Once, FiredIsPast, FiresOnce

LEMMA OnceStep == Shape /\ Once /\ [Next]_vars => Once'
  <1> SUFFICES ASSUME Shape, Once, [Next]_vars, "skew" \notin cuts' PROVE FiredIsPast'
    BY DEF Once
  <1> USE DEF fileVars, loopVars, historyVars
  <1>1. ASSUME NEW e \in Entries, Ask(e) \/ RunNow(e) PROVE Once'
    BY <1>1, OnceKept DEF Ask, RunNow
  <1>2. ASSUME NEW e \in Recurring, Edit(e) PROVE Once'
    BY <1>2, OnceKept DEF Edit
  <1>3. ASSUME Tick \/ WriteRequest \/ CaughtUp \/ Drained \/ Sleep \/ Drain \/ ReadRequest
               \/ MarkOneShot \/ Kill \/ UNCHANGED vars
        PROVE  Once'
    BY <1>3, OnceKept DEF Tick, WriteRequest, CaughtUp, Drained, Sleep, Drain, ReadRequest,
       MarkOneShot, Kill, vars
  <1>a. "skew" \in cuts \/ FiredIsPast
    BY DEF Once
  <1>b. now \in Nat /\ clock \in Nat /\ now <= clock
    BY DEF Shape, TypeOK
  <1>4. CASE Boot
    <2>1. /\ pc' = "booted" /\ now' = clock /\ UNCHANGED <<fired, record>> /\ FiredIsPast
          /\ \A e \in Recurring : clock < nextFire'[e] /\ nextFire'[e] \in Times \union {Never}
      BY <1>4, <1>a, BootTyped DEF Boot
    <2>2. \A e \in Recurring, t \in Times : fired[e][t] > 0 => t <= now /\ t <= record[e].at
      BY <2>1 DEF FiredIsPast
    <2>3. \A e \in Recurring, t \in Times :
            t <= now => t <= clock /\ t < nextFire'[e]
      BY <1>b, <2>1 DEF Times, Never
    <2>4. QED
      BY <1>b, <2>1, <2>2, <2>3 DEF FiredIsPast, FiresOnce
  <1>5. CASE BeginCatchUp
    <2>1. /\ pc = "booted" /\ pc' = "catchup" /\ now' = now /\ "skew" \notin cuts
          /\ UNCHANGED <<fired, record, nextFire>>
      BY <1>5 DEF BeginCatchUp
    <2>2. QED
      BY <1>a, <2>1 DEF FiredIsPast, FiresOnce
  <1>6. ASSUME NEW e \in Recurring, CatchUpEntry(e) PROVE FiredIsPast'
    <2>1. /\ pc = "catchup" /\ "skew" \notin cuts /\ UNCHANGED <<fired, nextFire, now>>
          /\ \A f \in Recurring : f # e => record'[f] = record[f]
      BY <1>6, CatchUpTyped DEF CatchUpEntry
    <2>2. FiredIsPast /\ \A f \in Recurring : nextFire[f] > now
      BY <1>a, <2>1 DEF FiredIsPast
    <2>3. CASE CatchesUp(e)
      <3> DEFINE l == Latest(MissedBy(e))
      <3>1. /\ l \in Times /\ record[e].at < l /\ l <= now /\ pc' = "catchfire"
            /\ due'.entry = e /\ due'.at = l /\ record'[e].at = l
        BY <1>6, <2>3, CatchUpTyped DEF CatchesUp, TellsMissed, RecordsAt
      <3> HIDE DEF l
      <3>2. record[e].at \in Int /\ fired[e][l] \in 0..2 /\ nextFire[e] \in Int
        BY <3>1 DEF Shape, TypeOK, Times, NoRecord, Never
      <3>3. fired[e][l] = 0 /\ l < nextFire[e]
        BY <1>b, <2>2, <3>1, <3>2 DEF FiredIsPast, Times
      <3>4. \A t \in Times : fired[e][t] > 0 => t <= record'[e].at
        BY <2>2, <3>1, <3>2 DEF FiredIsPast, Times
      <3>5. QED
        BY <2>1, <2>2, <3>1, <3>3, <3>4 DEF FiredIsPast, FiresOnce
    <2>4. CASE BeginsRecord(e) \/ LetsGo(e)
      <3>1. record'[e].at = now /\ pc' = pc /\ due' = due
        BY <2>4 DEF BeginsRecord, LetsGo, RecordsAt
      <3>2. QED
        BY <2>1, <2>2, <3>1 DEF FiredIsPast, FiresOnce
    <2>5. CASE MissedNone(e)
      BY <2>1, <2>2, <2>5 DEF MissedNone, FiredIsPast, FiresOnce
    <2>6. QED
      BY <1>6, <2>3, <2>4, <2>5, CatchUpTyped
  <1>7. CASE CatchUpFire \/ FireRecurring
    <2> DEFINE e == due.entry  t == due.at
    <2>1. /\ pc \in {"catchfire", "fire"} /\ pc' \in {"catchup", "due"} /\ "skew" \notin cuts
          /\ (pc' = "catchup" => pc = "catchfire")
          /\ Attempted(e, t) /\ UNCHANGED <<record, nextFire, now>>
      BY <1>7 DEF CatchUpFire, FireRecurring
    <2>2. /\ e \in Recurring /\ t \in Times /\ FiredIsPast /\ fired[e][t] = 0
          /\ t <= now /\ t = record[e].at /\ t < nextFire[e]
      BY <1>a, <2>1 DEF Shape, FiredIsPast
    <2>3. /\ fired'[e][t] <= fired[e][t] + 1
          /\ \A f \in Recurring, u \in Times : f # e \/ u # t => fired'[f][u] = fired[f][u]
      BY <2>1, <2>2, AttemptCounts DEF Shape
    <2> HIDE DEF e, t
    <2>4. \A f \in Recurring, u \in Times : fired'[f][u] <= 1
      BY <2>2, <2>3 DEF FiredIsPast, FiresOnce
    <2>5. \A f \in Recurring, u \in Times : fired'[f][u] > 0 =>
             u <= now /\ u <= record[f].at /\ u < nextFire[f]
      <3>1. SUFFICES ASSUME NEW f \in Recurring, NEW u \in Times, fired'[f][u] > 0
                     PROVE  u <= now /\ u <= record[f].at /\ u < nextFire[f]
        OBVIOUS
      <3>2. CASE f = e /\ u = t
        BY <2>2, <3>2 DEF Times
      <3>3. CASE f # e \/ u # t
        BY <2>1, <2>2, <2>3, <3>1, <3>3 DEF FiredIsPast
      <3>4. QED
        BY <3>2, <3>3
    <2>6. pc' = "catchup" => \A f \in Recurring : nextFire[f] > now
      BY <2>1, <2>2 DEF FiredIsPast
    <2>7. QED
      BY <2>1, <2>4, <2>5, <2>6 DEF FiredIsPast, FiresOnce
  <1>8. CASE Wake
    <2>1. /\ pc = "asleep" /\ pc' = "rename" /\ "skew" \notin cuts /\ FiredIsPast
          /\ UNCHANGED <<fired, record, now>>
          /\ \A e \in Recurring : nextFire'[e] = nextFire[e] \/ clock < nextFire'[e]
          /\ \A e \in Recurring : nextFire'[e] \in Times \union {Never}
      BY <1>8, <1>a, WakeTyped DEF Wake
    <2>2. \A e \in Recurring, t \in Times : fired[e][t] > 0 => t < nextFire'[e]
      <3>1. SUFFICES ASSUME NEW e \in Recurring, NEW t \in Times, fired[e][t] > 0
                     PROVE  t < nextFire'[e]
        OBVIOUS
      <3>2. t <= now /\ t < nextFire[e]
        BY <2>1, <3>1 DEF FiredIsPast
      <3>3. QED
        BY <1>b, <2>1, <3>2 DEF Times, Never
    <2>3. QED
      BY <2>1, <2>2 DEF FiredIsPast, FiresOnce
  <1>9. CASE FindDue
    <2>1. /\ pc = "awake" /\ pc' = "due" /\ "skew" \notin cuts /\ now' = clock
          /\ UNCHANGED <<fired, record, nextFire>> /\ FiredIsPast
      BY <1>9, <1>a DEF FindDue
    <2>2. \A t \in Times : t <= now => t <= now'
      BY <1>b, <2>1 DEF Times
    <2>3. QED
      BY <2>1, <2>2 DEF FiredIsPast, FiresOnce
  <1>10. ASSUME NEW e \in Recurring, DueRecurring(e) PROVE FiredIsPast'
    <2>0. e \in Entries
      BY DEF Entries
    <2>1. /\ pc = "due" /\ pc' = "fire" /\ "skew" \notin cuts /\ FiredIsPast
          /\ UNCHANGED <<fired, now>>
          /\ due'.entry = e /\ due'.at = nextFire[e]
      BY <1>10, <1>a DEF DueRecurring
    <2>2. /\ nextFire[e] \in Times /\ nextFire[e] <= now
          /\ nextFire'[e] \in Times \union {Never} /\ now < nextFire'[e]
          /\ record'[e].at = nextFire[e]
          /\ \A f \in Recurring : f # e => nextFire'[f] = nextFire[f] /\ record'[f] = record[f]
      <3>1. /\ nextFire[e] \in Times /\ nextFire[e] <= now
            /\ nextFire'[e] \in Times \union {Never} /\ now < nextFire'[e]
            /\ record'[e] = [at |-> nextFire[e], period |-> loaded[e]]
        BY <1>10, <2>0, DueRecurringTyped
      <3>2. /\ \A f \in Entries : f # e => nextFire'[f] = nextFire[f]
            /\ \A f \in Recurring : f # e => record'[f] = record[f]
        BY <1>10, <2>0, DueRecurringTyped
      <3>3. QED
        BY <3>1, <3>2 DEF Entries
    <2>3. \A t \in Times : fired[e][t] > 0 => t < nextFire[e]
      BY <2>1 DEF FiredIsPast
    <2>4. fired[e][nextFire[e]] = 0
      <3>1. fired[e] \in [Times -> 0..2] /\ nextFire[e] \in Times
        BY <2>2 DEF Shape, TypeOK
      <3>2. ~(fired[e][nextFire[e]] > 0)
        BY <2>2, <2>3 DEF Times
      <3>3. QED
        BY <3>1, <3>2
    <2>5. \A t \in Times : fired[e][t] > 0 => t <= record'[e].at /\ t < nextFire'[e]
      BY <1>b, <2>2, <2>3 DEF Times, Never
    <2>6. nextFire[e] < nextFire'[e]
      BY <1>b, <2>2 DEF Times, Never
    <2>7. QED
      BY <2>1, <2>2, <2>4, <2>5, <2>6 DEF FiredIsPast, FiresOnce
  <1>11. ASSUME NEW e \in Entries, DueOneShot(e) PROVE Once'
    <2>1. \A f \in Recurring : nextFire'[f] = nextFire[f]
      BY <1>11 DEF DueOneShot, Shape, TypeOK, Entries
    <2>2. /\ pc = "due" /\ pc' \in {"due", "mark"}
          /\ UNCHANGED <<fired, record, now, cuts>>
      BY <1>11 DEF DueOneShot
    <2>3. QED
      BY <2>1, <2>2 DEF Once, FiredIsPast, FiresOnce
  <1>12. QED
    BY <1>1, <1>2, <1>3, <1>4, <1>5, <1>6, <1>7, <1>8, <1>9, <1>10, <1>11
       DEF Next, DaemonStep, Once
-----------------------------------------------------------------------------
LEMMA SpentInit == Init => Spent
  BY DEF Init, Spent, RanIsSpent, OneShotOnce

LEMMA SpentStep == Shape /\ Spent /\ [Next]_vars => Spent'
  <1> SUFFICES ASSUME Shape, Spent, [Next]_vars, "mark" \notin cuts' PROVE RanIsSpent'
    BY DEF Spent
  <1> USE DEF fileVars, loopVars, historyVars
  <1>a. "mark" \in cuts \/ RanIsSpent
    BY DEF Spent
  <1>1. ASSUME NEW e \in Entries, Ask(e) \/ RunNow(e) PROVE RanIsSpent'
    BY <1>1, <1>a DEF Ask, RunNow, RanIsSpent, OneShotOnce
  <1>2. ASSUME NEW e \in Recurring, Edit(e) PROVE RanIsSpent'
    BY <1>2, <1>a DEF Edit, RanIsSpent, OneShotOnce
  <1>3. CASE \/ Tick \/ WriteRequest \/ CaughtUp \/ Drained \/ Sleep \/ Drain \/ ReadRequest
             \/ Boot \/ BeginCatchUp \/ CatchUpFire \/ FireRecurring \/ Wake \/ FindDue
             \/ UNCHANGED vars
    BY <1>3, <1>a DEF Tick, WriteRequest, CaughtUp, Drained, Sleep, Drain, ReadRequest, Boot,
       BeginCatchUp, CatchUpFire, FireRecurring, Wake, FindDue, vars, RanIsSpent, OneShotOnce
  <1>4. ASSUME NEW e \in Recurring, CatchUpEntry(e) \/ DueRecurring(e) PROVE RanIsSpent'
    <2>1. pc # "mark" /\ UNCHANGED <<ran, spent>> /\ cuts \subseteq cuts'
      BY <1>4 DEF CatchUpEntry, DueRecurring
    <2>2. QED
      BY <2>1, <1>a DEF RanIsSpent, OneShotOnce
  <1>5. ASSUME NEW e \in Entries, DueOneShot(e) PROVE RanIsSpent'
    <2>1. /\ e \in OneShots /\ pc = "due" /\ UNCHANGED <<spent, cuts>>
          /\ \/ UNCHANGED ran
             \/ /\ e \notin spent /\ pc' = "mark" /\ due' = [entry |-> e, at |-> AtTime]
                /\ ran' = [ran EXCEPT ![e] = IF @ = 2 THEN 2 ELSE @ + 1]
      BY <1>5 DEF DueOneShot
    <2>2. RanIsSpent
      BY <1>a, <2>1
    <2>3. CASE UNCHANGED ran
      BY <2>1, <2>2, <2>3 DEF RanIsSpent, OneShotOnce
    <2>4. CASE e \notin spent /\ pc' = "mark" /\ due'.entry = e
               /\ ran' = [ran EXCEPT ![e] = IF @ = 2 THEN 2 ELSE @ + 1]
      <3>1. ran[e] = 0
        BY <2>1, <2>2, <2>4 DEF RanIsSpent, Shape, TypeOK
      <3>2. ran'[e] = 1 /\ \A f \in OneShots : f # e => ran'[f] = ran[f]
        BY <2>1, <2>4, <3>1 DEF Shape, TypeOK
      <3>3. QED
        BY <2>1, <2>2, <2>4, <3>2 DEF RanIsSpent, OneShotOnce
    <2>5. QED
      BY <2>1, <2>3, <2>4
  <1>6. CASE MarkOneShot
    BY <1>6, <1>a DEF MarkOneShot, RanIsSpent, OneShotOnce
  <1>7. CASE Kill
    BY <1>7, <1>a DEF Kill, RanIsSpent, OneShotOnce
  <1>8. QED
    BY <1>1, <1>2, <1>3, <1>4, <1>5, <1>6, <1>7 DEF Next, DaemonStep
-----------------------------------------------------------------------------
LEMMA KeptInit == Init => Kept
  BY DEF Init, Kept, AskedIsRead, RequestKeptUnlessCut, Entries

\* Steps that leave the requests where they are.
LEMMA KeptUntouched ==
  ASSUME Kept, UNCHANGED <<owed, trigger, draining, asking>>, cuts \subseteq cuts',
         \/ UNCHANGED <<pc, todo>>
         \/ pc # "runnow"
         \/ "drain" \in cuts'
         \/ todo = {}
  PROVE  Kept'
  BY DEF Kept, AskedIsRead, RequestKeptUnlessCut

LEMMA KeptStep == Shape /\ Kept /\ [Next]_vars => Kept'
  <1> SUFFICES ASSUME Shape, Kept, [Next]_vars PROVE Kept'
    OBVIOUS
  <1> USE DEF fileVars, loopVars, historyVars
  <1>1. CASE \/ Tick \/ CaughtUp \/ Drained \/ Sleep \/ Boot \/ BeginCatchUp \/ CatchUpFire
             \/ FireRecurring \/ Wake \/ FindDue \/ MarkOneShot \/ UNCHANGED vars
    BY <1>1, KeptUntouched DEF Tick, CaughtUp, Drained, Sleep, Boot, BeginCatchUp, CatchUpFire,
       FireRecurring, Wake, FindDue, MarkOneShot, vars
  <1>2. ASSUME NEW e \in Recurring, CatchUpEntry(e) \/ DueRecurring(e) \/ Edit(e) PROVE Kept'
    BY <1>2, KeptUntouched DEF CatchUpEntry, DueRecurring, Edit
  <1>3. ASSUME NEW e \in Entries, DueOneShot(e) PROVE Kept'
    BY <1>3, KeptUntouched DEF DueOneShot
  <1>4. CASE Kill
    BY <1>4, KeptUntouched DEF Kill
  <1>5. ASSUME NEW e \in Entries, Ask(e) PROVE Kept'
    <2>1. /\ asking = NoFile /\ asking' = {e} \union (IF trigger = NoFile THEN {} ELSE trigger)
          /\ owed' = owed \union {e} /\ UNCHANGED <<trigger, draining, pc, todo, cuts>>
      BY <1>5 DEF Ask
    <2>2. NoFile \intersect Entries = {}
      BY DEF NoFile, Entries
    <2>3. \A f \in owed' : f = e \/ f \in owed
      BY <2>1
    <2>4. QED
      BY <2>1, <2>2, <2>3 DEF Kept, AskedIsRead, RequestKeptUnlessCut, Shape, TypeOK
  <1>6. CASE WriteRequest
    <2>1. NoFile \intersect Entries = {} /\ owed \subseteq Entries
      BY DEF NoFile, Entries, Shape, TypeOK
    <2>2. \A f \in owed : f \in trigger => f \in asking
      BY <1>6, <2>1 DEF WriteRequest, Kept, AskedIsRead
    <2>3. QED
      BY <1>6, <2>1, <2>2 DEF WriteRequest, Kept, AskedIsRead, RequestKeptUnlessCut
  <1>7. CASE Drain
    <2>1. NoFile \intersect Entries = {} /\ owed \subseteq Entries
      BY DEF NoFile, Entries, Shape, TypeOK
    <2>2. pc = "rename" /\ UNCHANGED <<owed, asking, todo>> /\ cuts \subseteq cuts'
          /\ (trigger' = trigger \/ trigger' = NoFile)
      BY <1>7 DEF Drain
    <2>3. AskedIsRead'
      BY <2>2 DEF Kept, AskedIsRead
    <2>4. \/ "replaced" \in cuts'
          \/ \A f \in owed : f \in trigger \union draining => f \in trigger' \union draining'
      BY <1>7, <2>1 DEF Drain
    <2>5. RequestKeptUnlessCut'
      BY <2>2, <2>4 DEF Kept, RequestKeptUnlessCut
    <2>6. QED
      BY <2>3, <2>5 DEF Kept
  <1>8. CASE ReadRequest
    BY <1>8 DEF ReadRequest, Kept, AskedIsRead, RequestKeptUnlessCut
  <1>9. ASSUME NEW e \in Entries, RunNow(e) PROVE Kept'
    BY <1>9 DEF RunNow, Kept, AskedIsRead, RequestKeptUnlessCut
  <1>10. QED
    BY <1>1, <1>2, <1>3, <1>4, <1>5, <1>6, <1>7, <1>8, <1>9 DEF Next, DaemonStep
-----------------------------------------------------------------------------
Excused == cuts \intersect {"fire", "oversleep", "edit"} # {}

LEMMA ToldInit == Init => Told
  BY DEF Init, Told, Unedited, NoDueBetween, CaughtUpOn, DueIsTold

\* Steps that neither plan, record nor tell, in a life that goes on or has ended.
LEMMA ToldKept ==
  ASSUME Told, UNCHANGED <<config, loaded, record, nextFire, since, told, fired, now>>,
         cuts \subseteq cuts',
         \/ UNCHANGED <<pc, due, todo>>
         \/ pc' = "down" /\ (pc \in {"fire", "catchfire"} => "fire" \in cuts')
         \/ /\ pc \notin {"down", "booted", "catchfire", "fire"}
            /\ pc' \notin {"down", "booted", "catchup", "catchfire", "fire"}
            /\ pc = "catchup" => todo = {}
  PROVE  Told'
  <1> SUFFICES ASSUME ~Excused' PROVE Unedited' /\ NoDueBetween' /\ DueIsTold'
    BY DEF Told, Excused
  <1>1. Unedited /\ NoDueBetween /\ DueIsTold
    BY DEF Told, Excused
  <1>2. \A e \in Recurring : Due(e)' = Due(e) /\ (CaughtUpOn(e)' => CaughtUpOn(e))
    BY DEF Due, CaughtUpOn
  <1>3. NoDueBetween'
    BY <1>1, <1>2 DEF NoDueBetween
  <1>4. DueIsTold'
    BY <1>1, <1>2 DEF DueIsTold, Excused
  <1>5. QED
    BY <1>1, <1>3, <1>4 DEF Unedited

LEMMA ToldStep == Shape /\ Told /\ [Next]_vars => Told'
  <1> SUFFICES ASSUME Shape, Told, [Next]_vars, ~Excused'
               PROVE  Unedited' /\ NoDueBetween' /\ DueIsTold'
    BY DEF Told, Excused
  <1> USE DEF fileVars, loopVars, historyVars
  <1>a. Excused \/ (Unedited /\ NoDueBetween /\ DueIsTold)
    BY DEF Told, Excused
  <1>b. now \in Nat /\ clock \in Nat /\ now <= clock
    BY DEF Shape, TypeOK
  <1>1. CASE Tick \/ WriteRequest \/ CaughtUp \/ Drained \/ Sleep \/ Drain \/ ReadRequest
             \/ MarkOneShot \/ UNCHANGED vars
    BY <1>1, ToldKept DEF Tick, WriteRequest, CaughtUp, Drained, Sleep, Drain, ReadRequest,
       MarkOneShot, vars, Told, Excused
  <1>2. CASE Kill
    BY <1>2, ToldKept DEF Kill, Told, Excused
  <1>3. ASSUME NEW e \in Entries, Ask(e) \/ RunNow(e)
        PROVE  Unedited' /\ NoDueBetween' /\ DueIsTold'
    BY <1>3, ToldKept DEF Ask, RunNow, Told, Excused
  <1>4. ASSUME NEW e \in Recurring, Edit(e) PROVE FALSE
    BY <1>4 DEF Edit, Excused
  <1>5. CASE Boot
    <2>1. /\ Unedited /\ DueIsTold /\ UNCHANGED <<config, loaded, record, since, told, fired>>
          /\ pc = "down" /\ pc' = "booted" /\ now' = clock
      BY <1>5, <1>a DEF Boot, Excused, Unedited
    <2>2. \A e \in Recurring : \A t \in Due(e)' : ~(now' < t /\ t < nextFire'[e])
      <3>1. SUFFICES ASSUME NEW e \in Recurring, NEW t \in Times, t % config[e] = 0, clock < t
                     PROVE  ~(t < nextFire'[e])
        BY <2>1 DEF Due, Unedited
      <3>2. config[e] \in Periods /\ clock \in 0..MaxClock
        BY DEF Shape, TypeOK
      <3>3. nextFire'[e] = Capped(NextAt(config[e], clock)) /\ nextFire'[e] \in Times \union {Never}
        BY <1>5, BootTyped
      <3>4. nextFire'[e] <= t
        BY <3>1, <3>2, <3>3, PlannedIsNext
      <3>5. QED
        BY <3>3, <3>4 DEF Times, Never
    <2>3. NoDueBetween'
      BY <2>1, <2>2 DEF NoDueBetween, CaughtUpOn
    <2>4. DueIsTold'
      BY <2>1 DEF DueIsTold, Due
    <2>5. QED
      BY <2>1, <2>3, <2>4 DEF Unedited
  <1>6. CASE BeginCatchUp
    <2>1. /\ Unedited /\ NoDueBetween /\ DueIsTold
          /\ UNCHANGED <<config, loaded, record, since, told, fired, nextFire>>
          /\ pc = "booted" /\ pc' = "catchup" /\ now' = clock /\ todo' = Recurring
      BY <1>6, <1>a DEF BeginCatchUp, Excused
    <2>2. \A e \in Recurring : Due(e)' = Due(e) /\ Due(e) \subseteq Times
      BY <2>1 DEF Due
    <2>3. \A e \in Recurring : \A t \in Due(e)' : ~(now' < t /\ t < nextFire'[e])
      BY <1>b, <2>1, <2>2 DEF NoDueBetween, Times
    <2>4. NoDueBetween' /\ DueIsTold'
      BY <2>1, <2>2, <2>3 DEF NoDueBetween, DueIsTold, CaughtUpOn
    <2>5. QED
      BY <2>1, <2>4 DEF Unedited
  <1>7. CASE CatchUpFire \/ FireRecurring
    <2>1. /\ Unedited /\ NoDueBetween /\ DueIsTold
          /\ UNCHANGED <<config, loaded, record, since, told, nextFire, now, todo>>
          /\ pc \in {"catchfire", "fire"}
          /\ pc' = (IF pc = "catchfire" THEN "catchup" ELSE "due")
          /\ Attempted(due.entry, due.at)
      BY <1>7, <1>a DEF CatchUpFire, FireRecurring, Excused
    <2>2. \A e \in Recurring : Due(e)' = Due(e) /\ Due(e) \subseteq Times
                               /\ CaughtUpOn(e)' = CaughtUpOn(e)
      BY <2>1 DEF Due, CaughtUpOn
    <2>3. due.entry \in Recurring /\ due.at \in Times
      BY <2>1 DEF Shape
    <2>4. /\ fired'[due.entry][due.at] > 0
          /\ \A f \in Recurring, u \in Times :
               f # due.entry \/ u # due.at => fired'[f][u] = fired[f][u]
      BY <2>1, <2>3, AttemptCounts DEF Shape
    <2>5. \A f \in Recurring, u \in Times :
            fired[f][u] > 0 \/ due = [entry |-> f, at |-> u] => fired'[f][u] > 0
      <3>1. SUFFICES ASSUME NEW f \in Recurring, NEW u \in Times,
                            fired[f][u] > 0 \/ due = [entry |-> f, at |-> u]
                     PROVE  fired'[f][u] > 0
        OBVIOUS
      <3>2. CASE f = due.entry /\ u = due.at
        BY <2>4, <3>2
      <3>3. CASE f # due.entry \/ u # due.at
        BY <2>4, <3>1, <3>3
      <3>4. QED
        BY <3>2, <3>3
    <2>6. DueIsTold'
      BY <2>1, <2>2, <2>5 DEF DueIsTold
    <2>7. NoDueBetween'
      BY <2>1, <2>2 DEF NoDueBetween
    <2>8. QED
      BY <2>1, <2>6, <2>7 DEF Unedited
  <1>8. CASE Wake
    <2>1. /\ Unedited /\ NoDueBetween /\ DueIsTold
          /\ UNCHANGED <<config, loaded, record, since, told, fired, now>>
          /\ pc = "asleep" /\ pc' = "rename"
          /\ \A e \in Recurring : nextFire'[e] = nextFire[e]
      BY <1>8, <1>a, WakeTyped DEF Wake, Excused, Unedited
    <2>2. \A e \in Recurring : Due(e)' = Due(e) /\ CaughtUpOn(e)
      BY <2>1 DEF Due, CaughtUpOn
    <2>3. NoDueBetween' /\ DueIsTold'
      BY <2>1, <2>2 DEF NoDueBetween, DueIsTold
    <2>4. QED
      BY <2>1, <2>3 DEF Unedited
  <1>9. CASE FindDue
    <2>1. /\ Unedited /\ NoDueBetween /\ DueIsTold
          /\ UNCHANGED <<config, loaded, record, since, told, fired, nextFire>>
          /\ pc = "awake" /\ pc' = "due"
      BY <1>9, <1>a DEF FindDue, Excused
    <2>2. \A e \in Recurring : Due(e)' = Due(e) /\ CaughtUpOn(e)
      BY <2>1 DEF Due, CaughtUpOn
    <2>3. NoDueBetween' /\ DueIsTold'
      BY <2>1, <2>2 DEF NoDueBetween, DueIsTold
    <2>4. QED
      BY <2>1, <2>3 DEF Unedited
  <1>10. ASSUME NEW e \in Entries, DueOneShot(e)
         PROVE  Unedited' /\ NoDueBetween' /\ DueIsTold'
    <2>1. /\ Unedited /\ NoDueBetween /\ DueIsTold
          /\ UNCHANGED <<config, loaded, record, since, told, fired, now>>
          /\ pc = "due" /\ pc' \in {"due", "mark"}
      BY <1>10, <1>a DEF DueOneShot, Excused
    <2>2. \A f \in Recurring : nextFire'[f] = nextFire[f]
      BY <1>10 DEF DueOneShot, Shape, TypeOK, Entries
    <2>3. \A f \in Recurring : Due(f)' = Due(f) /\ CaughtUpOn(f)
      BY <2>1 DEF Due, CaughtUpOn
    <2>4. NoDueBetween' /\ DueIsTold'
      BY <2>1, <2>2, <2>3 DEF NoDueBetween, DueIsTold
    <2>5. QED
      BY <2>1, <2>4 DEF Unedited
  <1>11. ASSUME NEW e \in Recurring, DueRecurring(e)
         PROVE  Unedited' /\ NoDueBetween' /\ DueIsTold'
    <2>0. e \in Entries
      BY DEF Entries
    <2>1. /\ Unedited /\ NoDueBetween /\ DueIsTold /\ Missed(loaded[e], nextFire[e], now) = {}
          /\ UNCHANGED <<config, loaded, since, told, fired, now>>
          /\ pc = "due" /\ pc' = "fire" /\ due' = [entry |-> e, at |-> nextFire[e]]
      BY <1>11, <1>a DEF DueRecurring, Excused
    <2>2. /\ nextFire[e] \in Times /\ nextFire[e] <= now
          /\ record'[e] = [at |-> nextFire[e], period |-> loaded[e]] /\ record'[e] # NoRecord
          /\ nextFire'[e] \in Times \union {Never}
          /\ \A m \in Times : m % loaded[e] = 0 /\ now < m => nextFire'[e] <= m
      BY <1>11, <2>0, DueRecurringTyped
    <2>3. \A f \in Recurring : f # e => nextFire'[f] = nextFire[f] /\ record'[f] = record[f]
      <3>1. \A f \in Entries : f # e => nextFire'[f] = nextFire[f]
        BY <1>11, <2>0, DueRecurringTyped
      <3>2. \A f \in Recurring : f # e => record'[f] = record[f]
        BY <1>11, <2>0, DueRecurringTyped
      <3>3. QED
        BY <3>1, <3>2 DEF Entries
    <2>4. \A f \in Recurring : Due(f)' = Due(f) /\ Due(f) \subseteq Times /\ CaughtUpOn(f)
      BY <2>1 DEF Due, CaughtUpOn
    <2>5. \A t \in Due(e) : ~(nextFire[e] < t /\ t < nextFire'[e])
      <3>1. SUFFICES ASSUME NEW t \in Times, t % loaded[e] = 0, nextFire[e] < t
                     PROVE  ~(t < nextFire'[e])
        BY DEF Due
      <3>2. now < t
        <4>1. t \notin Missed(loaded[e], nextFire[e], now)
          BY <2>1
        <4>2. QED
          BY <1>b, <3>1, <4>1 DEF Missed, Times
      <3>3. nextFire'[e] <= t
        BY <2>2, <3>1, <3>2
      <3>4. QED
        BY <2>2, <3>3 DEF Times, Never
    <2>6. NoDueBetween'
      <3>1. SUFFICES ASSUME NEW f \in Recurring
                     PROVE  record'[f] # NoRecord
                            /\ \A t \in Due(f) : ~(record'[f].at < t /\ t < nextFire'[f])
        BY <2>1, <2>4 DEF NoDueBetween
      <3>2. CASE f = e
        BY <2>2, <2>5, <3>2
      <3>3. CASE f # e
        BY <2>1, <2>3, <2>4, <3>3 DEF NoDueBetween
      <3>4. QED
        BY <3>2, <3>3
    <2>7. DueIsTold'
      <3>1. SUFFICES ASSUME NEW f \in Recurring, record'[f] # NoRecord, NEW t \in Due(f),
                            since[f] < t, t <= record'[f].at
                     PROVE  fired[f][t] > 0 \/ t \in told[f] \/ due' = [entry |-> f, at |-> t]
        BY <2>1, <2>4 DEF DueIsTold
      <3>2. CASE f # e
        BY <2>1, <2>3, <3>1, <3>2 DEF DueIsTold
      <3>3. CASE f = e
        <4>1. record[e] # NoRecord /\ ~(record[e].at < t /\ t < nextFire[e])
          BY <2>1, <2>4, <3>1, <3>3 DEF NoDueBetween
        <4>2. t \in Nat /\ t <= nextFire[e] /\ record[e].at \in Int
          BY <2>2, <2>4, <3>1, <3>3 DEF Times, Shape, TypeOK, NoRecord
        <4>3. t <= record[e].at \/ t = nextFire[e]
          BY <2>2, <4>1, <4>2 DEF Times
        <4>4. QED
          BY <2>1, <3>1, <3>3, <4>1, <4>3 DEF DueIsTold
      <3>4. QED
        BY <3>2, <3>3
    <2>8. Unedited'
      BY <2>1, <2>2, <2>3 DEF Unedited
    <2>9. QED
      BY <2>6, <2>7, <2>8
  <1>12. ASSUME NEW e \in Recurring, CatchUpEntry(e)
         PROVE  Unedited' /\ NoDueBetween' /\ DueIsTold'
    <2>1. /\ Unedited /\ NoDueBetween /\ DueIsTold
          /\ UNCHANGED <<config, loaded, nextFire, fired, now>>
          /\ pc = "catchup" /\ e \in todo /\ todo' = todo \ {e}
          /\ pc' \in {"catchup", "catchfire"}
      BY <1>12, <1>a, CatchUpTyped
         DEF CatchUpEntry, Excused, BeginsRecord, MissedNone, CatchesUp, LetsGo
    <2>2. \A f \in Recurring : f # e =>
            record'[f] = record[f] /\ since'[f] = since[f] /\ told'[f] = told[f]
      BY <1>12, CatchUpTyped
    <2>3. BeginsRecord(e) \/ MissedNone(e) \/ CatchesUp(e) \/ LetsGo(e)
      BY <1>12, CatchUpTyped
    <2>4. \A f \in Recurring : /\ Due(f)' = Due(f) /\ Due(f) \subseteq Times
                               /\ f # e => CaughtUpOn(f)' = CaughtUpOn(f)
      BY <2>1 DEF Due, CaughtUpOn
    <2>5. \A t \in Due(e) : ~(now < t /\ t < nextFire[e])
      BY <2>1 DEF NoDueBetween
    <2>6. ~MissedNone(e) => record'[e] # NoRecord
      BY <1>12, CatchUpTyped
    <2>7. /\ record[e].at \in Int /\ (record[e] # NoRecord => KnownRecord(e))
          /\ (KnownRecord(e) => record[e] # NoRecord)
      BY <2>1 DEF Unedited, KnownRecord, Shape, TypeOK, Times, NoRecord
    <2>8. MissedBy(e) = {t \in Due(e) : record[e].at < t /\ t <= now}
      BY DEF MissedBy, Missed, Due
    <2>9. MissedBy(e) # {} =>
            /\ Latest(MissedBy(e)) \in Times /\ record[e].at < Latest(MissedBy(e))
            /\ Latest(MissedBy(e)) <= now /\ \A m \in MissedBy(e) : m <= Latest(MissedBy(e))
      BY <1>12, CatchUpTyped
    <2>10. /\ record'[e] # NoRecord /\ record'[e].period = loaded[e]
           /\ \A t \in Due(e) : ~(record'[e].at < t /\ t < nextFire[e])
           /\ \A t \in Due(e) : since'[e] < t /\ t <= record'[e].at =>
                fired[e][t] > 0 \/ t \in told'[e]
      <3>1. CASE BeginsRecord(e)
        <4>1. record'[e].at = now /\ record'[e].period = loaded[e] /\ since'[e] = now
          BY <3>1 DEF BeginsRecord, RecordsAt
        <4>2. \A t \in Due(e) : ~(now < t /\ t <= now)
          BY <1>b, <2>4 DEF Times
        <4>3. ~MissedNone(e)
          BY <3>1 DEF BeginsRecord, MissedNone
        <4>4. QED
          BY <2>5, <2>6, <4>1, <4>2, <4>3
      <3>2. CASE MissedNone(e)
        <4>1. KnownRecord(e) /\ MissedBy(e) = {} /\ UNCHANGED <<record, told, since, pc>>
          BY <3>2 DEF MissedNone
        <4>2. record[e] # NoRecord /\ record[e].period = loaded[e]
          BY <2>7, <4>1 DEF KnownRecord
        <4>3. \A t \in Due(e) : ~(record[e].at < t /\ t < nextFire[e])
          BY <1>b, <2>4, <2>5, <2>7, <2>8, <4>1 DEF Times
        <4>4. QED
          BY <2>1, <4>1, <4>2, <4>3 DEF DueIsTold
      <3>3. CASE CatchesUp(e) \/ LetsGo(e)
        <4>1. /\ KnownRecord(e) /\ MissedBy(e) # {} /\ since' = since
              /\ told'[e] = told[e] \union MissedBy(e) /\ record'[e].period = loaded[e]
              /\ record'[e].at \in {now, Latest(MissedBy(e))}
          BY <3>3 DEF CatchesUp, LetsGo, TellsMissed, RecordsAt
        <4>2. \A t \in Due(e) : t <= record'[e].at => t <= record[e].at \/ t \in MissedBy(e)
          BY <1>b, <2>4, <2>7, <2>8, <2>9, <4>1 DEF Times
        <4>3. \A t \in Due(e) : since'[e] < t /\ t <= record'[e].at =>
                fired[e][t] > 0 \/ t \in told'[e]
          BY <2>1, <2>7, <4>1, <4>2 DEF DueIsTold
        <4>4. \A t \in Due(e) : record'[e].at < t => now < t
          <5>1. SUFFICES ASSUME NEW t \in Due(e), record'[e].at < t, t <= now PROVE FALSE
            BY <1>b, <2>4 DEF Times
          <5>2. t \in MissedBy(e) \/ t <= record[e].at
            BY <2>4, <2>7, <2>8, <5>1 DEF Times
          <5>3. t <= Latest(MissedBy(e))
            BY <2>4, <2>7, <2>9, <4>1, <5>2 DEF Times
          <5>4. QED
            BY <1>b, <2>4, <2>9, <4>1, <5>1, <5>3 DEF Times
        <4>5. ~MissedNone(e)
          BY <4>1 DEF MissedNone
        <4>6. QED
          BY <2>5, <2>6, <4>1, <4>3, <4>4, <4>5
      <3>4. QED
        BY <2>3, <3>1, <3>2, <3>3
    <2>11. NoDueBetween'
      <3>1. \A f \in Recurring : CaughtUpOn(f)' =>
              record'[f] # NoRecord /\ \A t \in Due(f) : ~(record'[f].at < t /\ t < nextFire[f])
        <4>1. SUFFICES ASSUME NEW f \in Recurring, CaughtUpOn(f)', f # e
                       PROVE  record'[f] # NoRecord
                              /\ \A t \in Due(f) : ~(record'[f].at < t /\ t < nextFire[f])
          BY <2>10
        <4>2. QED
          BY <2>1, <2>2, <2>4, <4>1 DEF NoDueBetween
      <3>2. QED
        BY <2>1, <2>4, <3>1 DEF NoDueBetween
    <2>12. DueIsTold'
      <3>1. SUFFICES ASSUME NEW f \in Recurring, record'[f] # NoRecord, NEW t \in Due(f),
                            since'[f] < t, t <= record'[f].at
                     PROVE  fired[f][t] > 0 \/ t \in told'[f]
        BY <2>1, <2>4 DEF DueIsTold
      <3>2. CASE f = e
        BY <2>10, <3>1, <3>2
      <3>3. CASE f # e
        BY <2>1, <2>2, <3>1, <3>3 DEF DueIsTold
      <3>4. QED
        BY <3>2, <3>3
    <2>13. Unedited'
      BY <2>1, <2>2, <2>10 DEF Unedited
    <2>14. QED
      BY <2>11, <2>12, <2>13
  <1>13. QED
    BY <1>1, <1>2, <1>3, <1>4, <1>5, <1>6, <1>7, <1>8, <1>9, <1>10, <1>11, <1>12
       DEF Next, DaemonStep
-----------------------------------------------------------------------------
LEMMA IInvHolds == Spec => []IInv
  <1>1. Init => IInv
    BY ShapeInit, OnceInit, SpentInit, KeptInit, ToldInit DEF IInv
  <1>2. IInv /\ [Next]_vars => IInv'
    BY ShapeStep, OnceStep, SpentStep, KeptStep, ToldStep DEF IInv
  <1>3. QED
    BY <1>1, <1>2, PTL DEF Spec

\* Every variable keeps its type, whatever is restarted, edited and asked for.
THEOREM ScheduleTypeCorrect == Spec => []TypeOK
  <1>1. IInv => TypeOK
    BY DEF IInv, Shape
  <1>2. QED
    BY <1>1, IInvHolds, PTL

\* _catch_up_missed and CronEntry.at: a scheduled time and a one-shot fire once, but for a
\* skew in a start and a death between a one-shot's fire and its record.
THEOREM FiresAtMostOnce == Spec => []FiresOnceUnlessCut
  <1>1. IInv => FiresOnceUnlessCut
    BY DEF IInv, Once, Spent, FiredIsPast, RanIsSpent, FiresOnceUnlessCut, FiresOnceUnlessSkewed,
       OneShotOnceUnlessCut
  <1>2. QED
    BY <1>1, IInvHolds, PTL

\* _catch_up_missed and _drain_triggers: a due time that the record has moved past was
\* attempted or told, and a request not yet fired is in a file or in hand, but for the
\* deaths and the oversleeping that are named.
THEOREM NothingDueVanishes == Spec => []NothingOwedVanishes
  <1>1. IInv => NothingVanishes
    <2> SUFFICES ASSUME IInv, cuts \intersect {"fire", "oversleep", "edit"} = {},
                        NEW e \in Recurring, NEW t \in Times, record[e] # NoRecord,
                        t % loaded[e] = 0, since[e] < t, t <= record[e].at,
                        pc \in {"asleep", "down"}
                 PROVE  fired[e][t] > 0 \/ t \in told[e]
      BY DEF NothingVanishes
    <2>1. DueIsTold /\ t \in Due(e)
      BY DEF IInv, Told, Due
    <2>2. QED
      BY <2>1 DEF DueIsTold
  <1>2. IInv => RequestKeptUnlessCut
    BY DEF IInv, Kept
  <1>3. QED
    BY <1>1, <1>2, IInvHolds, PTL DEF NothingOwedVanishes
=============================================================================
