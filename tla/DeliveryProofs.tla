--------------------------- MODULE DeliveryProofs ---------------------------
(***************************************************************************)
(* What a person is shown follows what happened, for every value of the    *)
(* constants: the alerts of failed jobs; the reactions on a message, from  *)
(* its queueing to its answer; and the narration of a turn, in order, once *)
(* and above its reply.  Two recursive functions are about sequences of    *)
(* any length: GoesOnForever is the induction their properties rest on.    *)
(***************************************************************************)
EXTENDS FailureAlerts, SlackMarks, TurnProgress, WellFoundedInduction, SequenceTheorems,
        FiniteSetTheorems, TLAPS

-----------------------------------------------------------------------------
(* FailureAlerts.  Two alerts that did not cross were on their way one     *)
(* after the other, so the later one read the window of the earlier; the   *)
(* invariant says this of alerts, of which the state does not keep the     *)
(* order.                                                                  *)

\* Alerts of this life, and those of them that began beside no other.
Begun(f) == f \in Failures /\ alertAt[f] # 0 /\ bornIn[f] = alertLife
Over(f) == Begun(f) /\ alertAt[f] = Sinks + 1
Uncrossed(f) == Begun(f) /\ f \notin crossed
Accepted(f) == \E s \in 1..Sinks : [failure |-> f, sink |-> s] \in shown

\* A sink has taken an alert, or refused it, once the alert is past it.
Progress ==
    /\ \A f \in Failures : alertAt[f] = 0 <=> readAt[f] = 0
    /\ \A f \in Failures : OnItsWay(f) => bornIn[f] = alertLife
    /\ \A f \in Failures : bornIn[f] <= alertLife /\ readAt[f] <= alertHour
    /\ \A f \in Failures : bornIn[f] = 0 <=> alertAt[f] = 0
    /\ repeats \cup crossed \subseteq {f \in Failures : alertAt[f] # 0}
    /\ \A f \in Failures, s \in 1..Sinks :
         /\ [failure |-> f, sink |-> s] \in shown => s < alertAt[f] /\ s \notin refused[f]
         /\ s \in refused[f] => s < alertAt[f]
         /\ OnItsWay(f) /\ f \notin repeats /\ s < alertAt[f] =>
              s \in refused[f] \/ [failure |-> f, sink |-> s] \in shown

\* A sink that took an alert in this life knows a thread to reply in.
ThreadsKnown ==
    \A f \in Failures, s \in 1..Sinks :
        Begun(f) /\ [failure |-> f, sink |-> s] \in shown => alertThread[s]

\* Of two alerts on their way the later one crossed the other; and an alert that
\* crossed none read the clock before whatever is on its way.
Crossings ==
    /\ \A f, g \in Failures : OnItsWay(f) /\ OnItsWay(g) /\ f # g => {f, g} \cap crossed # {}
    /\ \A f, g \in Failures : Uncrossed(f) /\ OnItsWay(g) => readAt[f] <= readAt[g]

\* The window runs from the last of the alerts that crossed none, or later; and a repeat
\* was told within a window that still runs from then or later.
WindowKept ==
    /\ lastAlerted <= alertHour
    /\ \A f \in Failures :
         Uncrossed(f) /\ Over(f) /\ f \notin repeats /\ Accepted(f) => lastAlerted >= readAt[f]
    /\ \A f \in Failures :
         Uncrossed(f) /\ f \in repeats =>
             lastAlerted # 0 /\ readAt[f] < lastAlerted + AlertWindow
    /\ repeats # {} => AlertWindow > 0

\* f comes before g within a window, and neither crossed another.
Near(f, g) ==
    /\ Uncrossed(f) /\ Uncrossed(g) /\ f # g /\ f \notin repeats
    /\ readAt[f] <= readAt[g] /\ readAt[g] < readAt[f] + AlertWindow

\* Of two such alerts, either g was over before f began, at the same time, and no sink had
\* taken it; or f was over when g began, and g is a repeat.
OneIsFull ==
    /\ \A f, g \in Failures :
         Near(f, g) /\ OnItsWay(f) => Over(g) /\ ~Accepted(g)
    /\ \A f, g \in Failures :
         Near(f, g) /\ Over(f) /\ Accepted(f) =>
             \/ Over(g) /\ ~Accepted(g)
             \/ /\ g \in repeats
                /\ \A s \in 1..Sinks : [failure |-> f, sink |-> s] \in shown
                                       => [failure |-> g, sink |-> s] \notin shown

AlertsInv ==
    /\ AlertsTypeOK /\ Progress /\ ThreadsKnown /\ Crossings /\ WindowKept /\ OneIsFull
    /\ AlertsAsTold

-----------------------------------------------------------------------------
(* What the steps do, alert by alert and sink by sink.                     *)

\* An alert begins: it is a repeat inside the window, and crosses whatever is on its way.
Begins(h) ==
    /\ h \in Failures /\ alertAt[h] = 0 /\ h \notin repeats /\ h \notin crossed
    /\ \A g \in Failures :
         /\ alertAt'[g] = IF g = h THEN 1 ELSE alertAt[g]
         /\ readAt'[g] = IF g = h THEN alertHour ELSE readAt[g]
         /\ bornIn'[g] = IF g = h THEN alertLife ELSE bornIn[g]
         /\ g # h => (g \in repeats' <=> g \in repeats) /\ (g \in crossed' <=> g \in crossed)
    /\ h \in repeats' <=> CoolingOff
    /\ h \in crossed' <=> \E g \in Failures : OnItsWay(g)
    /\ repeats' \subseteq repeats \cup {h} /\ crossed' \subseteq crossed \cup {h}
    /\ UNCHANGED <<alertHour, lastAlerted, alertThread, refused, alertLife, shown>>

\* A sink answers, and took the alert, as a reply or in full, or raised.
AlertMoves(h) ==
    /\ h \in Failures /\ alertAt[h] \in 1..Sinks
    /\ \A g \in Failures :
         /\ alertAt'[g] = IF g = h THEN alertAt[h] + 1 ELSE alertAt[g]
         /\ g # h => refused'[g] = refused[g]
         /\ \A s \in 1..Sinks : g # h \/ s # alertAt[h] =>
              ([failure |-> g, sink |-> s] \in shown' <=> [failure |-> g, sink |-> s] \in shown)
    /\ refused'[h] \subseteq 1..Sinks
    /\ \A s \in 1..Sinks : s # alertAt[h] => (s \in refused'[h] <=> s \in refused[h])
    /\ \A s \in 1..Sinks : alertThread[s] => alertThread'[s]
    /\ [failure |-> h, sink |-> alertAt[h]] \in shown' =>
         /\ alertAt[h] \notin refused'[h] /\ alertThread'[alertAt[h]]
         /\ h \notin repeats \/ ~alertThread[alertAt[h]]
    /\ h \notin repeats =>
         alertAt[h] \in refused'[h] \/ [failure |-> h, sink |-> alertAt[h]] \in shown'
    /\ lastAlerted' = IF alertAt[h] < Sinks THEN lastAlerted
                      ELSE Records(h, Cardinality(refused'[h]) = Sinks)
    /\ UNCHANGED <<alertHour, readAt, repeats, alertLife, bornIn, crossed>>

LEMMA BeginsSo ==
  ASSUME AlertsTypeOK, Progress, NEW h \in Failures, BeginAlert(h) PROVE Begins(h)
  BY DEF AlertsTypeOK, Progress, BeginAlert, Begins

LEMMA MovesSo ==
  ASSUME AlertsTypeOK, Progress, NEW h \in Failures, SinkPosts(h) \/ SinkRaises(h)
  PROVE  AlertMoves(h)
  <1>1. alertAt[h] \in 1..Sinks
    BY DEF SinkPosts, SinkRaises, OnItsWay
  <1>2. [failure |-> h, sink |-> alertAt[h]] \notin shown /\ alertAt[h] \notin refused[h]
    BY <1>1 DEF Progress, AlertsTypeOK
  <1>3. /\ Proceed(h, refused'[h]) /\ refused'[h] \subseteq 1..Sinks
        /\ \A s \in 1..Sinks : s # alertAt[h] => (s \in refused'[h] <=> s \in refused[h])
        /\ \A s \in 1..Sinks : alertThread[s] => alertThread'[s]
        /\ shown \subseteq shown'
        /\ shown' \subseteq shown \cup {[failure |-> h, sink |-> alertAt[h]]}
    <2>1. CASE SinkPosts(h)
      BY <1>1, <2>1 DEF SinkPosts, Proceed, AlertsTypeOK
    <2>2. CASE SinkRaises(h)
      BY <1>1, <2>2 DEF SinkRaises, Proceed, AlertsTypeOK
    <2>3. QED
      BY <2>1, <2>2
  <1>4. /\ \A g \in Failures :
             /\ alertAt'[g] = IF g = h THEN alertAt[h] + 1 ELSE alertAt[g]
             /\ g # h => refused'[g] = refused[g]
        /\ lastAlerted' = IF alertAt[h] < Sinks THEN lastAlerted
                          ELSE Records(h, Cardinality(refused'[h]) = Sinks)
        /\ UNCHANGED <<alertHour, readAt, repeats, alertLife, bornIn, crossed>>
    BY <1>3 DEF Proceed, AlertsTypeOK
  <1>5. ASSUME NEW g \in Failures, NEW s \in 1..Sinks, g # h \/ s # alertAt[h]
        PROVE  [failure |-> g, sink |-> s] \in shown' <=> [failure |-> g, sink |-> s] \in shown
    <2>1. [failure |-> g, sink |-> s] # [failure |-> h, sink |-> alertAt[h]]
      BY <1>5
    <2>2. QED
      BY <1>3, <2>1
  <1>6. /\ [failure |-> h, sink |-> alertAt[h]] \in shown' =>
             /\ alertAt[h] \notin refused'[h] /\ alertThread'[alertAt[h]]
             /\ h \notin repeats \/ ~alertThread[alertAt[h]]
        /\ h \notin repeats =>
             alertAt[h] \in refused'[h] \/ [failure |-> h, sink |-> alertAt[h]] \in shown'
    <2>1. CASE SinkPosts(h)
      BY <1>1, <1>2, <2>1 DEF AlertsTypeOK, SinkPosts, Proceed
    <2>2. CASE SinkRaises(h)
      BY <1>1, <1>2, <2>2 DEF AlertsTypeOK, SinkRaises, Proceed
    <2>3. QED
      BY <2>1, <2>2
  <1>7. QED
    BY <1>1, <1>3, <1>4, <1>5, <1>6 DEF AlertMoves

-----------------------------------------------------------------------------
LEMMA AlertsTyped == AlertsInv /\ [AlertsNext]_alertVars => AlertsTypeOK'
  <1> SUFFICES ASSUME AlertsInv, [AlertsNext]_alertVars PROVE AlertsTypeOK'
    OBVIOUS
  <1> USE AlertsAssumption DEF AlertsInv, AlertsTypeOK, OnItsWay
  <1>1. ASSUME NEW f \in Failures, BeginAlert(f) PROVE AlertsTypeOK'
    <2>1. /\ alertAt' \in [Failures -> 0..(Sinks + 1)]
          /\ readAt' \in [Failures -> 0..AlertsUntil]
          /\ bornIn' \in [Failures -> 0..AlertLives]
      BY <1>1 DEF BeginAlert
    <2>2. repeats' \subseteq Failures /\ crossed' \subseteq Failures
      BY <1>1 DEF BeginAlert
    <2>3. UNCHANGED <<alertHour, lastAlerted, alertThread, refused, alertLife, shown>>
      BY <1>1 DEF BeginAlert
    <2>4. QED
      BY <2>1, <2>2, <2>3
  <1>2. ASSUME NEW f \in Failures, SinkPosts(f) PROVE AlertsTypeOK'
    BY <1>2 DEF SinkPosts, Proceed, Records
  <1>3. ASSUME NEW f \in Failures, SinkRaises(f) PROVE AlertsTypeOK'
    BY <1>3 DEF SinkRaises, Proceed, Records
  <1>4. CASE AlertsLost
    BY <1>4 DEF AlertsLost
  <1>5. CASE AlertHourPasses
    BY <1>5 DEF AlertHourPasses
  <1>6. CASE UNCHANGED alertVars
    BY <1>6 DEF alertVars
  <1>7. QED
    BY <1>1, <1>2, <1>3, <1>4, <1>5, <1>6 DEF AlertsNext

LEMMA AlertsProgress == AlertsInv /\ [AlertsNext]_alertVars => Progress'
  <1> SUFFICES ASSUME AlertsInv, [AlertsNext]_alertVars PROVE Progress'
    OBVIOUS
  <1> USE AlertsAssumption DEF AlertsInv, OnItsWay
  <1>1. ASSUME NEW f \in Failures, BeginAlert(f) PROVE Progress'
    <2>1. Begins(f)
      BY <1>1, BeginsSo
    <2>2. QED
      <3>1. repeats' \cup crossed' \subseteq {g \in Failures : alertAt'[g] # 0}
        BY <2>1 DEF Begins, Progress
      <3>2. ASSUME NEW g \in Failures
            PROVE  /\ alertAt'[g] = 0 <=> readAt'[g] = 0
                   /\ alertAt'[g] \in 1..Sinks => bornIn'[g] = alertLife'
                   /\ bornIn'[g] <= alertLife' /\ readAt'[g] <= alertHour'
                   /\ bornIn'[g] = 0 <=> alertAt'[g] = 0
        <4>1. /\ alertAt[g] = 0 <=> readAt[g] = 0
              /\ alertAt[g] \in 1..Sinks => bornIn[g] = alertLife
              /\ bornIn[g] <= alertLife /\ readAt[g] <= alertHour
              /\ bornIn[g] = 0 <=> alertAt[g] = 0
          BY DEF Progress
        <4>2. alertLife \in Nat \ {0} /\ alertHour \in Nat \ {0}
          BY DEF AlertsTypeOK
        <4>3. /\ alertAt'[g] = IF g = f THEN 1 ELSE alertAt[g]
              /\ readAt'[g] = IF g = f THEN alertHour ELSE readAt[g]
              /\ bornIn'[g] = IF g = f THEN alertLife ELSE bornIn[g]
              /\ alertHour' = alertHour /\ alertLife' = alertLife
          BY <2>1 DEF Begins
        <4>4. QED
          BY <4>1, <4>2, <4>3
      <3>3. ASSUME NEW g \in Failures, NEW s \in 1..Sinks
            PROVE  /\ [failure |-> g, sink |-> s] \in shown' =>
                        s < alertAt'[g] /\ s \notin refused'[g]
                   /\ s \in refused'[g] => s < alertAt'[g]
                   /\ alertAt'[g] \in 1..Sinks /\ g \notin repeats' /\ s < alertAt'[g] =>
                        s \in refused'[g] \/ [failure |-> g, sink |-> s] \in shown'
        <4>1. /\ [failure |-> g, sink |-> s] \in shown => s < alertAt[g] /\ s \notin refused[g]
              /\ s \in refused[g] => s < alertAt[g]
              /\ alertAt[g] \in 1..Sinks /\ g \notin repeats /\ s < alertAt[g] =>
                   s \in refused[g] \/ [failure |-> g, sink |-> s] \in shown
          BY DEF Progress
        <4>2. /\ alertAt'[g] = IF g = f THEN 1 ELSE alertAt[g]
              /\ g = f => alertAt[g] = 0
              /\ g # f => (g \in repeats' <=> g \in repeats)
              /\ shown' = shown /\ refused' = refused
          BY <2>1 DEF Begins
        <4>3. QED
          BY <4>1, <4>2
      <3>4. QED
        BY <3>1, <3>2, <3>3 DEF Progress
  <1>2. ASSUME NEW f \in Failures, SinkPosts(f) \/ SinkRaises(f) PROVE Progress'
    <2>0. AlertMoves(f)
      BY <1>2, MovesSo
    <2>1. repeats' \cup crossed' \subseteq {g \in Failures : alertAt'[g] # 0}
      BY <2>0 DEF AlertMoves, Progress, AlertsTypeOK
    <2>3. ASSUME NEW g \in Failures
          PROVE  /\ alertAt'[g] = 0 <=> readAt'[g] = 0
                 /\ alertAt'[g] \in 1..Sinks => bornIn'[g] = alertLife'
                 /\ bornIn'[g] <= alertLife' /\ readAt'[g] <= alertHour'
                 /\ bornIn'[g] = 0 <=> alertAt'[g] = 0
      <3>1. UNCHANGED <<readAt, bornIn, alertLife, alertHour>> /\ alertAt[f] \in 1..Sinks
            /\ alertAt'[g] = IF g = f THEN alertAt[f] + 1 ELSE alertAt[g]
        BY <2>0 DEF AlertMoves
      <3>2. /\ alertAt[g] = 0 <=> readAt[g] = 0
            /\ alertAt[g] \in 1..Sinks => bornIn[g] = alertLife
            /\ bornIn[g] <= alertLife /\ readAt[g] <= alertHour
            /\ bornIn[g] = 0 <=> alertAt[g] = 0
        BY DEF Progress
      <3>3. alertAt[g] \in Nat
        BY DEF AlertsTypeOK
      <3>4. QED
        BY <3>1, <3>2, <3>3
    <2>2. ASSUME NEW g \in Failures, NEW s \in 1..Sinks
          PROVE  /\ [failure |-> g, sink |-> s] \in shown' =>
                      s < alertAt'[g] /\ s \notin refused'[g]
                 /\ s \in refused'[g] => s < alertAt'[g]
                 /\ alertAt'[g] \in 1..Sinks /\ g \notin repeats' /\ s < alertAt'[g] =>
                      s \in refused'[g] \/ [failure |-> g, sink |-> s] \in shown'
      <3>1. CASE g # f
        BY <2>0, <3>1 DEF AlertMoves, AlertsTypeOK, Progress
      <3>2. CASE g = f /\ s # alertAt[f]
        BY <2>0, <3>2 DEF AlertMoves, AlertsTypeOK, Progress
      <3>3. CASE g = f /\ s = alertAt[f]
        BY <2>0, <3>3 DEF AlertMoves, AlertsTypeOK
      <3>4. QED
        BY <3>1, <3>2, <3>3
    <2>4. QED
      BY <2>1, <2>2, <2>3 DEF Progress
  <1>4. CASE AlertsLost
    BY <1>4 DEF AlertsLost, AlertsTypeOK, Progress
  <1>5. CASE AlertHourPasses
    BY <1>5 DEF AlertHourPasses, AlertsTypeOK, Progress
  <1>6. CASE UNCHANGED alertVars
    BY <1>6 DEF alertVars, Progress
  <1>7. QED
    BY <1>1, <1>2, <1>4, <1>5, <1>6 DEF AlertsNext

LEMMA AlertsThreads == AlertsInv /\ [AlertsNext]_alertVars => ThreadsKnown'
  <1> SUFFICES ASSUME AlertsInv, [AlertsNext]_alertVars PROVE ThreadsKnown'
    OBVIOUS
  <1> USE AlertsAssumption DEF AlertsInv, OnItsWay
  <1>1. ASSUME NEW f \in Failures, BeginAlert(f) PROVE ThreadsKnown'
    <2>1. Begins(f)
      BY <1>1, BeginsSo
    <2>2. QED
      BY <2>1 DEF Begins, AlertsTypeOK, Progress, ThreadsKnown, Begun
  <1>2. ASSUME NEW f \in Failures, SinkPosts(f) \/ SinkRaises(f) PROVE ThreadsKnown'
    <2>1. AlertMoves(f)
      BY <1>2, MovesSo
    <2>2. QED
      <3> SUFFICES ASSUME NEW g \in Failures, NEW s \in 1..Sinks, Begun(g)',
                          [failure |-> g, sink |-> s] \in shown'
                   PROVE  alertThread'[s]
        BY DEF ThreadsKnown
      <3>1. CASE g = f /\ s = alertAt[f]
        BY <2>1, <3>1 DEF AlertMoves
      <3>2. CASE ~(g = f /\ s = alertAt[f])
        <4>1. [failure |-> g, sink |-> s] \in shown /\ (alertThread[s] => alertThread'[s])
          BY <2>1, <3>2 DEF AlertMoves
        <4>2. alertAt[g] # 0 /\ bornIn[g] = alertLife
          BY <2>1, <3>2 DEF AlertMoves, Begun
        <4>3. QED
          BY <4>1, <4>2 DEF ThreadsKnown, Begun
      <3>3. QED
        BY <3>1, <3>2
  <1>4. CASE AlertsLost
    BY <1>4 DEF AlertsLost, AlertsTypeOK, Progress, ThreadsKnown, Begun
  <1>5. CASE AlertHourPasses
    BY <1>5 DEF AlertHourPasses, ThreadsKnown, Begun
  <1>6. CASE UNCHANGED alertVars
    BY <1>6 DEF alertVars, ThreadsKnown, Begun
  <1>7. QED
    BY <1>1, <1>2, <1>4, <1>5, <1>6 DEF AlertsNext

LEMMA AlertsCross == AlertsInv /\ [AlertsNext]_alertVars => Crossings'
  <1> SUFFICES ASSUME AlertsInv, [AlertsNext]_alertVars PROVE Crossings'
    OBVIOUS
  <1> USE AlertsAssumption DEF AlertsInv, OnItsWay
  <1>1. ASSUME NEW f \in Failures, BeginAlert(f) PROVE Crossings'
    <2>1. Begins(f)
      BY <1>1, BeginsSo
    <2>2. QED
      <3>1. ASSUME NEW g \in Failures, NEW e \in Failures,
                   OnItsWay(g)', OnItsWay(e)', g # e
            PROVE  {g, e} \cap crossed' # {}
        BY <2>1, <3>1 DEF Begins, Crossings
      <3>2. ASSUME NEW g \in Failures, NEW e \in Failures, Uncrossed(g)', OnItsWay(e)'
            PROVE  readAt'[g] <= readAt'[e]
        <4>1. CASE e = f
          <5>1. readAt'[e] = alertHour /\ readAt'[g] \in {alertHour, readAt[g]}
            BY <2>1, <4>1 DEF Begins
          <5>2. readAt[g] <= alertHour /\ alertHour \in Nat
            BY DEF Progress, AlertsTypeOK
          <5>3. QED
            BY <5>1, <5>2
        <4>2. CASE e # f /\ g = f
          BY <2>1, <3>2, <4>2 DEF Begins, Uncrossed
        <4>3. CASE e # f /\ g # f
          BY <2>1, <3>2, <4>3 DEF Begins, Crossings, Uncrossed, Begun
        <4>4. QED
          BY <4>1, <4>2, <4>3
      <3>3. QED
        BY <3>1, <3>2 DEF Crossings
  <1>2. ASSUME NEW f \in Failures, SinkPosts(f) \/ SinkRaises(f) PROVE Crossings'
    <2>1. AlertMoves(f)
      BY <1>2, MovesSo
    <2>2. QED
      <3>1. ASSUME NEW g \in Failures
            PROVE  /\ OnItsWay(g)' => OnItsWay(g)
                   /\ Uncrossed(g)' => Uncrossed(g)
        BY <2>1 DEF AlertMoves, AlertsTypeOK, Uncrossed, Begun
      <3>2. UNCHANGED <<readAt, crossed>>
        BY <2>1 DEF AlertMoves
      <3>3. QED
        BY <3>1, <3>2 DEF Crossings
  <1>4. CASE AlertsLost
    BY <1>4 DEF AlertsLost, AlertsTypeOK, Progress, Crossings, Uncrossed, Begun
  <1>5. CASE AlertHourPasses
    BY <1>5 DEF AlertHourPasses, Crossings, Uncrossed, Begun
  <1>6. CASE UNCHANGED alertVars
    BY <1>6 DEF alertVars, Crossings, Uncrossed, Begun
  <1>7. QED
    BY <1>1, <1>2, <1>4, <1>5, <1>6 DEF AlertsNext

LEMMA AlertsWindow == AlertsInv /\ [AlertsNext]_alertVars => WindowKept'
  <1> SUFFICES ASSUME AlertsInv, [AlertsNext]_alertVars PROVE WindowKept'
    OBVIOUS
  <1> USE AlertsAssumption DEF AlertsInv
  <1>1. ASSUME NEW h \in Failures, BeginAlert(h) PROVE WindowKept'
    <2>1. Begins(h)
      BY <1>1, BeginsSo
    <2>2. lastAlerted' = lastAlerted /\ alertHour' = alertHour
          /\ lastAlerted \in Nat /\ alertHour \in Nat /\ lastAlerted <= alertHour
      BY <2>1 DEF Begins, AlertsTypeOK, WindowKept
    <2>3. h \in repeats' => lastAlerted # 0 /\ alertHour < lastAlerted + AlertWindow
      BY <2>1, <2>2 DEF Begins, CoolingOff
    <2>4. repeats' # {} => AlertWindow > 0
      <3>1. CASE repeats = {}
        BY <2>1, <2>2, <2>3, <3>1 DEF Begins
      <3>2. CASE repeats # {}
        BY <3>2 DEF WindowKept
      <3>3. QED
        BY <3>1, <3>2
    <2>5. ASSUME NEW f \in Failures, Uncrossed(f)', Over(f)', f \notin repeats', Accepted(f)'
          PROVE  lastAlerted' >= readAt'[f]
      <3>1. f # h /\ readAt'[f] = readAt[f]
        BY <2>1, <2>5 DEF Begins, Over
      <3>2. Uncrossed(f) /\ Over(f) /\ f \notin repeats /\ Accepted(f)
        BY <2>1, <2>5, <3>1 DEF Begins, Over, Uncrossed, Begun, Accepted
      <3>3. QED
        BY <2>2, <3>1, <3>2 DEF WindowKept
    <2>6. ASSUME NEW f \in Failures, Uncrossed(f)', f \in repeats'
          PROVE  lastAlerted' # 0 /\ readAt'[f] < lastAlerted' + AlertWindow
      <3>1. CASE f = h
        BY <2>1, <2>2, <2>3, <2>6, <3>1 DEF Begins
      <3>2. CASE f # h
        <4>1. Uncrossed(f) /\ f \in repeats /\ readAt'[f] = readAt[f]
          BY <2>1, <2>6, <3>2 DEF Begins, Uncrossed, Begun
        <4>2. QED
          BY <2>2, <4>1 DEF WindowKept
      <3>3. QED
        BY <3>1, <3>2
    <2>7. QED
      BY <2>2, <2>4, <2>5, <2>6 DEF WindowKept
  <1>2. ASSUME NEW h \in Failures, SinkPosts(h) \/ SinkRaises(h) PROVE WindowKept'
    <2>1. AlertMoves(h) /\ Progress'
      BY <1>2, MovesSo, AlertsProgress
    <2>2. /\ UNCHANGED <<alertHour, readAt, repeats, alertLife, bornIn, crossed>>
          /\ lastAlerted \in Nat /\ alertHour \in Nat /\ lastAlerted <= alertHour
          /\ readAt[h] \in Nat /\ readAt[h] # 0 /\ readAt[h] <= alertHour
          /\ OnItsWay(h)
      BY <2>1 DEF AlertMoves, AlertsTypeOK, WindowKept, Progress, OnItsWay
    <2>3. lastAlerted' = lastAlerted \/ (lastAlerted' = readAt[h] /\ h \notin repeats)
      BY <2>1 DEF AlertMoves, Records
    <2>4. ASSUME NEW f \in Failures, Uncrossed(f) PROVE readAt[f] <= readAt[h] /\ readAt[f] \in Nat
      BY <2>2, <2>4 DEF Crossings, AlertsTypeOK
    <2>5. ASSUME NEW f \in Failures, Uncrossed(f)' PROVE Uncrossed(f)
      BY <2>1, <2>5 DEF AlertMoves, Uncrossed, Begun, AlertsTypeOK
    <2>6. ASSUME NEW f \in Failures, Uncrossed(f)', Over(f)', f \notin repeats', Accepted(f)'
          PROVE  lastAlerted' >= readAt'[f]
      <3>1. CASE f = h
        <4>1. alertAt[h] = Sinks
          BY <2>1, <2>6, <3>1 DEF AlertMoves, Over
        <4>2. PICK s \in 1..Sinks : s \notin refused'[h]
          BY <2>1, <2>6, <3>1 DEF Accepted, Progress
        <4>3. Cardinality(refused'[h]) # Sinks
          <5> DEFINE R == refused'[h]
          <5>1. R \in SUBSET (1..Sinks) /\ R # 1..Sinks
            BY <2>1, <4>2 DEF AlertMoves
          <5>2. IsFiniteSet(1..Sinks) /\ Cardinality(1..Sinks) = Sinks
            BY FS_Interval
          <5> HIDE DEF R
          <5>3. Cardinality(R) # Cardinality(1..Sinks)
            BY <5>1, <5>2, FS_Subset
          <5>4. QED
            BY <5>2, <5>3 DEF R
        <4>4. lastAlerted' = readAt[h]
          BY <2>1, <2>6, <3>1, <4>1, <4>3 DEF AlertMoves, Records
        <4>5. QED
          BY <2>2, <3>1, <4>4
      <3>2. CASE f # h
        <4>1. Uncrossed(f) /\ Over(f) /\ f \notin repeats /\ Accepted(f)
          BY <2>1, <2>2, <2>5, <2>6, <3>2 DEF AlertMoves, Over, Begun, Accepted
        <4>2. lastAlerted >= readAt[f]
          BY <4>1 DEF WindowKept
        <4>3. QED
          BY <2>2, <2>3, <2>4, <4>1, <4>2
      <3>3. QED
        BY <3>1, <3>2
    <2>7. ASSUME NEW f \in Failures, Uncrossed(f)', f \in repeats'
          PROVE  lastAlerted' # 0 /\ readAt'[f] < lastAlerted' + AlertWindow
      <3>1. Uncrossed(f) /\ f \in repeats /\ readAt'[f] = readAt[f]
        BY <2>2, <2>5, <2>7
      <3>2. lastAlerted # 0 /\ readAt[f] < lastAlerted + AlertWindow /\ AlertWindow > 0
        BY <3>1 DEF WindowKept
      <3>3. QED
        BY <2>2, <2>3, <2>4, <3>1, <3>2
    <2>8. lastAlerted' <= alertHour' /\ (repeats' # {} => AlertWindow > 0)
      BY <2>2, <2>3 DEF WindowKept
    <2>9. QED
      BY <2>6, <2>7, <2>8 DEF WindowKept
  <1>3. CASE AlertsLost
    <2>1. \A f \in Failures : ~Uncrossed(f)'
      BY <1>3 DEF AlertsLost, AlertsTypeOK, Progress, Uncrossed, Begun
    <2>2. lastAlerted' <= alertHour' /\ (repeats' # {} => AlertWindow > 0)
      BY <1>3 DEF AlertsLost, AlertsTypeOK, WindowKept
    <2>3. QED
      BY <2>1, <2>2 DEF WindowKept
  <1>4. CASE AlertHourPasses
    BY <1>4 DEF AlertHourPasses, AlertsTypeOK, WindowKept, Uncrossed, Over, Begun, Accepted
  <1>5. CASE UNCHANGED alertVars
    BY <1>5 DEF alertVars, WindowKept, Uncrossed, Over, Begun, Accepted
  <1>6. QED
    BY <1>1, <1>2, <1>3, <1>4, <1>5 DEF AlertsNext

\* Who came beside whom does not change for those that a step leaves alone.
LEMMA AlertsOne == AlertsInv /\ [AlertsNext]_alertVars => OneIsFull'
  <1> SUFFICES ASSUME AlertsInv, [AlertsNext]_alertVars PROVE OneIsFull'
    OBVIOUS
  <1> USE AlertsAssumption DEF AlertsInv
  <1>1. ASSUME NEW h \in Failures, BeginAlert(h) PROVE OneIsFull'
    <2>1. Begins(h)
      BY <1>1, BeginsSo
    <2>2. ASSUME NEW f \in Failures, f # h
          PROVE  /\ alertAt'[f] = alertAt[f] /\ readAt'[f] = readAt[f]
                 /\ Uncrossed(f)' <=> Uncrossed(f)
                 /\ Over(f)' <=> Over(f)
                 /\ Accepted(f)' <=> Accepted(f)
                 /\ f \in repeats' <=> f \in repeats
      BY <2>1, <2>2 DEF Begins, Uncrossed, Over, Begun, Accepted
    <2>3. /\ alertAt'[h] = 1 /\ readAt'[h] = alertHour /\ ~Over(h)' /\ h \notin repeats
          /\ h \in repeats' <=> CoolingOff
          /\ Uncrossed(h)' => \A g \in Failures : ~OnItsWay(g)
          /\ \A s \in 1..Sinks : [failure |-> h, sink |-> s] \notin shown'
          /\ shown' = shown
      BY <2>1 DEF Begins, Over, Uncrossed, Progress
    <2>4. ASSUME NEW f \in Failures, Begun(f)
          PROVE  /\ OnItsWay(f) \/ Over(f)
                 /\ readAt[f] \in Nat /\ readAt[f] # 0 /\ readAt[f] <= alertHour
      BY <2>4 DEF Begun, OnItsWay, Over, AlertsTypeOK, Progress
    <2>5. /\ alertHour \in Nat /\ lastAlerted \in Nat /\ AlertWindow \in Nat
          /\ lastAlerted <= alertHour
      BY DEF AlertsTypeOK, WindowKept
    <2>6. ASSUME NEW f \in Failures, NEW g \in Failures, Near(f, g)', OnItsWay(f)'
          PROVE  Over(g)' /\ ~Accepted(g)'
      <3>1. CASE f = h
        <4>1. /\ g # h /\ Uncrossed(g) /\ Over(g) /\ readAt[g] = alertHour
              /\ AlertWindow > 0 /\ ~CoolingOff
          <5>1. /\ Uncrossed(h)' /\ Uncrossed(g)' /\ g # h /\ h \notin repeats'
                /\ readAt'[h] <= readAt'[g] /\ readAt'[g] < readAt'[h] + AlertWindow
            BY <2>6, <3>1 DEF Near
          <5>2. Uncrossed(g) /\ Begun(g) /\ readAt'[g] = readAt[g]
            BY <2>2, <5>1 DEF Uncrossed
          <5>3. Over(g)
            BY <2>3, <2>4, <5>1, <5>2
          <5>4. QED
            BY <2>3, <2>4, <2>5, <5>1, <5>2, <5>3
        <4>2. g \notin repeats
          <5>1. SUFFICES ASSUME g \in repeats PROVE FALSE
            OBVIOUS
          <5>2. lastAlerted # 0 /\ readAt[g] < lastAlerted + AlertWindow
            BY <4>1, <5>1 DEF WindowKept
          <5>3. QED
            BY <2>5, <4>1, <5>2 DEF CoolingOff
        <4>3. ~Accepted(g)
          <5>1. SUFFICES ASSUME Accepted(g) PROVE FALSE
            OBVIOUS
          <5>2. lastAlerted >= readAt[g]
            BY <4>1, <4>2, <5>1 DEF WindowKept
          <5>3. alertHour # 0
            BY <2>4, <4>1 DEF Uncrossed
          <5>4. QED
            BY <2>5, <4>1, <5>2, <5>3 DEF CoolingOff
        <4>4. QED
          BY <2>2, <4>1, <4>3
      <3>2. CASE g = h
        <4>1. OnItsWay(f) /\ Uncrossed(h)'
          BY <2>2, <2>6, <3>2 DEF Near, OnItsWay
        <4>2. QED
          BY <2>3, <4>1
      <3>3. CASE f # h /\ g # h
        <4>1. Near(f, g) /\ OnItsWay(f)
          BY <2>2, <2>6, <3>3 DEF Near, OnItsWay
        <4>2. QED
          BY <2>2, <3>3, <4>1 DEF OneIsFull
      <3>4. QED
        BY <3>1, <3>2, <3>3
    <2>7. ASSUME NEW f \in Failures, NEW g \in Failures, Near(f, g)', Over(f)', Accepted(f)'
          PROVE  \/ Over(g)' /\ ~Accepted(g)'
                 \/ /\ g \in repeats'
                    /\ \A s \in 1..Sinks : [failure |-> f, sink |-> s] \in shown'
                                           => [failure |-> g, sink |-> s] \notin shown'
      <3>1. f # h
        BY <2>3, <2>7
      <3>2. CASE g = h
        <4>1. /\ Uncrossed(f) /\ Over(f) /\ Accepted(f) /\ f \notin repeats
              /\ alertHour < readAt[f] + AlertWindow
          BY <2>2, <2>3, <2>7, <3>1, <3>2 DEF Near
        <4>2. lastAlerted >= readAt[f] /\ readAt[f] \in Nat /\ readAt[f] # 0
          BY <2>4, <4>1 DEF WindowKept, Uncrossed
        <4>3. CoolingOff
          BY <2>5, <4>1, <4>2 DEF CoolingOff
        <4>4. QED
          BY <2>3, <3>2, <4>3
      <3>3. CASE g # h
        <4>1. Near(f, g) /\ Over(f) /\ Accepted(f)
          BY <2>2, <2>7, <3>1, <3>3 DEF Near
        <4>2. QED
          BY <2>2, <2>3, <3>1, <3>3, <4>1 DEF OneIsFull
      <3>4. QED
        BY <3>2, <3>3
    <2>8. QED
      BY <2>6, <2>7 DEF OneIsFull
  <1>2. ASSUME NEW h \in Failures, SinkPosts(h) \/ SinkRaises(h) PROVE OneIsFull'
    <2>1. AlertMoves(h)
      BY <1>2, MovesSo
    <2>2. OnItsWay(h) /\ ~Over(h) /\ UNCHANGED <<readAt, repeats>>
      BY <2>1 DEF AlertMoves, OnItsWay, Over
    <2>3. ASSUME NEW f \in Failures, NEW g \in Failures
          PROVE  /\ Near(f, g)' => Near(f, g)
                 /\ OnItsWay(f)' => OnItsWay(f)
                 /\ f # h => (Over(f)' <=> Over(f)) /\ (Accepted(f)' <=> Accepted(f))
      <3>1. (Uncrossed(f)' => Uncrossed(f)) /\ (Uncrossed(g)' => Uncrossed(g))
        BY <2>1 DEF AlertMoves, Uncrossed, Begun
      <3>2. OnItsWay(f)' => OnItsWay(f)
        BY <2>1 DEF AlertMoves, OnItsWay
      <3>3. f # h => (Over(f)' <=> Over(f)) /\ (Accepted(f)' <=> Accepted(f))
        BY <2>1 DEF AlertMoves, Over, Begun, Accepted
      <3>4. QED
        BY <2>2, <3>1, <3>2, <3>3 DEF Near
    <2>4. ASSUME NEW f \in Failures, NEW g \in Failures, Near(f, g), OnItsWay(f)
          PROVE  Over(g)' /\ ~Accepted(g)'
      <3>1. Over(g) /\ ~Accepted(g)
        BY <2>4 DEF OneIsFull
      <3>2. QED
        BY <2>2, <2>3, <3>1
    <2>5. ASSUME NEW f \in Failures, NEW g \in Failures, Near(f, g)', Over(f)', Accepted(f)'
          PROVE  \/ Over(g)' /\ ~Accepted(g)'
                 \/ /\ g \in repeats'
                    /\ \A s \in 1..Sinks : [failure |-> f, sink |-> s] \in shown'
                                           => [failure |-> g, sink |-> s] \notin shown'
      <3>1. CASE f = h
        BY <2>2, <2>3, <2>4, <2>5, <3>1
      <3>2. CASE f # h
        <4>1. Near(f, g) /\ Over(f) /\ Accepted(f) /\ f # g
          BY <2>3, <2>5, <3>2 DEF Near
        <4>2. CASE Over(g) /\ ~Accepted(g)
          BY <2>2, <2>3, <4>2
        <4>3. CASE /\ g \in repeats
                   /\ \A s \in 1..Sinks : [failure |-> f, sink |-> s] \in shown
                                          => [failure |-> g, sink |-> s] \notin shown
          <5>1. ASSUME NEW s \in 1..Sinks, [failure |-> f, sink |-> s] \in shown'
                PROVE  [failure |-> g, sink |-> s] \notin shown'
            <6>1. [failure |-> f, sink |-> s] \in shown
              BY <2>1, <3>2, <5>1 DEF AlertMoves
            <6>2. alertThread[s]
              BY <4>1, <6>1 DEF ThreadsKnown, Over
            <6>3. [failure |-> g, sink |-> s] \notin shown
              BY <4>3, <6>1
            <6>4. CASE g = h /\ s = alertAt[h]
              BY <2>1, <4>3, <6>2, <6>4 DEF AlertMoves
            <6>5. CASE ~(g = h /\ s = alertAt[h])
              BY <2>1, <6>3, <6>5 DEF AlertMoves
            <6>6. QED
              BY <6>4, <6>5
          <5>2. QED
            BY <2>2, <4>3, <5>1
        <4>4. QED
          BY <4>1, <4>2, <4>3 DEF OneIsFull
      <3>3. QED
        BY <3>1, <3>2
    <2>6. QED
      BY <2>3, <2>4, <2>5 DEF OneIsFull
  <1>3. CASE AlertsLost
    <2>1. \A f \in Failures : ~Uncrossed(f)'
      BY <1>3 DEF AlertsLost, AlertsTypeOK, Progress, Uncrossed, Begun
    <2>2. QED
      BY <2>1 DEF OneIsFull, Near
  <1>4. CASE AlertHourPasses
    <2>1. UNCHANGED <<alertAt, readAt, repeats, alertLife, shown, bornIn, crossed>>
      BY <1>4 DEF AlertHourPasses
    <2>2. ASSUME NEW f \in Failures, NEW g \in Failures
          PROVE  /\ Near(f, g)' <=> Near(f, g)
                 /\ OnItsWay(f)' <=> OnItsWay(f)
                 /\ (Over(f)' <=> Over(f)) /\ (Accepted(f)' <=> Accepted(f))
      BY <2>1 DEF Near, Uncrossed, Over, Begun, Accepted, OnItsWay
    <2>3. QED
      BY <2>1, <2>2 DEF OneIsFull
  <1>5. CASE UNCHANGED alertVars
    BY <1>5 DEF alertVars, OneIsFull, Near, Uncrossed, Over, Begun, Accepted, OnItsWay
  <1>6. QED
    BY <1>1, <1>2, <1>3, <1>4, <1>5 DEF AlertsNext

\* An alert of this life that was told is begun, and those of an earlier one stay as they are.
LEMMA AlertsFull == AlertsInv /\ [AlertsNext]_alertVars => OneFullAlertAWindow'
  <1> SUFFICES ASSUME AlertsInv, [AlertsNext]_alertVars,
                      NEW a \in shown', NEW b \in shown', a.sink = b.sink,
                      a.failure # b.failure, a.failure \notin repeats',
                      bornIn'[a.failure] = bornIn'[b.failure],
                      readAt'[a.failure] <= readAt'[b.failure],
                      readAt'[b.failure] < readAt'[a.failure] + AlertWindow,
                      a.failure \notin crossed', b.failure \notin crossed'
               PROVE  FALSE
    BY DEF OneFullAlertAWindow
  <1> USE AlertsAssumption
  <1> DEFINE f == a.failure
             g == b.failure
             s == a.sink
  <1>1. AlertsTypeOK' /\ Progress' /\ OneIsFull'
    BY AlertsTyped, AlertsProgress, AlertsOne
  <1>2. /\ f \in Failures /\ g \in Failures /\ s \in 1..Sinks
        /\ a = [failure |-> f, sink |-> s] /\ b = [failure |-> g, sink |-> s]
    BY <1>1 DEF AlertsTypeOK
  <1> HIDE DEF f, g, s
  <1>3. /\ [failure |-> f, sink |-> s] \in shown' /\ [failure |-> g, sink |-> s] \in shown'
        /\ f # g /\ f \notin repeats' /\ f \notin crossed' /\ g \notin crossed'
        /\ bornIn'[f] = bornIn'[g] /\ readAt'[f] <= readAt'[g]
        /\ readAt'[g] < readAt'[f] + AlertWindow
    BY <1>2 DEF f, g
  <1>4. CASE bornIn'[f] = alertLife'
    <2>1. Begun(f)' /\ Begun(g)'
      BY <1>1, <1>2, <1>3, <1>4, SMTT(30) DEF Begun, Progress, AlertsTypeOK
    <2>2. Near(f, g)' /\ Accepted(f)' /\ Accepted(g)'
      BY <1>2, <1>3, <2>1 DEF Near, Uncrossed, Accepted
    <2>3. OnItsWay(f)' \/ Over(f)'
      BY <1>1, <1>2, <2>1, SMTT(30) DEF OnItsWay, Over, Begun, AlertsTypeOK
    <2>4. QED
      BY <1>1, <1>2, <1>3, <2>2, <2>3 DEF OneIsFull
  <1>5. CASE bornIn'[f] # alertLife'
    <2> DEFINE Were ==
                 /\ [failure |-> f, sink |-> s] \in shown /\ [failure |-> g, sink |-> s] \in shown
                 /\ f \notin repeats /\ f \notin crossed /\ g \notin crossed
                 /\ bornIn[f] = bornIn[g] /\ readAt[f] <= readAt[g]
                 /\ readAt[g] < readAt[f] + AlertWindow
    <2>1. ASSUME NEW h \in Failures, BeginAlert(h) PROVE Were
      <3>1. Begins(h)
        BY <2>1, BeginsSo DEF AlertsInv
      <3>2. f # h /\ g # h
        BY <1>2, <1>3, <1>5, <3>1 DEF Begins
      <3>3. QED
        BY <1>2, <1>3, <3>1, <3>2 DEF Begins
    <2>2. ASSUME NEW h \in Failures, SinkPosts(h) \/ SinkRaises(h) PROVE Were
      <3>1. AlertMoves(h)
        BY <2>2, MovesSo DEF AlertsInv
      <3>2. f # h /\ g # h
        BY <1>2, <1>3, <1>5, <3>1 DEF AlertsInv, Progress, OnItsWay, AlertMoves
      <3>3. QED
        BY <1>2, <1>3, <3>1, <3>2 DEF AlertMoves
    <2>3. CASE AlertsLost
      <3>1. Were
        BY <1>3, <2>3 DEF AlertsLost
      <3>2. QED
        BY <3>1, <1>2, <1>3 DEF AlertsInv, AlertsAsTold, OneFullAlertAWindow
    <2>4. CASE AlertHourPasses \/ UNCHANGED alertVars
      <3>1. Were
        BY <1>3, <2>4 DEF AlertHourPasses, alertVars
      <3>2. QED
        BY <3>1, <1>2, <1>3 DEF AlertsInv, AlertsAsTold, OneFullAlertAWindow
    <2>5. ~Were
      BY <1>3 DEF AlertsInv, AlertsAsTold, OneFullAlertAWindow
    <2>6. QED
      BY <2>1, <2>2, <2>3, <2>4, <2>5 DEF AlertsNext
  <1>6. QED
    BY <1>4, <1>5

LEMMA AlertsNeeded == AlertsInv /\ [AlertsNext]_alertVars => WindowNeedsAnAlert'
  <1> SUFFICES ASSUME AlertsInv, [AlertsNext]_alertVars, lastAlerted' # 0
               PROVE  \E a \in shown' :
                        readAt'[a.failure] = lastAlerted' /\ bornIn'[a.failure] = alertLife'
    BY DEF WindowNeedsAnAlert
  <1> USE AlertsAssumption
  <1>1. AlertsTypeOK /\ Progress /\ WindowNeedsAnAlert
    BY DEF AlertsInv, AlertsAsTold
  <1>2. ASSUME NEW h \in Failures, BeginAlert(h)
        PROVE  \E a \in shown' :
                 readAt'[a.failure] = lastAlerted' /\ bornIn'[a.failure] = alertLife'
    <2>1. Begins(h)
      BY <1>1, <1>2, BeginsSo
    <2>2. PICK a \in shown : readAt[a.failure] = lastAlerted /\ bornIn[a.failure] = alertLife
      BY <1>1, <2>1 DEF Begins, WindowNeedsAnAlert
    <2>3. a.failure \in Failures /\ a.sink \in 1..Sinks
          /\ a = [failure |-> a.failure, sink |-> a.sink]
      BY <1>1 DEF AlertsTypeOK
    <2>4. a.failure # h
      BY <1>1, <2>1, <2>3 DEF Begins, Progress
    <2>5. QED
      BY <2>1, <2>2, <2>3, <2>4 DEF Begins
  <1>3. ASSUME NEW h \in Failures, SinkPosts(h) \/ SinkRaises(h)
        PROVE  \E a \in shown' :
                 readAt'[a.failure] = lastAlerted' /\ bornIn'[a.failure] = alertLife'
    <2>1. AlertMoves(h) /\ Progress'
      BY <1>1, <1>3, MovesSo, AlertsProgress
    <2>2. UNCHANGED <<readAt, bornIn, alertLife, repeats>>
      BY <2>1 DEF AlertMoves
    <2>3. CASE lastAlerted' = lastAlerted
      <3>1. PICK a \in shown : readAt[a.failure] = lastAlerted /\ bornIn[a.failure] = alertLife
        BY <1>1, <2>3 DEF WindowNeedsAnAlert
      <3>2. a \in shown'
        BY <1>3 DEF SinkPosts, SinkRaises
      <3>3. QED
        BY <2>2, <2>3, <3>1, <3>2
    <2>4. CASE lastAlerted' # lastAlerted
      <3>1. /\ alertAt[h] = Sinks /\ h \notin repeats /\ lastAlerted' = readAt[h]
            /\ Cardinality(refused'[h]) # Sinks
        BY <2>1, <2>4 DEF AlertMoves, Records
      <3>2. PICK s \in 1..Sinks : s \notin refused'[h]
        <4>1. Cardinality(1..Sinks) = Sinks
          BY FS_Interval
        <4>2. refused'[h] # 1..Sinks
          BY <3>1, <4>1
        <4>3. QED
          BY <2>1, <4>2 DEF AlertMoves
      <3>3. [failure |-> h, sink |-> s] \in shown'
        <4>1. CASE s = Sinks
          BY <2>1, <3>1, <3>2, <4>1 DEF AlertMoves
        <4>2. CASE s # Sinks
          <5>1. s < alertAt[h] /\ s # alertAt[h] /\ OnItsWay(h)
            BY <3>1, <4>2 DEF OnItsWay
          <5>2. s \notin refused[h]
            BY <2>1, <3>2, <5>1 DEF AlertMoves
          <5>3. [failure |-> h, sink |-> s] \in shown
            BY <1>1, <3>1, <5>1, <5>2 DEF Progress
          <5>4. QED
            BY <2>1, <5>1, <5>3 DEF AlertMoves
        <4>3. QED
          BY <4>1, <4>2
      <3>4. bornIn[h] = alertLife
        BY <1>1, <2>1 DEF AlertMoves, Progress, OnItsWay
      <3>5. QED
        BY <2>2, <3>1, <3>3, <3>4
    <2>5. QED
      BY <2>3, <2>4
  <1>4. CASE AlertsLost
    BY <1>4 DEF AlertsLost
  <1>5. CASE AlertHourPasses \/ UNCHANGED alertVars
    BY <1>1, <1>5 DEF AlertHourPasses, alertVars, WindowNeedsAnAlert
  <1>6. QED
    BY <1>2, <1>3, <1>4, <1>5 DEF AlertsNext

LEMMA AlertsInvInit == AlertsInit => AlertsInv
  <1> SUFFICES ASSUME AlertsInit PROVE AlertsInv
    OBVIOUS
  <1>1. AlertsTypeOK
    BY AlertsAssumption DEF AlertsInit, AlertsTypeOK
  <1>2. Progress
    <2>1. \A f \in Failures : /\ alertAt[f] = 0 /\ readAt[f] = 0 /\ bornIn[f] = 0
                             /\ refused[f] = {}
      BY DEF AlertsInit
    <2>2. repeats = {} /\ crossed = {} /\ shown = {} /\ alertHour = 1 /\ alertLife = 1
      BY DEF AlertsInit
    <2>3. QED
      BY <2>1, <2>2, AlertsAssumption DEF Progress, OnItsWay
  <1>3. \A f \in Failures : ~OnItsWay(f) /\ ~Begun(f) /\ ~Uncrossed(f)
    BY DEF AlertsInit, OnItsWay, Begun, Uncrossed
  <1>4. ThreadsKnown /\ Crossings /\ OneIsFull
    BY <1>3 DEF ThreadsKnown, Crossings, OneIsFull, Near
  <1>5. WindowKept
    BY <1>3, AlertsAssumption DEF AlertsInit, WindowKept
  <1>6. AlertsAsTold
    BY DEF AlertsInit, AlertsAsTold, OneFullAlertAWindow, WindowNeedsAnAlert
  <1>7. QED
    BY <1>1, <1>2, <1>4, <1>5, <1>6 DEF AlertsInv

\* CooldownAlertSink and MultiAlertSink: a sink that took an alert gets no second one in full
\* inside the window, but for alerts that crossed, and no window without an accepted alert.
THEOREM AlertsAreAsTold == AlertsSpec => []AlertsAsTold
  <1>1. AlertsInv /\ [AlertsNext]_alertVars => AlertsInv'
    BY AlertsTyped, AlertsProgress, AlertsThreads, AlertsCross, AlertsWindow, AlertsOne,
       AlertsFull, AlertsNeeded DEF AlertsInv, AlertsAsTold
  <1>2. AlertsInv => AlertsAsTold
    BY DEF AlertsInv
  <1>3. QED
    BY <1>1, <1>2, AlertsInvInit, PTL DEF AlertsSpec

-----------------------------------------------------------------------------
(* Induction, and what is picked of a sequence.                            *)

\* A set of numbers with 0 that goes on from each of its elements has them all.
LEMMA GoesOnForever ==
    ASSUME NEW S, 0 \in S, \A n \in S \cap Nat : n + 1 \in S
    PROVE  Nat \subseteq S
  <1> DEFINE T == Nat \ S
  <1>1. SUFFICES ASSUME T # {} PROVE FALSE
    OBVIOUS
  <1>2. PICK x \in T : \A y \in T : ~ (<<y, x>> \in OpToRel(<, Nat))
    <2>1. T \subseteq Nat
      OBVIOUS
    <2>2. QED
      BY <1>1, <2>1, WFMin, NatLessThanWellFounded
  <1>3. x \in Nat /\ x \notin S
    OBVIOUS
  <1>4. x # 0 /\ x - 1 \in Nat
    BY <1>3
  <1>5. x - 1 \notin T
    <2>1. <<x - 1, x>> \in OpToRel(<, Nat)
      BY <1>3, <1>4 DEF OpToRel
    <2>2. QED
      BY <1>2, <2>1
  <1>6. x - 1 \in S /\ (x - 1) + 1 = x
    BY <1>3, <1>4, <1>5
  <1>7. QED
    BY <1>3, <1>4, <1>6

\* upTo of Picked is what its definition says, however long the sequence is.
PickingOf(F, q, S, n) ==
    F = [i \in 0..n |->
           IF i = 0 THEN <<>>
           ELSE IF q[i] \in S THEN Append(F[i - 1], q[i]) ELSE F[i - 1]]

\* One element further.
LEMMA PickingGoesOn ==
    ASSUME NEW q, NEW S, NEW n \in Nat, NEW F, PickingOf(F, q, S, n)
    PROVE  \E G : PickingOf(G, q, S, n + 1)
  <1> DEFINE next == IF q[n + 1] \in S THEN Append(F[n], q[n + 1]) ELSE F[n]
             G == [i \in 0..(n + 1) |-> IF i = n + 1 THEN next ELSE F[i]]
  <1>1. ASSUME NEW i \in 0..(n + 1)
        PROVE  G[i] = IF i = 0 THEN <<>>
                      ELSE IF q[i] \in S THEN Append(G[i - 1], q[i]) ELSE G[i - 1]
    <2>1. CASE i = n + 1
      <3>1. n \in 0..(n + 1) /\ n # n + 1 /\ i - 1 = n /\ i # 0
        BY <2>1
      <3>2. G[i] = next /\ G[i - 1] = F[n]
        BY <2>1, <3>1
      <3>3. QED
        BY <2>1, <3>1, <3>2
    <2>2. CASE i # n + 1
      <3>1. i \in 0..n /\ G[i] = F[i]
        BY <2>2
      <3>2. i # 0 => i - 1 \in 0..(n + 1) /\ i - 1 # n + 1 /\ G[i - 1] = F[i - 1]
        BY <3>1
      <3>3. F[i] = IF i = 0 THEN <<>>
                   ELSE IF q[i] \in S THEN Append(F[i - 1], q[i]) ELSE F[i - 1]
        BY <3>1 DEF PickingOf
      <3>4. QED
        BY <3>1, <3>2, <3>3
    <2>3. QED
      BY <2>1, <2>2
  <1>2. PickingOf(G, q, S, n + 1)
    <2> DEFINE H == [i \in 0..(n + 1) |->
                       IF i = 0 THEN <<>>
                       ELSE IF q[i] \in S THEN Append(G[i - 1], q[i]) ELSE G[i - 1]]
    <2>1. \A i \in 0..(n + 1) : G[i] = H[i]
      BY <1>1
    <2>2. DOMAIN G = 0..(n + 1) /\ DOMAIN H = 0..(n + 1)
      OBVIOUS
    <2>3. G = H
      <3>1. G = [i \in 0..(n + 1) |-> G[i]] /\ H = [i \in 0..(n + 1) |-> H[i]]
        OBVIOUS
      <3>2. QED
        BY <2>1, <3>1
    <2>4. QED
      BY <2>3 DEF PickingOf
  <1>3. QED
    BY <1>2

\* So there is such a function for every length.
LEMMA PickingExists == ASSUME NEW q, NEW S, NEW n \in Nat PROVE \E F : PickingOf(F, q, S, n)
  <1> DEFINE Some == {k \in Nat : \E F : PickingOf(F, q, S, k)}
  <1>1. 0 \in Some
    <2> DEFINE F == [i \in 0..0 |-> <<>>]
    <2>1. PickingOf(F, q, S, 0)
      BY DEF PickingOf
    <2>2. QED
      BY <2>1
  <1>2. ASSUME NEW k \in Some \cap Nat PROVE k + 1 \in Some
    <2>1. PICK F : PickingOf(F, q, S, k)
      OBVIOUS
    <2>2. \E G : PickingOf(G, q, S, k + 1)
      BY <2>1, PickingGoesOn
    <2>3. QED
      BY <2>2
  <1>3. Nat \subseteq Some
    <2> HIDE DEF Some
    <2>1. QED
      BY <1>1, <1>2, GoesOnForever
  <1>4. QED
    BY <1>3

\* And Picked is the last value of one.
LEMMA PickedIs ==
    ASSUME NEW T, NEW q \in Seq(T), NEW S
    PROVE  \E F : PickingOf(F, q, S, Len(q)) /\ Picked(q, S) = F[Len(q)]
  <1> DEFINE F == CHOOSE f : PickingOf(f, q, S, Len(q))
  <1>1. PickingOf(F, q, S, Len(q))
    <2>1. \E f : PickingOf(f, q, S, Len(q))
      <3>1. Len(q) \in Nat
        OBVIOUS
      <3>2. QED
        BY <3>1, PickingExists
    <2>2. QED
      BY <2>1
  <1>2. Picked(q, S) = F[Len(q)]
    BY DEF Picked, PickingOf
  <1>3. QED
    BY <1>1, <1>2

\* What is picked are the elements that are in the set, once for each place they have.
LEMMA PickedAre ==
    ASSUME NEW T, NEW q \in Seq(T), NEW S
    PROVE  /\ Picked(q, S) \in Seq(T) /\ Len(Picked(q, S)) <= Len(q)
           /\ ToSet(Picked(q, S)) = ToSet(q) \cap S
  <1>1. PICK F : PickingOf(F, q, S, Len(q)) /\ Picked(q, S) = F[Len(q)]
    BY PickedIs
  <1> DEFINE Upto(n) == {q[j] : j \in 1..n}
             P(n) == F[n] \in Seq(T) /\ Len(F[n]) <= n /\ ToSet(F[n]) = Upto(n) \cap S
             Good == {n \in Nat : n <= Len(q) => P(n)}
  <1>2. Len(q) \in Nat
    OBVIOUS
  <1>3. 0 \in Good
    <2>1. F[0] = <<>>
      BY <1>1, <1>2 DEF PickingOf
    <2>2. Upto(0) = {} /\ ToSet(F[0]) = {}
      BY <2>1 DEF ToSet
    <2>3. P(0)
      BY <2>1, <2>2
    <2>4. QED
      BY <2>3
  <1>4. ASSUME NEW n \in Good \cap Nat PROVE n + 1 \in Good
    <2>1. SUFFICES ASSUME n + 1 <= Len(q) PROVE P(n + 1)
      OBVIOUS
    <2>2. P(n)
      BY <1>2, <2>1
    <2>3. F[n + 1] = IF q[n + 1] \in S THEN Append(F[n], q[n + 1]) ELSE F[n]
      <3>1. n + 1 \in 0..Len(q) /\ n + 1 # 0 /\ (n + 1) - 1 = n
        BY <1>2, <2>1
      <3>2. QED
        BY <1>1, <3>1 DEF PickingOf
    <2>4. q[n + 1] \in T
      BY <1>2, <2>1
    <2>5. Upto(n + 1) = Upto(n) \union {q[n + 1]}
      <3>1. 1..(n + 1) = (1..n) \union {n + 1}
        OBVIOUS
      <3>2. QED
        BY <3>1
    <2>6. CASE q[n + 1] \in S
      <3>1. F[n + 1] = Append(F[n], q[n + 1])
        BY <2>3, <2>6
      <3>2. F[n + 1] \in Seq(T) /\ Len(F[n + 1]) = Len(F[n]) + 1
        BY <2>2, <2>4, <3>1
      <3>3. ToSet(F[n + 1]) = ToSet(F[n]) \union {q[n + 1]}
        <4>1. DOMAIN F[n + 1] = DOMAIN F[n] \union {Len(F[n]) + 1}
          BY <2>2, <2>4, <3>1
        <4>2. /\ \A i \in DOMAIN F[n] : F[n + 1][i] = F[n][i]
              /\ F[n + 1][Len(F[n]) + 1] = q[n + 1]
          BY <2>2, <2>4, <3>1
        <4>3. QED
          BY <4>1, <4>2 DEF ToSet
      <3>4. Upto(n + 1) \cap S = (Upto(n) \cap S) \union {q[n + 1]}
        BY <2>5, <2>6
      <3>5. QED
        BY <2>2, <3>2, <3>3, <3>4
    <2>7. CASE q[n + 1] \notin S
      BY <2>2, <2>3, <2>5, <2>7
    <2>8. QED
      BY <2>6, <2>7
  <1>5. Nat \subseteq Good
    <2> HIDE DEF Good
    <2>1. QED
      BY <1>3, <1>4, GoesOnForever
  <1>6. P(Len(q))
    <2>1. Len(q) \in Good
      BY <1>2, <1>5
    <2>2. Len(q) <= Len(q) => P(Len(q))
      BY <2>1
    <2>3. QED
      BY <1>2, <2>2
  <1>7. Upto(Len(q)) = ToSet(q)
    BY DEF ToSet
  <1>8. QED
    BY <1>1, <1>6, <1>7

\* It keeps an order the sequence has, and repeats nothing the sequence does not.
Climbs(q) == \A i, j \in 1..Len(q) : i < j => q[i] < q[j]

LEMMA PickedClimbs ==
    ASSUME NEW q \in Seq(Nat), NEW S, Climbs(q) PROVE Climbs(Picked(q, S))
  <1>1. PICK F : PickingOf(F, q, S, Len(q)) /\ Picked(q, S) = F[Len(q)]
    BY PickedIs
  <1> DEFINE P(n) == /\ F[n] \in Seq(Nat) /\ Climbs(F[n])
                     /\ \A i \in 1..Len(F[n]) : n > 0 /\ F[n][i] <= q[n]
             Good == {n \in Nat : n <= Len(q) => P(n)}
  <1>2. Len(q) \in Nat
    OBVIOUS
  <1>3. 0 \in Good
    <2>1. F[0] = <<>>
      BY <1>1, <1>2 DEF PickingOf
    <2>2. P(0)
      BY <2>1 DEF Climbs
    <2>3. QED
      BY <2>2
  <1>4. ASSUME NEW n \in Good \cap Nat PROVE n + 1 \in Good
    <2>1. SUFFICES ASSUME n + 1 <= Len(q) PROVE P(n + 1)
      BY SMTT(30)
    <2>2. P(n)
      BY <1>2, <2>1
    <2>3. F[n + 1] = IF q[n + 1] \in S THEN Append(F[n], q[n + 1]) ELSE F[n]
      <3>1. n + 1 \in 0..Len(q) /\ n + 1 # 0 /\ (n + 1) - 1 = n
        BY <1>2, <2>1
      <3>2. QED
        BY <1>1, <3>1 DEF PickingOf
    <2>4. q[n + 1] \in Nat
      BY <1>2, <2>1
    <2>5. n > 0 => q[n] \in Nat /\ q[n] < q[n + 1]
      <3>1. n > 0 => n \in 1..Len(q) /\ n + 1 \in 1..Len(q) /\ n < n + 1
        BY <1>2, <2>1
      <3>2. \A i \in 1..Len(q) : q[i] \in Nat
        OBVIOUS
      <3>3. QED
        BY <3>1, <3>2 DEF Climbs
    <2>6. \A i \in 1..Len(F[n]) : F[n][i] \in Nat /\ F[n][i] < q[n + 1]
      <3>1. SUFFICES ASSUME NEW i \in 1..Len(F[n])
                     PROVE  F[n][i] \in Nat /\ F[n][i] < q[n + 1]
        OBVIOUS
      <3>2. F[n][i] \in Nat /\ n > 0 /\ F[n][i] <= q[n]
        BY <2>2, <3>1
      <3>3. QED
        BY <2>4, <2>5, <3>2
    <2>7. CASE q[n + 1] \in S
      <3>1. F[n + 1] = Append(F[n], q[n + 1])
        BY <2>3, <2>7
      <3>2. F[n + 1] \in Seq(Nat) /\ Len(F[n + 1]) = Len(F[n]) + 1
        BY <2>2, <2>4, <3>1
      <3>3. \A i \in 1..Len(F[n + 1]) : F[n + 1][i] = IF i = Len(F[n]) + 1 THEN q[n + 1]
                                                      ELSE F[n][i]
        BY <2>2, <2>4, <3>1
      <3>4. Climbs(F[n + 1])
        <4>1. SUFFICES ASSUME NEW i \in 1..Len(F[n + 1]), NEW j \in 1..Len(F[n + 1]), i < j
                       PROVE  F[n + 1][i] < F[n + 1][j]
          BY DEF Climbs
        <4>2. i \in 1..Len(F[n]) /\ F[n + 1][i] = F[n][i]
          BY <2>2, <3>2, <3>3, <4>1
        <4>3. CASE j = Len(F[n]) + 1
          BY <2>6, <3>3, <4>2, <4>3
        <4>4. CASE j # Len(F[n]) + 1
          <5>1. j \in 1..Len(F[n]) /\ F[n + 1][j] = F[n][j]
            BY <2>2, <3>2, <3>3, <4>1, <4>4
          <5>2. QED
            BY <2>2, <4>1, <4>2, <5>1 DEF Climbs
        <4>5. QED
          BY <4>3, <4>4
      <3>5. \A i \in 1..Len(F[n + 1]) : n + 1 > 0 /\ F[n + 1][i] <= q[n + 1]
        <4>1. SUFFICES ASSUME NEW i \in 1..Len(F[n + 1])
                       PROVE  F[n + 1][i] <= q[n + 1]
          OBVIOUS
        <4>2. i # Len(F[n]) + 1 => i \in 1..Len(F[n])
          BY <2>2, <3>2, <4>1
        <4>3. QED
          BY <2>4, <2>6, <3>3, <4>1, <4>2, SMTT(30)
      <3>6. QED
        BY <3>2, <3>4, <3>5
    <2>8. CASE q[n + 1] \notin S
      BY <2>2, <2>3, <2>4, <2>6, <2>8, SMTT(30)
    <2>9. QED
      BY <2>7, <2>8
  <1>5. Nat \subseteq Good
    <2> HIDE DEF Good
    <2>1. QED
      BY <1>3, <1>4, GoesOnForever
  <1>6. QED
    BY <1>1, <1>2, <1>5

-----------------------------------------------------------------------------
(* SlackMarks.                                                             *)

\* The turns whose notify_start has still to take from the lists, in their order.
Line == IF step = "status" THEN <<turn>> \o waiting ELSE waiting

\* While nothing has shifted, the lists are those of the turns in front, which have all
\* a message, and the turns behind them have none.
Lined ==
    /\ Len(pendingMsg) <= Len(Line) /\ Len(pendingSup) = Len(pendingMsg)
    /\ \A i \in 1..Len(Line) :
           IF i <= Len(pendingMsg)
           THEN /\ pendingMsg[i] = Line[i] /\ HasMessage(Line[i])
                /\ pendingSup[i] = (kind[Line[i]] = "silent")
           ELSE ~HasMessage(Line[i])

ItsOwn == [msg |-> turn, sup |-> kind[turn] = "silent"]
InHand ==
    /\ step \in {"idle", "status"} => taken = Nothing /\ flight = Nothing
    /\ step = "marking" => HasMessage(turn) /\ taken = ItsOwn /\ flight = Nothing
    /\ step \in {"agent", "answered"} =>
           taken = Nothing /\ flight = IF HasMessage(turn) THEN ItsOwn ELSE Nothing

MarksFit ==
    \A t \in Turns \ late :
        /\ "queued" \in wears[t] => t \in ToSet(pendingMsg) \/ t = taken.msg
        /\ "running" \in wears[t] => t = flight.msg
        /\ "interrupted" \notin wears[t]

VerdictsFit ==
    \A t \in Known : turnVerdict[t] # "none" => (turnVerdict[t] = "withheld" <=> kind[t] = "silent")

\* Also what the turns are that are known, wherever they are.
TurnsFit ==
    /\ waiting \in Seq(Known) /\ turn \in Known \union {None}
    /\ turn = None <=> step = "idle"
    /\ \A t \in Known : HasMessage(t) => route[t] = t
    /\ \A t \in Turns \ Known : turnVerdict[t] = "none"
    /\ step = "marking" => taken.msg \in Turns

MarksInv ==
    /\ MarksTypeOK /\ TurnsFit
    /\ shifted \/ (Lined /\ InHand /\ MarksFit /\ VerdictsFit)

\* The lists and the reactions of a daemon that starts (MarksInv).
LEMMA MarksStart == MarksInit => MarksInv
  <1>1. SUFFICES ASSUME MarksInit PROVE MarksInv
    OBVIOUS
  <1>2. MarksTypeOK
    BY <1>1, MarksAssumption DEF MarksInit, MarksTypeOK, Turns, None, Nothing, Reactions
  <1>3. TurnsFit
    BY <1>1 DEF MarksInit, TurnsFit, Known, Turns, None
  <1>4. Lined
    BY <1>1 DEF MarksInit, Lined, Line
  <1>5. InHand /\ MarksFit /\ VerdictsFit
    BY <1>1 DEF MarksInit, InHand, MarksFit, VerdictsFit, Turns, Known
  <1>6. QED
    BY <1>2, <1>3, <1>4, <1>5 DEF MarksInv

\* What is known of a turn stays known when another is queued.
KindsStay == \A t \in Known : t \in Known' /\ kind'[t] = kind[t]

\* A turn that is queued is known, last in the line, and of the kind it was queued as.
LEMMA EnqueuedTurn ==
    ASSUME MarksTypeOK, TurnsFit, NEW k \in TurnKinds, Enqueue(k)
    PROVE  /\ Len(kind) + 1 \in Turns /\ Known = 1..Len(kind)
           /\ Known' = Known \union {Len(kind) + 1}
           /\ kind' \in Seq(TurnKinds \union {"compact"}) /\ Len(kind') = Len(kind) + 1
           /\ kind'[Len(kind) + 1] = k /\ KindsStay
           /\ waiting' = Append(waiting, Len(kind) + 1) /\ waiting' \in Seq(Known')
           /\ \A t \in Known : HasMessage(t)' = HasMessage(t)
           /\ Known' \subseteq Turns
  <1>1. kind \in Seq(TurnKinds \union {"compact"}) /\ kind' = Append(kind, k)
        /\ Len(kind) + 1 \in Turns /\ waiting \in Seq(Known)
        /\ waiting' = Append(waiting, Len(kind) + 1)
    BY DEF Enqueue, MarksTypeOK, TurnsFit
  <1>2. Known = 1..Len(kind) /\ Known' = 1..Len(kind')
    BY <1>1 DEF Known
  <1>3. Len(kind') = Len(kind) + 1 /\ kind' \in Seq(TurnKinds \union {"compact"})
        /\ kind'[Len(kind) + 1] = k /\ \A t \in 1..Len(kind) : kind'[t] = kind[t]
    BY <1>1
  <1>4. Known' = Known \union {Len(kind) + 1} /\ Known' \subseteq Turns
    BY <1>1, <1>2, <1>3, MarksAssumption DEF Turns
  <1>5. KindsStay
    BY <1>2, <1>3, <1>4 DEF KindsStay
  <1>6. waiting' \in Seq(Known')
    <2>1. waiting \in Seq(Known')
      BY <1>1, <1>4, SeqMonotonic
    <2>2. QED
      BY <1>1, <1>4, <2>1
  <1>7. \A t \in Known : HasMessage(t)' = HasMessage(t)
    BY <1>5 DEF HasMessage, KindsStay
  <1>8. QED
    BY <1>1, <1>2, <1>3, <1>4, <1>5, <1>6, <1>7

\* The newest of the messages listed, if there is one.
LEMMA NewestIs ==
    ASSUME MarksTypeOK
    PROVE  /\ Newest \in Turns \union {None}
           /\ pendingMsg # <<>> => Newest \in Turns /\ Newest \in ToSet(pendingMsg)
  <1>1. pendingMsg \in Seq(Turns)
    BY DEF MarksTypeOK
  <1>2. CASE pendingMsg = <<>>
    BY <1>2 DEF Newest
  <1>3. CASE pendingMsg # <<>>
    <2>1. Len(pendingMsg) \in DOMAIN pendingMsg
      BY <1>1, <1>3
    <2>2. Newest = pendingMsg[Len(pendingMsg)]
      BY <1>3 DEF Newest, Last
    <2>3. QED
      BY <1>1, <2>1, <2>2 DEF ToSet
  <1>4. QED
    BY <1>2, <1>3

\* Queueing a turn keeps the types.
LEMMA EnqueueTyped ==
    ASSUME MarksTypeOK, TurnsFit, NEW k \in TurnKinds, Enqueue(k)
    PROVE  MarksTypeOK' /\ TurnsFit'
  <1>0. PICK t : t = Len(kind) + 1
    OBVIOUS
  <1>1. /\ t \in Turns /\ Known = 1..Len(kind) /\ Known' = Known \union {t}
        /\ kind' \in Seq(TurnKinds \union {"compact"}) /\ Len(kind') = Len(kind) + 1
        /\ kind'[t] = k /\ KindsStay /\ waiting' \in Seq(Known') /\ Known' \subseteq Turns
        /\ \A u \in Known : HasMessage(u)' = HasMessage(u)
    BY <1>0, EnqueuedTurn
  <1>2. t \notin Known /\ kind \in Seq(TurnKinds \union {"compact"}) /\ Len(kind) \in Nat
        /\ t = Len(kind) + 1
        /\ route \in Seq(Turns \union {None}) /\ Len(route) = Len(kind)
    BY <1>0, <1>1 DEF MarksTypeOK
  <1>3. \E m \in Turns \union {None} : route' = Append(route, m) /\ (HasMessage(t)' => m = t)
    <2>1. HasMessage(t)' <=> k \in {"plain", "silent"}
      BY <1>1 DEF HasMessage
    <2>2. CASE k \in {"plain", "silent"}
      BY <1>0, <1>1, <2>2 DEF Enqueue
    <2>3. CASE k \notin {"plain", "silent"}
      BY <1>1, <2>1, <2>3, NewestIs DEF Enqueue
    <2>4. QED
      BY <2>2, <2>3
  <1>4. /\ route' \in Seq(Turns \union {None}) /\ Len(route') = Len(kind')
        /\ \A u \in Known' : HasMessage(u)' => route'[u] = u
    <2>1. PICK m \in Turns \union {None} : route' = Append(route, m) /\ (HasMessage(t)' => m = t)
      BY <1>3
    <2>2. /\ route' \in Seq(Turns \union {None}) /\ Len(route') = Len(route) + 1
          /\ route'[Len(route) + 1] = m /\ \A u \in 1..Len(route) : route'[u] = route[u]
      BY <1>2, <2>1
    <2>3. ASSUME NEW u \in Known', HasMessage(u)' PROVE route'[u] = u
      <3>1. CASE u = t
        BY <1>2, <2>1, <2>2, <2>3, <3>1
      <3>2. CASE u # t
        BY <1>1, <1>2, <2>2, <2>3, <3>2 DEF TurnsFit
      <3>3. QED
        BY <3>1, <3>2
    <2>4. QED
      BY <1>1, <1>2, <2>2, <2>3
  <1>5. pendingMsg' \in Seq(Turns) /\ pendingSup' \in Seq(BOOLEAN) /\ landing' \subseteq Turns
    <2>1. pendingMsg \in Seq(Turns) /\ pendingSup \in Seq(BOOLEAN) /\ landing \subseteq Turns
      BY DEF MarksTypeOK
    <2>2. CASE k \in {"plain", "silent"}
      <3>1. /\ pendingMsg' = Append(pendingMsg, t) /\ pendingSup' = Append(pendingSup, k = "silent")
            /\ landing' \subseteq landing \union {t}
        BY <1>0, <2>2 DEF Enqueue
      <3>2. (k = "silent") \in BOOLEAN
        OBVIOUS
      <3>3. QED
        BY <1>1, <2>1, <3>1, <3>2
    <2>3. CASE k \notin {"plain", "silent"}
      <3>1. /\ pendingMsg' = pendingMsg /\ pendingSup' = pendingSup
            /\ landing' \subseteq landing \union (IF pendingMsg # <<>> THEN {Newest} ELSE {})
        BY <2>3 DEF Enqueue
      <3>2. QED
        BY <2>1, <3>1, NewestIs
    <2>4. QED
      BY <2>2, <2>3
  <1>6. UNCHANGED <<turn, step, taken, flight, wears, stops, late, turnVerdict>>
    BY DEF Enqueue
  <1>7. MarksTypeOK'
    <2>1. Len(kind') <= MaxTurns
      BY <1>1, <1>2, MarksAssumption DEF Turns
    <2>2. waiting' \in Seq(Turns)
      BY <1>1, SeqMonotonic
    <2>3. QED
      BY <1>1, <1>4, <1>5, <1>6, <2>1, <2>2 DEF MarksTypeOK
  <1>8. TurnsFit'
    BY <1>1, <1>4, <1>6 DEF TurnsFit
  <1>9. QED
    BY <1>7, <1>8

\* What a queued turn leaves of the lists, while nothing has shifted.
LEMMA EnqueueLined ==
    ASSUME MarksInv, NEW k \in TurnKinds, Enqueue(k), ~shifted'
    PROVE  Lined'
  <1>0. PICK t : t = Len(kind) + 1
    OBVIOUS
  <1>1. MarksTypeOK /\ TurnsFit /\ ~shifted /\ Lined
    <2>1. ~shifted
      BY DEF Enqueue
    <2>2. QED
      BY <2>1 DEF MarksInv
  <1>2. /\ Known' = Known \union {t} /\ kind'[t] = k /\ KindsStay
        /\ \A u \in Known : HasMessage(u)' = HasMessage(u)
    BY <1>0, <1>1, EnqueuedTurn
  <1>3. /\ waiting \in Seq(Known) /\ turn \in Known \union {None} /\ (turn = None <=> step = "idle")
        /\ pendingMsg \in Seq(Turns) /\ pendingSup \in Seq(BOOLEAN) /\ Len(kind) \in Nat
    BY <1>1 DEF TurnsFit, MarksTypeOK
  <1>4. Line \in Seq(Known) /\ Line' = Append(Line, t)
        /\ Len(Line') = Len(Line) + 1
    <2>1. waiting' = Append(waiting, t) /\ step' = step /\ turn' = turn
      BY <1>0 DEF Enqueue
    <2>2. CASE step = "status"
      <3>1. Line = <<turn>> \o waiting /\ Line' = <<turn>> \o waiting'
        BY <2>1, <2>2 DEF Line
      <3>2. turn \in Known
        BY <1>3, <2>2
      <3>3. QED
        BY <1>3, <2>1, <3>1, <3>2
    <2>3. CASE step # "status"
      BY <1>3, <2>1, <2>3 DEF Line
    <2>4. QED
      BY <2>2, <2>3
  <1>5. /\ \A i \in 1..Len(Line) : Line[i] \in Known /\ Line'[i] = Line[i]
        /\ Line'[Len(Line) + 1] = t
    BY <1>4
  <1>6. ToSet(Line) = Untaken
    <2>1. CASE step = "status"
      <3>1. Line = <<turn>> \o waiting /\ turn \in Known
        BY <1>3, <2>1 DEF Line
      <3>2. Len(Line) = Len(waiting) + 1 /\ Line[1] = turn
            /\ \A i \in 1..Len(waiting) : Line[i + 1] = waiting[i]
        BY <1>3, <3>1
      <3>3. ASSUME NEW i \in 1..Len(Line) PROVE i = 1 \/ i - 1 \in 1..Len(waiting)
        BY <1>3, <3>2
      <3>4. ToSet(Line) = {Line[i] : i \in 1..Len(Line)}
            /\ ToSet(waiting) = {waiting[i] : i \in 1..Len(waiting)}
        <4>1. DOMAIN Line = 1..Len(Line)
          BY <1>4
        <4>2. DOMAIN waiting = 1..Len(waiting)
          BY <1>3
        <4>3. QED
          BY <4>1, <4>2 DEF ToSet
      <3>5. ToSet(Line) \subseteq Untaken
        <4>1. ASSUME NEW i \in 1..Len(Line) PROVE Line[i] \in ToSet(waiting) \union {turn}
          <5>1. CASE i = 1
            BY <3>2, <5>1
          <5>2. CASE i # 1
            <6>1. i - 1 \in 1..Len(waiting) /\ (i - 1) + 1 = i
              BY <3>3, <5>2
            <6>2. QED
              BY <3>2, <3>4, <6>1
          <5>3. QED
            BY <5>1, <5>2
        <4>2. QED
          BY <2>1, <3>4, <4>1 DEF Untaken
      <3>6. Untaken \subseteq ToSet(Line)
        <4>1. \A i \in 1..Len(waiting) : i + 1 \in 1..Len(Line)
          BY <1>3, <3>2
        <4>2. turn \in ToSet(Line)
          BY <1>3, <3>2, <3>4
        <4>3. QED
          BY <2>1, <3>2, <3>4, <4>1, <4>2 DEF Untaken
      <3>7. QED
        BY <3>5, <3>6
    <2>2. CASE step # "status"
      BY <2>2 DEF Line, Untaken
    <2>3. QED
      BY <2>1, <2>2
  <1>7. \A i \in 1..Len(Line) :
            /\ HasMessage(Line[i])' = HasMessage(Line[i])
            /\ kind'[Line'[i]] = kind[Line[i]]
    BY <1>2, <1>5 DEF KindsStay, HasMessage
  <1>8. CASE k \in {"plain", "silent"}
    <2>1. /\ pendingMsg' = Append(pendingMsg, t) /\ pendingSup' = Append(pendingSup, k = "silent")
          /\ \A c \in Untaken : HasMessage(c)
      BY <1>0, <1>8 DEF Enqueue
    <2>2. \A i \in 1..Len(Line) : HasMessage(Line[i])
      BY <1>4, <1>6, <2>1 DEF ToSet
    <2>3. Len(pendingMsg) = Len(Line) /\ Len(pendingSup) = Len(Line)
      <3>1. /\ Len(pendingMsg) <= Len(Line) /\ Len(pendingSup) = Len(pendingMsg)
            /\ \A i \in 1..Len(Line) : ~(i <= Len(pendingMsg)) => ~HasMessage(Line[i])
        BY <1>1 DEF Lined
      <3>2. Len(pendingMsg) \in Nat /\ Len(Line) \in Nat
        BY <1>3, <1>4
      <3>3. ASSUME Len(pendingMsg) < Len(Line) PROVE FALSE
        <4>1. Len(Line) \in 1..Len(Line) /\ ~(Len(Line) <= Len(pendingMsg))
          BY <3>2, <3>3
        <4>2. QED
          BY <2>2, <3>1, <4>1
      <3>4. QED
        BY <3>1, <3>2, <3>3
    <2>4. (k = "silent") \in BOOLEAN
      OBVIOUS
    <2>5. /\ Len(pendingMsg') = Len(Line) + 1 /\ Len(pendingSup') = Len(Line) + 1
          /\ pendingMsg'[Len(Line) + 1] = t /\ pendingSup'[Len(Line) + 1] = (k = "silent")
          /\ \A i \in 1..Len(Line) :
                 pendingMsg'[i] = pendingMsg[i] /\ pendingSup'[i] = pendingSup[i]
      <3>1. t \in Turns
        BY <1>0, <1>1, EnqueuedTurn
      <3>2. QED
        BY <1>3, <2>1, <2>3, <2>4, <3>1
    <2>6. ASSUME NEW i \in 1..Len(Line')
          PROVE  /\ i <= Len(pendingMsg') /\ pendingMsg'[i] = Line'[i]
                 /\ kind'[Line'[i]] \in {"plain", "silent"}
                 /\ pendingSup'[i] = (kind'[Line'[i]] = "silent")
      <3>1. CASE i = Len(Line) + 1
        BY <1>2, <1>4, <1>5, <1>8, <2>5, <3>1
      <3>2. CASE i # Len(Line) + 1
        <4>1. i \in 1..Len(Line) /\ i <= Len(pendingMsg)
          BY <1>4, <2>3, <3>2
        <4>2. pendingMsg[i] = Line[i] /\ pendingSup[i] = (kind[Line[i]] = "silent")
              /\ kind[Line[i]] \in {"plain", "silent"}
          BY <1>1, <4>1 DEF Lined, HasMessage
        <4>3. i <= Len(pendingMsg')
          BY <1>4, <2>5, <4>1
        <4>4. QED
          BY <1>5, <1>7, <2>5, <4>1, <4>2, <4>3
      <3>3. QED
        BY <3>1, <3>2
    <2>7. Len(pendingMsg') <= Len(Line') /\ Len(pendingSup') = Len(pendingMsg')
      BY <1>4, <2>5
    <2>8. QED
      BY <2>6, <2>7 DEF Lined, HasMessage
  <1>9. CASE k \notin {"plain", "silent"}
    <2>1. pendingMsg' = pendingMsg /\ pendingSup' = pendingSup
      BY <1>9 DEF Enqueue
    <2>2. Len(pendingMsg) <= Len(Line) /\ Len(pendingSup) = Len(pendingMsg)
      BY <1>1 DEF Lined
    <2>3. Len(pendingMsg') <= Len(Line')
      BY <1>3, <1>4, <2>1, <2>2
    <2>4. ASSUME NEW i \in 1..Len(Line')
          PROVE  IF i <= Len(pendingMsg')
                 THEN /\ pendingMsg'[i] = Line'[i] /\ kind'[Line'[i]] \in {"plain", "silent"}
                      /\ pendingSup'[i] = (kind'[Line'[i]] = "silent")
                 ELSE kind'[Line'[i]] \notin {"plain", "silent"}
      <3>1. CASE i = Len(Line) + 1
        BY <1>2, <1>3, <1>4, <1>5, <1>9, <2>1, <2>2, <3>1
      <3>2. CASE i # Len(Line) + 1
        <4>1. i \in 1..Len(Line)
          BY <1>4, <3>2
        <4>2. IF i <= Len(pendingMsg)
              THEN /\ pendingMsg[i] = Line[i] /\ kind[Line[i]] \in {"plain", "silent"}
                   /\ pendingSup[i] = (kind[Line[i]] = "silent")
              ELSE kind[Line[i]] \notin {"plain", "silent"}
          BY <1>1, <4>1 DEF Lined, HasMessage
        <4>3. QED
          BY <1>5, <1>7, <2>1, <4>1, <4>2
      <3>3. QED
        BY <3>1, <3>2
    <2>5. QED
      BY <2>1, <2>2, <2>3, <2>4 DEF Lined, HasMessage
  <1>10. QED
    BY <1>8, <1>9

\* A message once listed stays listed until its turn takes it.
LEMMA EnqueueKeeps == ASSUME MarksInv, NEW k \in TurnKinds, Enqueue(k) PROVE MarksInv'
  <1>0. PICK t : t = Len(kind) + 1
    OBVIOUS
  <1>1. MarksTypeOK /\ TurnsFit
    BY DEF MarksInv
  <1>2. MarksTypeOK' /\ TurnsFit'
    BY <1>1, EnqueueTyped
  <1>3. SUFFICES ASSUME ~shifted' PROVE Lined' /\ InHand' /\ MarksFit' /\ VerdictsFit'
    BY <1>2 DEF MarksInv
  <1>4. ~shifted /\ InHand /\ MarksFit /\ VerdictsFit
    <2>1. ~shifted
      BY <1>3 DEF Enqueue
    <2>2. QED
      BY <2>1 DEF MarksInv
  <1>5. Lined'
    BY <1>3, EnqueueLined
  <1>6. /\ Known' = Known \union {t} /\ kind'[t] = k /\ KindsStay /\ Known' \subseteq Turns
        /\ t \notin Known /\ \A u \in Known : HasMessage(u)' = HasMessage(u)
    BY <1>0, <1>1, EnqueuedTurn
  <1>7. UNCHANGED <<turn, step, taken, flight, wears, stops, late, turnVerdict>>
    BY DEF Enqueue
  <1>8. InHand'
    <2>1. turn # None <=> step # "idle"
      BY <1>1 DEF TurnsFit
    <2>2. step # "idle" => /\ turn \in Known /\ kind'[turn] = kind[turn]
                           /\ HasMessage(turn)' = HasMessage(turn)
      BY <1>1, <1>6, <1>7, <2>1 DEF TurnsFit, KindsStay, HasMessage
    <2>3. step # "idle" => ItsOwn' = ItsOwn
      BY <1>7, <2>2 DEF ItsOwn
    <2>4. QED
      BY <1>4, <1>7, <2>2, <2>3 DEF InHand
  <1>9. MarksFit'
    <2>1. pendingMsg \in Seq(Turns) /\ t \in Turns
      BY <1>1, <1>6 DEF MarksTypeOK
    <2>2. pendingMsg' = pendingMsg \/ pendingMsg' = Append(pendingMsg, t)
      BY <1>0 DEF Enqueue
    <2>3. ToSet(pendingMsg) \subseteq ToSet(pendingMsg')
      <3>1. CASE pendingMsg' = Append(pendingMsg, t)
        <4>1. \A i \in DOMAIN pendingMsg :
                  i \in DOMAIN pendingMsg' /\ pendingMsg'[i] = pendingMsg[i]
          BY <2>1, <3>1
        <4>2. QED
          BY <4>1 DEF ToSet
      <3>2. QED
        BY <2>2, <3>1
    <2>4. QED
      BY <1>4, <1>7, <2>3 DEF MarksFit
  <1>10. VerdictsFit'
    <2>1. turnVerdict[t] = "none"
      BY <1>1, <1>6 DEF TurnsFit
    <2>2. QED
      BY <1>4, <1>6, <1>7, <2>1 DEF VerdictsFit, KindsStay
  <1>11. QED
    BY <1>5, <1>8, <1>9, <1>10

\* A message behind a compaction: nothing is claimed of the lists from here on.
LEMMA BehindCompactionKeeps ==
    ASSUME MarksInv, NEW k \in TurnKinds, EnqueueBehindCompaction(k) PROVE MarksInv'
  <1>0. PICK c : c = Len(kind) + 1
    OBVIOUS
  <1>1. MarksTypeOK /\ TurnsFit
    BY DEF MarksInv
  <1>2. /\ {c, c + 1} \subseteq Turns /\ k \in {"plain", "silent"} /\ shifted'
        /\ kind' = kind \o <<"compact", k>> /\ route' = route \o <<None, c + 1>>
        /\ waiting' = waiting \o <<c, c + 1>> /\ pendingMsg' = Append(pendingMsg, c + 1)
        /\ pendingSup' = Append(pendingSup, k = "silent") /\ landing' = landing \union {c + 1}
        /\ UNCHANGED <<turn, step, taken, flight, wears, stops, late, turnVerdict>>
    BY <1>0 DEF EnqueueBehindCompaction
  <1>3. /\ kind \in Seq(TurnKinds \union {"compact"}) /\ Len(kind) \in Nat
        /\ route \in Seq(Turns \union {None}) /\ Len(route) = Len(kind)
        /\ pendingMsg \in Seq(Turns) /\ pendingSup \in Seq(BOOLEAN) /\ landing \subseteq Turns
        /\ waiting \in Seq(Known) /\ c = Len(kind) + 1
    BY <1>0, <1>1 DEF MarksTypeOK, TurnsFit
  <1>4. /\ kind' \in Seq(TurnKinds \union {"compact"}) /\ Len(kind') = Len(kind) + 2
        /\ kind'[c] = "compact" /\ kind'[c + 1] = k
        /\ \A t \in 1..Len(kind) : kind'[t] = kind[t]
    BY <1>2, <1>3
  <1>5. Known = 1..Len(kind) /\ Known' = Known \union {c, c + 1} /\ Known' \subseteq Turns
    <2>1. DOMAIN kind = 1..Len(kind) /\ DOMAIN kind' = 1..(Len(kind) + 2)
      BY <1>3, <1>4
    <2>2. 1..(Len(kind) + 2) = (1..Len(kind)) \union {Len(kind) + 1, Len(kind) + 2}
      BY <1>3
    <2>3. c + 1 = Len(kind) + 2 /\ c + 1 <= MaxTurns
      BY <1>2, <1>3, MarksAssumption DEF Turns
    <2>4. 1..(Len(kind) + 2) \subseteq Turns
      BY <1>3, <2>3, MarksAssumption DEF Turns
    <2>5. QED
      BY <1>3, <2>1, <2>2, <2>3, <2>4 DEF Known
  <1>6. waiting' \in Seq(Known')
    <2>1. Known \subseteq Known' /\ {c, c + 1} \subseteq Known'
      BY <1>5
    <2>2. waiting \in Seq(Known')
      BY <1>3, <2>1, SeqMonotonic
    <2>3. <<c, c + 1>> \in Seq(Known')
      BY <2>1
    <2>4. QED
      BY <1>2, <2>2, <2>3
  <1>7. /\ route' \in Seq(Turns \union {None}) /\ Len(route') = Len(kind')
        /\ route'[c] = None /\ route'[c + 1] = c + 1
        /\ \A t \in 1..Len(kind) : route'[t] = route[t]
    <2> DEFINE more == <<None, c + 1>>
    <2>1. more \in Seq(Turns \union {None}) /\ Len(more) = 2
          /\ more[1] = None /\ more[2] = c + 1
      BY <1>2
    <2> HIDE DEF more
    <2>2. /\ route' \in Seq(Turns \union {None}) /\ Len(route') = Len(route) + 2
          /\ route'[Len(route) + 1] = more[1] /\ route'[Len(route) + 2] = more[2]
          /\ \A t \in 1..Len(route) : route'[t] = route[t]
      <3>1. route' = route \o more
        BY <1>2 DEF more
      <3>2. /\ route' \in Seq(Turns \union {None}) /\ Len(route') = Len(route) + 2
            /\ \A i \in 1..(Len(route) + 2) :
                   route'[i] = IF i <= Len(route) THEN route[i] ELSE more[i - Len(route)]
        <4>1. route \in Seq(Turns \union {None})
          BY <1>3
        <4>2. /\ route \o more \in Seq(Turns \union {None})
              /\ Len(route \o more) = Len(route) + Len(more)
              /\ \A i \in 1..(Len(route) + Len(more)) : (route \o more)[i] =
                     IF i <= Len(route) THEN route[i] ELSE more[i - Len(route)]
          BY <2>1, <4>1, ConcatProperties
        <4>3. QED
          BY <2>1, <3>1, <4>2
      <3>3. Len(route) \in Nat
        BY <1>3
      <3>4. QED
        BY <3>2, <3>3
    <2>3. c + 1 = Len(route) + 2 /\ c = Len(route) + 1
      BY <1>3
    <2>4. QED
      BY <1>3, <1>4, <2>1, <2>2, <2>3
  <1>8. MarksTypeOK'
    <2>1. Len(kind') <= MaxTurns
      BY <1>2, <1>3, <1>4, MarksAssumption DEF Turns
    <2>2. waiting' \in Seq(Turns)
      BY <1>5, <1>6, SeqMonotonic
    <2>3. pendingMsg' \in Seq(Turns) /\ landing' \subseteq Turns
      BY <1>2, <1>3
    <2>4. pendingSup' \in Seq(BOOLEAN)
      <3>1. (k = "silent") \in BOOLEAN
        OBVIOUS
      <3>2. QED
        BY <1>2, <1>3, <3>1
    <2>5. QED
      BY <1>1, <1>2, <1>4, <1>7, <2>1, <2>2, <2>3, <2>4 DEF MarksTypeOK
  <1>9. TurnsFit'
    <2>1. \A t \in Known' : HasMessage(t)' => route'[t] = t
      <3>1. SUFFICES ASSUME NEW t \in Known', kind'[t] \in {"plain", "silent"}
                     PROVE  route'[t] = t
        BY DEF HasMessage
      <3>2. CASE t = c
        BY <1>4, <3>1, <3>2
      <3>3. CASE t = c + 1
        BY <1>7, <3>3
      <3>4. CASE t \in Known
        BY <1>1, <1>4, <1>5, <1>7, <3>1, <3>4 DEF TurnsFit, HasMessage
      <3>5. QED
        BY <1>5, <3>1, <3>2, <3>3, <3>4
    <2>2. QED
      BY <1>1, <1>2, <1>5, <1>6, <2>1 DEF TurnsFit
  <1>10. QED
    BY <1>2, <1>8, <1>9 DEF MarksInv

\* A reaction Slack shows late is one that was set for a message still listed, or for one
\* excused.
LEMMA LandsKeeps == ASSUME MarksInv, NEW t \in Turns, HourglassLands(t) PROVE MarksInv'
  <1>1. MarksTypeOK /\ TurnsFit
    BY DEF MarksInv
  <1>2. /\ landing' \subseteq landing /\ wears' = [wears EXCEPT ![t] = @ \union {"queued"}]
        /\ late' = (IF t \in ToSet(pendingMsg) THEN late ELSE late \union {t})
        /\ UNCHANGED <<kind, route, waiting, turn, step, pendingMsg, pendingSup, taken, flight,
                       stops, shifted, turnVerdict>>
    BY DEF HourglassLands, WithMark
  <1>3. wears \in [Turns -> SUBSET Reactions] /\ wears' \in [Turns -> SUBSET Reactions]
    BY <1>1, <1>2 DEF MarksTypeOK, Reactions
  <1>4. MarksTypeOK'
    BY <1>1, <1>2, <1>3 DEF MarksTypeOK
  <1>5. TurnsFit' /\ (Lined => Lined') /\ (InHand => InHand') /\ (VerdictsFit => VerdictsFit')
    BY <1>1, <1>2 DEF TurnsFit, Known, HasMessage, Lined, Line, InHand, ItsOwn, VerdictsFit
  <1>6. MarksFit => MarksFit'
    <2>1. SUFFICES ASSUME MarksFit, NEW u \in Turns \ late'
                   PROVE  /\ "queued" \in wears'[u] => u \in ToSet(pendingMsg) \/ u = taken.msg
                          /\ "running" \in wears'[u] => u = flight.msg
                          /\ "interrupted" \notin wears'[u]
      BY <1>2 DEF MarksFit
    <2>2. u \in Turns \ late
      BY <1>2, <2>1
    <2>3. CASE u = t
      BY <1>2, <1>3, <2>1, <2>2, <2>3 DEF MarksFit
    <2>4. CASE u # t
      BY <1>2, <1>3, <2>1, <2>2, <2>4 DEF MarksFit
    <2>5. QED
      BY <2>3, <2>4
  <1>7. QED
    BY <1>2, <1>4, <1>5, <1>6 DEF MarksInv

\* The next turn begins its status.
LEMMA StartKeepsMarks == ASSUME MarksInv, Start PROVE MarksInv'
  <1>1. MarksTypeOK /\ TurnsFit
    BY DEF MarksInv
  <1>2. /\ turn = None /\ waiting # <<>> /\ turn' = Head(waiting) /\ waiting' = Tail(waiting)
        /\ step = "idle" /\ step' = "status"
        /\ UNCHANGED <<kind, route, pendingMsg, pendingSup, taken, flight, wears, landing,
                       stops, shifted, late, turnVerdict>>
    BY <1>1 DEF Start, TurnsFit
  <1>3. /\ waiting \in Seq(Known) /\ waiting' \in Seq(Known) /\ turn' \in Known
        /\ waiting = <<turn'>> \o waiting'
    <2>1. waiting \in Seq(Known)
      BY <1>1 DEF TurnsFit
    <2>2. Head(waiting) \in Known /\ Tail(waiting) \in Seq(Known)
      BY <1>2, <2>1
    <2>3. waiting = <<Head(waiting)>> \o Tail(waiting)
      BY <1>2, <2>1
    <2>4. QED
      BY <1>2, <2>1, <2>2, <2>3
  <1>4. Known' = Known /\ Known \subseteq Turns /\ None \notin Turns
    <2>1. kind \in Seq(TurnKinds \union {"compact"}) /\ Len(kind) <= MaxTurns
      BY <1>1 DEF MarksTypeOK
    <2>2. QED
      BY <1>2, <2>1, MarksAssumption DEF Known, Turns, None
  <1>5. MarksTypeOK'
    <2>1. waiting' \in Seq(Turns)
      BY <1>3, <1>4, SeqMonotonic
    <2>2. QED
      BY <1>1, <1>2, <1>3, <1>4, <2>1 DEF MarksTypeOK
  <1>6. TurnsFit'
    BY <1>1, <1>2, <1>3, <1>4 DEF TurnsFit, HasMessage
  <1>7. Line' = Line
    BY <1>2, <1>3 DEF Line
  <1>8. Lined => Lined'
    BY <1>2, <1>7 DEF Lined, HasMessage
  <1>9. (InHand => InHand') /\ (MarksFit => MarksFit') /\ (VerdictsFit => VerdictsFit')
    BY <1>2, <1>4 DEF InHand, MarksFit, VerdictsFit
  <1>10. QED
    BY <1>2, <1>5, <1>6, <1>8, <1>9 DEF MarksInv

\* The turn whose notify_start takes now is the first of the line.
LEMMA FirstOfLine ==
    ASSUME MarksTypeOK, TurnsFit, step = "status"
    PROVE  /\ turn \in Known /\ Known \subseteq Turns /\ None \notin Turns
           /\ Line \in Seq(Known) /\ Len(Line) = Len(waiting) + 1 /\ Line[1] = turn
           /\ \A i \in 1..Len(waiting) : Line[i + 1] = waiting[i]
  <1>1. turn \in Known /\ waiting \in Seq(Known)
    BY DEF TurnsFit
  <1>2. kind \in Seq(TurnKinds \union {"compact"}) /\ Len(kind) <= MaxTurns
    BY DEF MarksTypeOK
  <1>3. Known \subseteq Turns /\ None \notin Turns
    BY <1>2, MarksAssumption DEF Known, Turns, None
  <1>4. Line = <<turn>> \o waiting
    BY DEF Line
  <1>5. QED
    BY <1>1, <1>3, <1>4

\* The line without its first, and the lists without theirs.
LEMMA LinedMovesOn ==
    ASSUME MarksTypeOK, TurnsFit, Lined, step = "status", pendingMsg # <<>>,
           pendingMsg' = Tail(pendingMsg), pendingSup' = Tail(pendingSup),
           Line' = waiting, kind' = kind
    PROVE  Lined'
  <1>1. /\ Line \in Seq(Known) /\ Len(Line) = Len(waiting) + 1
        /\ \A i \in 1..Len(waiting) : Line[i + 1] = waiting[i]
    BY FirstOfLine
  <1>2. /\ pendingMsg \in Seq(Turns) /\ pendingSup \in Seq(BOOLEAN) /\ waiting \in Seq(Known)
    BY DEF MarksTypeOK, TurnsFit
  <1>3. Len(pendingMsg) <= Len(Line) /\ Len(pendingSup) = Len(pendingMsg)
    BY DEF Lined
  <1>4. /\ Len(pendingMsg') = Len(pendingMsg) - 1 /\ Len(pendingSup') = Len(pendingMsg) - 1
        /\ Len(pendingMsg) \in Nat /\ Len(waiting) \in Nat
        /\ \A i \in 1..Len(pendingMsg') :
               pendingMsg'[i] = pendingMsg[i + 1] /\ pendingSup'[i] = pendingSup[i + 1]
    <2>1. pendingSup # <<>>
      BY <1>2, <1>3
    <2>2. QED
      BY <1>2, <1>3, <2>1
  <1>5. ASSUME NEW i \in 1..Len(waiting)
        PROVE  IF i <= Len(pendingMsg')
               THEN /\ pendingMsg'[i] = waiting[i] /\ HasMessage(waiting[i])
                    /\ pendingSup'[i] = (kind[waiting[i]] = "silent")
               ELSE ~HasMessage(waiting[i])
    <2>1. i + 1 \in 1..Len(Line) /\ Line[i + 1] = waiting[i]
      BY <1>1, <1>4
    <2>2. i + 1 <= Len(pendingMsg) <=> i <= Len(pendingMsg')
      BY <1>4
    <2>3. i <= Len(pendingMsg') => i \in 1..Len(pendingMsg')
      BY <1>4
    <2>4. IF i + 1 <= Len(pendingMsg)
          THEN /\ pendingMsg[i + 1] = Line[i + 1] /\ HasMessage(Line[i + 1])
               /\ pendingSup[i + 1] = (kind[Line[i + 1]] = "silent")
          ELSE ~HasMessage(Line[i + 1])
      BY <2>1 DEF Lined
    <2>5. QED
      BY <1>4, <2>1, <2>2, <2>3, <2>4
  <1>6. Len(pendingMsg') <= Len(waiting) /\ Len(pendingSup') = Len(pendingMsg')
    BY <1>1, <1>3, <1>4
  <1>7. QED
    BY <1>5, <1>6 DEF Lined, HasMessage

\* A known turn is a turn, and None is none.
LEMMA KnownAreTurns == ASSUME MarksTypeOK PROVE Known \subseteq Turns /\ None \notin Turns
  <1>1. kind \in Seq(TurnKinds \union {"compact"}) /\ Len(kind) <= MaxTurns
    BY DEF MarksTypeOK
  <1>2. QED
    BY <1>1, MarksAssumption DEF Known, Turns, None

\* notify_start takes the first of each list, which are those of its own turn.
LEMMA TakeHeadKeeps == ASSUME MarksInv, TakeHead PROVE MarksInv'
  <1>1. MarksTypeOK /\ TurnsFit /\ step = "status"
    BY DEF MarksInv, TakeHead
  <1>2. UNCHANGED <<kind, route, waiting, turn, flight, wears, landing, stops, shifted, late,
                    turnVerdict>>
    BY DEF TakeHead
  <1>3. /\ turn \in Known /\ Known \subseteq Turns /\ None \notin Turns
        /\ Line \in Seq(Known) /\ Len(Line) = Len(waiting) + 1 /\ Line[1] = turn
    BY <1>1, FirstOfLine
  <1>4. CASE pendingMsg = <<>>
    <2>1. step' = "agent" /\ UNCHANGED <<pendingMsg, pendingSup, taken>>
      BY <1>4 DEF TakeHead
    <2>2. MarksTypeOK' /\ TurnsFit'
      BY <1>1, <1>2, <2>1, <1>3 DEF MarksTypeOK, TurnsFit, Known, HasMessage
    <2>3. ASSUME Lined PROVE ~HasMessage(turn) /\ Lined'
      <3>1. Len(waiting) \in Nat
        BY <1>1 DEF TurnsFit
      <3>2. ~HasMessage(turn)
        <4>1. 1 \in 1..Len(Line) /\ ~(1 <= Len(pendingMsg))
          BY <1>3, <1>4, <3>1
        <4>2. QED
          BY <1>3, <2>3, <4>1 DEF Lined
      <3>3. Line' = waiting
        BY <1>2, <2>1 DEF Line
      <3>4. \A i \in 1..Len(waiting) : ~HasMessage(waiting[i])
        <4>1. SUFFICES ASSUME NEW i \in 1..Len(waiting) PROVE ~HasMessage(waiting[i])
          OBVIOUS
        <4>2. i + 1 \in 1..Len(Line) /\ ~(i + 1 <= Len(pendingMsg)) /\ Line[i + 1] = waiting[i]
          BY <1>1, <1>3, <1>4, <3>1, FirstOfLine
        <4>3. QED
          BY <2>3, <4>2 DEF Lined
      <3>5. Len(pendingMsg) = 0 /\ Len(pendingSup) = 0
        BY <1>4, <2>3 DEF Lined
      <3>6. Lined'
        BY <1>2, <2>1, <3>1, <3>3, <3>4, <3>5 DEF Lined, HasMessage
      <3>7. QED
        BY <3>2, <3>6
    <2>4. ~HasMessage(turn) /\ InHand => InHand'
      BY <1>1, <1>2, <2>1 DEF InHand, HasMessage
    <2>5. (MarksFit => MarksFit') /\ (VerdictsFit => VerdictsFit')
      BY <1>2, <2>1 DEF MarksFit, VerdictsFit, Known
    <2>6. QED
      BY <1>2, <2>2, <2>3, <2>4, <2>5 DEF MarksInv
  <1>5. CASE pendingMsg # <<>>
    <2>1. /\ step' = "marking" /\ pendingMsg' = Tail(pendingMsg)
          /\ taken' = [msg |-> Head(pendingMsg), sup |-> pendingSup # <<>> /\ Head(pendingSup)]
          /\ pendingSup' = IF pendingSup = <<>> THEN <<>> ELSE Tail(pendingSup)
      BY <1>5 DEF TakeHead
    <2>2. pendingMsg \in Seq(Turns) /\ pendingSup \in Seq(BOOLEAN)
      BY <1>1 DEF MarksTypeOK
    <2>3. /\ pendingMsg' \in Seq(Turns) /\ pendingSup' \in Seq(BOOLEAN)
          /\ Head(pendingMsg) \in Turns /\ Head(pendingMsg) = pendingMsg[1]
      <3>1. pendingMsg' \in Seq(Turns)
        BY <1>5, <2>1, <2>2, HeadTailProperties
      <3>2. pendingSup' \in Seq(BOOLEAN)
        BY <2>1, <2>2, HeadTailProperties
      <3>3. Head(pendingMsg) \in Turns /\ Head(pendingMsg) = pendingMsg[1]
        BY <1>5, <2>2
      <3>4. QED
        BY <3>1, <3>2, <3>3
    <2>4. (pendingSup # <<>> /\ Head(pendingSup)) \in BOOLEAN
      OBVIOUS
    <2>5. taken' \in [msg : Turns \union {None}, sup : BOOLEAN] /\ taken'.msg = Head(pendingMsg)
      BY <2>1, <2>3, <2>4
    <2>6. MarksTypeOK'
      BY <1>1, <1>2, <2>1, <2>3, <2>5 DEF MarksTypeOK
    <2>7. TurnsFit'
      BY <1>1, <1>2, <1>3, <2>1, <2>3, <2>5 DEF TurnsFit, Known, HasMessage
    <2>8. ASSUME Lined
          PROVE  /\ HasMessage(turn) /\ pendingMsg[1] = turn
                 /\ pendingSup # <<>> /\ Head(pendingSup) = (kind[turn] = "silent")
                 /\ Lined'
      <3>1. Len(waiting) \in Nat /\ Len(pendingMsg) \in Nat /\ 1 <= Len(pendingMsg)
        BY <1>1, <1>5, <2>2 DEF TurnsFit
      <3>2. 1 \in 1..Len(Line)
        BY <1>3, <3>1
      <3>3. /\ pendingMsg[1] = turn /\ HasMessage(turn) /\ pendingSup[1] = (kind[turn] = "silent")
        BY <1>3, <2>8, <3>1, <3>2 DEF Lined
      <3>4. Len(pendingSup) = Len(pendingMsg)
        BY <2>8 DEF Lined
      <3>5. pendingSup # <<>> /\ Head(pendingSup) = pendingSup[1]
        BY <2>2, <3>1, <3>4
      <3>6. Line' = waiting
        BY <1>2, <2>1 DEF Line
      <3>7. pendingSup' = Tail(pendingSup)
        BY <2>1, <3>5
      <3>8. Lined'
        BY <1>1, <1>2, <1>5, <2>1, <2>8, <3>6, <3>7, LinedMovesOn
      <3>9. QED
        BY <3>3, <3>5, <3>8
    <2>9. Lined /\ InHand => InHand'
      <3>1. SUFFICES ASSUME Lined, InHand PROVE InHand'
        OBVIOUS
      <3>2. taken' = [msg |-> turn, sup |-> kind[turn] = "silent"]
        BY <2>1, <2>3, <2>8, <3>1
      <3>3. QED
        BY <1>1, <1>2, <2>1, <2>8, <3>1, <3>2 DEF InHand, ItsOwn, HasMessage
    <2>10. Lined /\ InHand /\ MarksFit => MarksFit'
      <3>1. SUFFICES ASSUME Lined, InHand, MarksFit, NEW t \in Turns \ late
                     PROVE  /\ "queued" \in wears[t] => t \in ToSet(pendingMsg') \/ t = taken'.msg
                            /\ "running" \in wears[t] => t = flight.msg
                            /\ "interrupted" \notin wears[t]
        BY <1>2 DEF MarksFit
      <3>2. /\ "queued" \in wears[t] => t \in ToSet(pendingMsg) \/ t = taken.msg
            /\ "running" \in wears[t] => t = flight.msg
            /\ "interrupted" \notin wears[t]
        BY <3>1 DEF MarksFit
      <3>3. taken.msg # t
        BY <1>1, <1>3, <3>1 DEF InHand, Nothing
      <3>4. ToSet(pendingMsg) \subseteq {Head(pendingMsg)} \union ToSet(pendingMsg')
        <4>1. ASSUME NEW i \in 1..Len(pendingMsg)
              PROVE  pendingMsg[i] \in {Head(pendingMsg)} \union ToSet(pendingMsg')
          <5>1. CASE i = 1
            BY <2>3, <5>1
          <5>2. CASE i # 1
            <6>1. i - 1 \in DOMAIN pendingMsg' /\ pendingMsg'[i - 1] = pendingMsg[i]
              <7>1. /\ Len(pendingMsg') = Len(pendingMsg) - 1
                    /\ DOMAIN pendingMsg' = 1..Len(pendingMsg')
                    /\ \A j \in 1..Len(pendingMsg') : pendingMsg'[j] = pendingMsg[j + 1]
                <8>1. /\ Len(Tail(pendingMsg)) = Len(pendingMsg) - 1
                      /\ \A j \in 1..Len(Tail(pendingMsg)) :
                             Tail(pendingMsg)[j] = pendingMsg[j + 1]
                  BY <1>5, <2>2, HeadTailProperties
                <8>2. DOMAIN pendingMsg' = 1..Len(pendingMsg')
                  BY <2>3
                <8>3. QED
                  BY <2>1, <8>1, <8>2
              <7>2. i - 1 \in 1..Len(pendingMsg') /\ (i - 1) + 1 = i
                BY <2>2, <5>2, <7>1
              <7>3. QED
                BY <7>1, <7>2
            <6>2. QED
              BY <6>1 DEF ToSet
          <5>3. QED
            BY <5>1, <5>2
        <4>2. DOMAIN pendingMsg = 1..Len(pendingMsg)
          BY <2>2
        <4>3. QED
          BY <4>1, <4>2 DEF ToSet
      <3>5. QED
        BY <2>5, <3>2, <3>3, <3>4
    <2>11. VerdictsFit => VerdictsFit'
      BY <1>2 DEF VerdictsFit, Known
    <2>12. QED
      BY <1>2, <2>6, <2>7, <2>8, <2>9, <2>10, <2>11 DEF MarksInv
  <1>6. QED
    BY <1>4, <1>5

\* The message in hand is marked as running.
LEMMA InFlightKeeps == ASSUME MarksInv, InFlight PROVE MarksInv'
  <1>1. MarksTypeOK /\ TurnsFit /\ step = "marking"
    BY DEF MarksInv, InFlight
  <1>2. /\ step' = "agent" /\ flight' = taken /\ taken' = Nothing
        /\ wears' = [wears EXCEPT ![taken.msg] = {"running"}]
        /\ UNCHANGED <<kind, route, waiting, turn, pendingMsg, pendingSup, landing, stops,
                       shifted, late, turnVerdict>>
    BY DEF InFlight
  <1>3. /\ wears \in [Turns -> SUBSET Reactions] /\ wears' \in [Turns -> SUBSET Reactions]
        /\ taken \in [msg : Turns \union {None}, sup : BOOLEAN] /\ taken.msg \in Turns
        /\ Nothing \in [msg : Turns \union {None}, sup : BOOLEAN]
    BY <1>1, <1>2 DEF MarksTypeOK, Reactions, TurnsFit, Nothing
  <1>4. MarksTypeOK'
    BY <1>1, <1>2, <1>3 DEF MarksTypeOK
  <1>5. TurnsFit'
    BY <1>1, <1>2 DEF TurnsFit, Known, HasMessage
  <1>6. Lined => Lined'
    BY <1>1, <1>2 DEF Lined, Line, HasMessage
  <1>7. InHand => InHand'
    BY <1>1, <1>2 DEF InHand, ItsOwn, HasMessage
  <1>8. InHand /\ MarksFit => MarksFit'
    BY <1>1, <1>2, <1>3 DEF InHand, MarksFit, Nothing, None, Turns
  <1>9. VerdictsFit => VerdictsFit'
    BY <1>2 DEF VerdictsFit, Known
  <1>10. QED
    BY <1>2, <1>4, <1>5, <1>6, <1>7, <1>8, <1>9 DEF MarksInv

\* The turn answers, and its verdict is that of its own message.
LEMMA AnswerKeeps == ASSUME MarksInv, Answer PROVE MarksInv'
  <1>1. MarksTypeOK /\ TurnsFit /\ step = "agent"
    BY DEF MarksInv, Answer
  <1>2. /\ step' = "answered"
        /\ turnVerdict' =
               [turnVerdict EXCEPT ![turn] = IF flight.sup THEN "withheld" ELSE "posted"]
        /\ UNCHANGED <<kind, route, waiting, turn, pendingMsg, pendingSup, taken, flight, wears,
                       landing, stops, shifted, late>>
    BY DEF Answer
  <1>3. turn \in Known
    BY <1>1 DEF TurnsFit
  <1>4. turnVerdict' \in [Turns -> {"none", "posted", "withheld"}]
    BY <1>1, <1>2 DEF MarksTypeOK
  <1>5. MarksTypeOK'
    BY <1>1, <1>2, <1>4 DEF MarksTypeOK
  <1>6. TurnsFit'
    BY <1>1, <1>2, <1>3 DEF TurnsFit, Known, HasMessage, MarksTypeOK
  <1>7. (Lined => Lined') /\ (InHand => InHand') /\ (MarksFit => MarksFit')
    BY <1>1, <1>2 DEF Lined, Line, HasMessage, InHand, ItsOwn, MarksFit
  <1>8. InHand /\ VerdictsFit => VerdictsFit'
    <2>1. SUFFICES ASSUME InHand, VerdictsFit, NEW t \in Known, turnVerdict'[t] # "none"
                   PROVE  turnVerdict'[t] = "withheld" <=> kind[t] = "silent"
      BY <1>2 DEF VerdictsFit, Known
    <2>2. CASE t = turn
      <3>1. flight.sup <=> kind[turn] = "silent"
        <4>1. flight = IF HasMessage(turn) THEN ItsOwn ELSE Nothing
          BY <1>1, <2>1 DEF InHand
        <4>2. CASE HasMessage(turn)
          BY <4>1, <4>2 DEF ItsOwn
        <4>3. CASE ~HasMessage(turn)
          BY <4>1, <4>3 DEF Nothing, HasMessage
        <4>4. QED
          BY <4>2, <4>3
      <3>2. turnVerdict'[turn] = IF flight.sup THEN "withheld" ELSE "posted"
        <4>1. turn \in Turns
          BY <1>1, <1>3, KnownAreTurns
        <4>2. QED
          BY <1>1, <1>2, <4>1 DEF MarksTypeOK
      <3>3. QED
        BY <2>2, <3>1, <3>2
    <2>3. CASE t # turn
      BY <1>1, <1>2, <2>1, <2>3 DEF VerdictsFit, MarksTypeOK
    <2>4. QED
      BY <2>2, <2>3
  <1>9. QED
    BY <1>2, <1>5, <1>6, <1>7, <1>8 DEF MarksInv

\* What was in flight is unmarked, and the turn is over.
LEMMA CompleteKeepsMarks == ASSUME MarksInv, Complete PROVE MarksInv'
  <1>1. MarksTypeOK /\ TurnsFit /\ step = "answered"
    BY DEF MarksInv, Complete
  <1>2. /\ step' = "idle" /\ turn' = None /\ flight' = Nothing /\ taken' = Nothing
        /\ wears' = WithoutMarks(flight.msg, {"running"})
        /\ UNCHANGED <<kind, route, waiting, pendingMsg, pendingSup, landing, stops, shifted,
                       late, turnVerdict>>
    BY DEF Complete, Finish
  <1>3. /\ wears \in [Turns -> SUBSET Reactions] /\ wears' \in [Turns -> SUBSET Reactions]
        /\ Nothing \in [msg : Turns \union {None}, sup : BOOLEAN]
    BY <1>1, <1>2 DEF MarksTypeOK, Reactions, Nothing, WithoutMarks
  <1>4. MarksTypeOK'
    BY <1>1, <1>2, <1>3 DEF MarksTypeOK
  <1>5. TurnsFit'
    BY <1>1, <1>2 DEF TurnsFit, Known, HasMessage
  <1>6. (Lined => Lined') /\ (VerdictsFit => VerdictsFit')
    BY <1>1, <1>2 DEF Lined, Line, HasMessage, VerdictsFit, Known
  <1>7. InHand'
    BY <1>2 DEF InHand
  <1>8. InHand /\ MarksFit => MarksFit'
    <2>1. SUFFICES ASSUME InHand, MarksFit, NEW t \in Turns \ late
                   PROVE  /\ "queued" \in wears'[t] => t \in ToSet(pendingMsg)
                          /\ "running" \notin wears'[t] /\ "interrupted" \notin wears'[t]
      BY <1>2 DEF MarksFit
    <2>2. /\ "queued" \in wears[t] => t \in ToSet(pendingMsg) \/ t = taken.msg
          /\ "running" \in wears[t] => t = flight.msg
          /\ "interrupted" \notin wears[t]
      BY <2>1 DEF MarksFit
    <2>3. taken.msg # t /\ t # None
      BY <1>1, <2>1, KnownAreTurns DEF InHand, Nothing
    <2>4. wears'[t] \subseteq wears[t] /\ (t = flight.msg => "running" \notin wears'[t])
      BY <1>2, <1>3, <2>3 DEF WithoutMarks
    <2>5. QED
      BY <2>2, <2>3, <2>4
  <1>9. QED
    BY <1>2, <1>4, <1>5, <1>6, <1>7, <1>8 DEF MarksInv

\* A list without its first, and without any of its own.
LEMMA WithoutFirst ==
    ASSUME NEW T, NEW s \in Seq(T), s # <<>> PROVE RemoveAt(s, 1) = Tail(s)
  <1>1. SubSeq(s, 1, 1 - 1) = <<>>
    BY SubSeqEmpty
  <1>2. SubSeq(s, 1 + 1, Len(s)) = Tail(s)
    BY TailIsSubSeq
  <1>3. Tail(s) \in Seq(T)
    OBVIOUS
  <1>4. QED
    BY <1>1, <1>2, <1>3 DEF RemoveAt

\* What is left is of the same kind.
LEMMA RemovedAre ==
    ASSUME NEW T, NEW s \in Seq(T), NEW i \in 1..Len(s) PROVE RemoveAt(s, i) \in Seq(T)
  <1>1. Len(s) \in Nat /\ i \in Int /\ \A j \in 1..Len(s) : s[j] \in T
    OBVIOUS
  <1>2. SubSeq(s, 1, i - 1) \in Seq(T)
    <2>1. \A j \in 1..i - 1 : s[j] \in T
      BY <1>1
    <2>2. QED
      BY <1>1, <2>1, SubSeqProperties
  <1>3. SubSeq(s, i + 1, Len(s)) \in Seq(T)
    <2>1. \A j \in i + 1..Len(s) : s[j] \in T
      BY <1>1
    <2>2. QED
      BY <1>1, <2>1, SubSeqProperties
  <1>4. QED
    BY <1>2, <1>3 DEF RemoveAt

\* What a list holds but its first is in its rest.
LEMMA RestOf ==
    ASSUME NEW T, NEW s \in Seq(T), s # <<>>, NEW t \in ToSet(s), t # s[1]
    PROVE  t \in ToSet(Tail(s))
  <1>1. PICK i \in 1..Len(s) : s[i] = t
    BY DEF ToSet
  <1>2. i # 1 /\ i - 1 \in 1..Len(s) - 1
    BY <1>1
  <1>3. Len(Tail(s)) = Len(s) - 1 /\ Tail(s)[i - 1] = s[i] /\ Tail(s) \in Seq(T)
    BY <1>1, <1>2
  <1>4. i - 1 \in DOMAIN Tail(s)
    BY <1>2, <1>3
  <1>5. QED
    BY <1>1, <1>3, <1>4 DEF ToSet

\* The message whose turn fails in its set-up is the first listed, if it has one.
LEMMA SetupFailsKeepsMarks == ASSUME MarksInv, SetupFails PROVE MarksInv'
  <1>1. /\ MarksTypeOK /\ TurnsFit /\ step = "status" /\ turn \in Known
        /\ Known \subseteq Turns /\ None \notin Turns
    <2>1. MarksTypeOK /\ TurnsFit /\ step = "status"
      BY DEF MarksInv, SetupFails
    <2>2. QED
      BY <2>1, FirstOfLine
  <1>2. PICK m : m = route[turn]
    OBVIOUS
  <1>3. /\ IF m \in ToSet(pendingMsg)
           THEN \E i \in DOMAIN pendingMsg :
                   /\ pendingMsg[i] = m /\ \A j \in 1..i - 1 : pendingMsg[j] # m
                   /\ pendingMsg' = RemoveAt(pendingMsg, i)
                   /\ pendingSup' = IF i <= Len(pendingSup) THEN RemoveAt(pendingSup, i)
                                    ELSE pendingSup
           ELSE UNCHANGED <<pendingMsg, pendingSup>>
        /\ turn' = None /\ step' = "idle" /\ flight' = Nothing /\ taken' = Nothing
        /\ wears' = WithoutMarks(m, {"queued", "interrupted"})
        /\ UNCHANGED <<kind, route, waiting, landing, shifted, late, turnVerdict>>
    BY <1>2 DEF SetupFails, Finish
  <1>4. /\ pendingMsg \in Seq(Turns) /\ pendingSup \in Seq(BOOLEAN)
        /\ wears \in [Turns -> SUBSET Reactions]
    BY <1>1 DEF MarksTypeOK
  <1>5. pendingMsg' \in Seq(Turns) /\ pendingSup' \in Seq(BOOLEAN)
    <2>1. CASE m \notin ToSet(pendingMsg)
      BY <1>3, <1>4, <2>1
    <2>2. CASE m \in ToSet(pendingMsg)
      <3>1. PICK i \in DOMAIN pendingMsg :
                   /\ pendingMsg' = RemoveAt(pendingMsg, i)
                   /\ pendingSup' = IF i <= Len(pendingSup) THEN RemoveAt(pendingSup, i)
                                    ELSE pendingSup
        BY <1>3, <2>2
      <3>2. i \in 1..Len(pendingMsg)
        BY <1>4, <3>1
      <3>3. i <= Len(pendingSup) => i \in 1..Len(pendingSup)
        BY <1>4, <3>2
      <3>4. QED
        BY <1>4, <3>1, <3>2, <3>3, RemovedAre
    <2>3. QED
      BY <2>1, <2>2
  <1>6. /\ wears' \in [Turns -> SUBSET Reactions]
        /\ Nothing \in [msg : Turns \union {None}, sup : BOOLEAN]
    BY <1>3, <1>4 DEF WithoutMarks, Nothing, Reactions
  <1>7. MarksTypeOK'
    BY <1>1, <1>3, <1>5, <1>6 DEF MarksTypeOK
  <1>8. TurnsFit'
    BY <1>1, <1>3 DEF TurnsFit, Known, HasMessage
  <1>9. InHand' /\ (VerdictsFit => VerdictsFit')
    BY <1>3 DEF InHand, VerdictsFit, Known
  <1>10. ASSUME Lined PROVE Lined' /\ (MarksFit /\ InHand => MarksFit')
    <2>1. /\ Len(pendingMsg) <= Len(Line) /\ Len(pendingSup) = Len(pendingMsg)
          /\ \A j \in 1..Len(Line) :
                 IF j <= Len(pendingMsg)
                 THEN pendingMsg[j] = Line[j] /\ HasMessage(Line[j])
                 ELSE ~HasMessage(Line[j])
      BY <1>10 DEF Lined
    <2>2. /\ Line \in Seq(Known) /\ Len(Line) = Len(waiting) + 1 /\ Line[1] = turn
          /\ \A j \in 1..Len(waiting) : Line[j + 1] = waiting[j]
          /\ waiting \in Seq(Known)
      BY <1>1, FirstOfLine DEF TurnsFit
    <2>3. Line' = waiting
      BY <1>3 DEF Line
    <2>4. CASE pendingMsg = <<>>
      <3>1. UNCHANGED <<pendingMsg, pendingSup>>
        BY <1>3, <2>4 DEF ToSet
      <3>2. Lined'
        <4>1. Len(pendingMsg') = 0 /\ Len(pendingSup') = 0
          BY <2>1, <2>4, <3>1
        <4>2. \A j \in 1..Len(waiting) : ~HasMessage(waiting[j])
          <5>1. SUFFICES ASSUME NEW j \in 1..Len(waiting) PROVE ~HasMessage(waiting[j])
            OBVIOUS
          <5>2. j + 1 \in 1..Len(Line) /\ ~(j + 1 <= Len(pendingMsg))
            BY <2>2, <2>4
          <5>3. QED
            BY <2>1, <2>2, <5>2
        <4>3. QED
          BY <1>3, <2>2, <2>3, <4>1, <4>2 DEF Lined, HasMessage
      <3>3. MarksFit /\ InHand => MarksFit'
        <4>1. wears' \in [Turns -> SUBSET Reactions]
              /\ \A t \in Turns : wears'[t] \subseteq wears[t]
          BY <1>3, <1>4, <1>6 DEF WithoutMarks
        <4>2. QED
          BY <1>1, <1>3, <3>1, <4>1 DEF MarksFit, InHand
      <3>4. QED
        BY <3>2, <3>3
    <2>5. CASE pendingMsg # <<>>
      <3>1. Len(pendingMsg) >= 1 /\ 1 \in 1..Len(Line) /\ 1 \in DOMAIN pendingMsg
        BY <1>4, <2>2, <2>5
      <3>2. pendingMsg[1] = turn /\ HasMessage(turn)
        BY <2>1, <2>2, <3>1
      <3>3. m = turn
        BY <1>1, <1>2, <3>2 DEF TurnsFit
      <3>4. m \in ToSet(pendingMsg)
        BY <3>1, <3>2, <3>3 DEF ToSet
      <3>5. PICK i \in DOMAIN pendingMsg :
                   /\ pendingMsg[i] = m /\ \A j \in 1..i - 1 : pendingMsg[j] # m
                   /\ pendingMsg' = RemoveAt(pendingMsg, i)
                   /\ pendingSup' = IF i <= Len(pendingSup) THEN RemoveAt(pendingSup, i)
                                    ELSE pendingSup
        BY <1>3, <3>4
      <3>6. i = 1
        <4>1. i \in Nat /\ i >= 1 /\ (i > 1 => 1 \in 1..i - 1)
          BY <1>4, <3>5
        <4>2. QED
          BY <3>2, <3>3, <3>5, <4>1
      <3>7. pendingSup # <<>> /\ 1 <= Len(pendingSup)
        BY <1>4, <2>1, <3>1
      <3>8. pendingMsg' = Tail(pendingMsg) /\ pendingSup' = Tail(pendingSup)
        BY <1>4, <2>5, <3>5, <3>6, <3>7, WithoutFirst
      <3>9. Lined'
        BY <1>1, <1>3, <1>10, <2>3, <2>5, <3>8, LinedMovesOn
      <3>10. MarksFit /\ InHand => MarksFit'
        <4>1. \A t \in ToSet(pendingMsg) : t # turn => t \in ToSet(pendingMsg')
          BY <1>4, <2>5, <3>2, <3>8, RestOf
        <4>2. turn # None /\ turn \in Turns
          BY <1>1
        <4>3. wears' = [wears EXCEPT ![turn] = @ \ {"queued", "interrupted"}]
          BY <1>3, <3>3, <4>2 DEF WithoutMarks
        <4>4. SUFFICES ASSUME MarksFit, InHand, NEW t \in Turns \ late
                       PROVE  /\ "queued" \in wears'[t] => t \in ToSet(pendingMsg')
                              /\ "running" \notin wears'[t] /\ "interrupted" \notin wears'[t]
          BY <1>3 DEF MarksFit
        <4>5. /\ "queued" \in wears[t] => t \in ToSet(pendingMsg)
              /\ "running" \notin wears[t] /\ "interrupted" \notin wears[t]
          BY <1>1, <4>4 DEF MarksFit, InHand, Nothing
        <4>6. wears'[t] \subseteq wears[t] /\ (t = turn => "queued" \notin wears'[t])
          BY <1>4, <4>2, <4>3, <4>4
        <4>7. QED
          BY <4>1, <4>5, <4>6
      <3>11. QED
        BY <3>9, <3>10
    <2>6. QED
      BY <2>4, <2>5
  <1>11. QED
    BY <1>3, <1>7, <1>8, <1>9, <1>10 DEF MarksInv

\* $stop interrupts the turn and keeps those behind it, with their messages.
LEMMA StopTurnsKeeps == ASSUME MarksInv, StopTurns PROVE MarksInv'
  <1>1. MarksTypeOK /\ TurnsFit /\ turn # None
    BY DEF MarksInv, StopTurns
  <1>2. Known \subseteq Turns /\ None \notin Turns
    BY <1>1, KnownAreTurns
  <1>3. /\ turn' = None /\ step' = "idle" /\ flight' = Nothing /\ taken' = Nothing
        /\ waiting' = <<>> /\ shifted' = (shifted \/ waiting # <<>> \/ step = "status")
        /\ UNCHANGED <<kind, route, pendingMsg, pendingSup, landing, turnVerdict>>
    BY DEF StopTurns, Finish
  <1>4. CASE taken.msg = None
    <2>1. late' = late /\ wears' = WithoutMarks(flight.msg, {"running"})
      BY <1>4 DEF StopTurns, Finish
    <2>2. /\ wears \in [Turns -> SUBSET Reactions] /\ wears' \in [Turns -> SUBSET Reactions]
          /\ Nothing \in [msg : Turns \union {None}, sup : BOOLEAN]
      BY <1>1, <2>1 DEF MarksTypeOK, Reactions, Nothing, WithoutMarks
    <2>3. MarksTypeOK' /\ TurnsFit'
      BY <1>1, <1>3, <2>1, <2>2 DEF MarksTypeOK, TurnsFit, Known, HasMessage
    <2>4. SUFFICES ASSUME ~shifted' PROVE Lined' /\ InHand' /\ MarksFit' /\ VerdictsFit'
      BY <2>3 DEF MarksInv
    <2>5. Lined /\ InHand /\ MarksFit /\ VerdictsFit /\ waiting = <<>> /\ step # "status"
      BY <1>3, <2>4 DEF MarksInv
    <2>6. pendingMsg = <<>> /\ pendingSup = <<>>
      BY <1>1, <2>5 DEF Lined, Line, MarksTypeOK
    <2>7. Lined'
      BY <1>3, <2>6 DEF Lined, Line
    <2>8. InHand' /\ VerdictsFit'
      BY <1>3, <2>5 DEF InHand, VerdictsFit, Known
    <2>9. MarksFit'
      <3>1. SUFFICES ASSUME NEW t \in Turns \ late
                     PROVE  "queued" \notin wears'[t] /\ "running" \notin wears'[t]
                            /\ "interrupted" \notin wears'[t]
        BY <2>1 DEF MarksFit
      <3>2. /\ "queued" \notin wears[t] /\ "interrupted" \notin wears[t]
            /\ "running" \in wears[t] => t = flight.msg
        BY <1>2, <1>4, <2>5, <2>6, <3>1 DEF MarksFit, ToSet
      <3>3. wears'[t] \subseteq wears[t] /\ (t = flight.msg => "running" \notin wears'[t])
        BY <1>2, <2>1, <2>2, <3>1 DEF WithoutMarks
      <3>4. QED
        BY <3>2, <3>3
    <2>10. QED
      BY <2>7, <2>8, <2>9
  <1>5. CASE taken.msg # None
    <2>1. PICK left \in {wears[taken.msg], {}, {"running"}} :
                  wears' = [wears EXCEPT ![taken.msg] = left]
      BY <1>5 DEF StopTurns, Finish
    <2>2. late' = late \union {taken.msg}
      BY <1>5 DEF StopTurns
    <2>3. /\ wears \in [Turns -> SUBSET Reactions] /\ wears' \in [Turns -> SUBSET Reactions]
          /\ Nothing \in [msg : Turns \union {None}, sup : BOOLEAN] /\ taken.msg \in Turns
      BY <1>1, <1>5, <2>1 DEF MarksTypeOK, Reactions, Nothing
    <2>4. MarksTypeOK' /\ TurnsFit'
      BY <1>1, <1>3, <2>2, <2>3 DEF MarksTypeOK, TurnsFit, Known, HasMessage
    <2>5. SUFFICES ASSUME ~shifted' PROVE Lined' /\ InHand' /\ MarksFit' /\ VerdictsFit'
      BY <2>4 DEF MarksInv
    <2>6. Lined /\ InHand /\ MarksFit /\ VerdictsFit /\ waiting = <<>> /\ step # "status"
      BY <1>3, <2>5 DEF MarksInv
    <2>7. pendingMsg = <<>> /\ pendingSup = <<>>
      BY <1>1, <2>6 DEF Lined, Line, MarksTypeOK
    <2>8. Lined'
      BY <1>3, <2>7 DEF Lined, Line
    <2>9. InHand' /\ VerdictsFit'
      BY <1>3, <2>6 DEF InHand, VerdictsFit, Known
    <2>10. step = "marking" /\ flight = Nothing
      BY <1>1, <1>5, <2>6 DEF InHand, Nothing, MarksTypeOK
    <2>11. MarksFit'
      <3>1. SUFFICES ASSUME NEW t \in Turns \ late'
                     PROVE  wears'[t] = wears[t] /\ "queued" \notin wears[t]
                            /\ "running" \notin wears[t] /\ "interrupted" \notin wears[t]
        BY DEF MarksFit
      <3>2. t \notin late /\ t # taken.msg /\ t # None
        BY <1>2, <2>2, <3>1
      <3>3. QED
        BY <2>1, <2>3, <2>6, <2>7, <2>10, <3>1, <3>2 DEF MarksFit, ToSet, Nothing
    <2>12. QED
      BY <2>8, <2>9, <2>11
  <1>6. QED
    BY <1>4, <1>5

\* What is queued again by a restart, and listed.
LEMMA QueuedAgain ==
    ASSUME MarksTypeOK, TurnsFit, Restart
    PROVE  \E hand \in Seq(Known), back, routed \in Seq(Known) :
               /\ hand = (IF turn = None THEN <<>> ELSE <<turn>>) \o waiting
               /\ ToSet(back) = {t \in ToSet(hand) : kind[t] # "compact"}
               /\ ToSet(routed) = {t \in ToSet(back) : route[t] # None}
               /\ waiting' = back
               /\ pendingMsg' = [i \in DOMAIN routed |-> route[routed[i]]]
               /\ shifted' = (shifted \/ back # <<>>)
  <1>1. PICK hand : hand = (IF turn = None THEN <<>> ELSE <<turn>>) \o waiting
    OBVIOUS
  <1>2. hand \in Seq(Known)
    <2>1. waiting \in Seq(Known) /\ turn \in Known \union {None}
      BY DEF TurnsFit
    <2>2. (IF turn = None THEN <<>> ELSE <<turn>>) \in Seq(Known)
      BY <2>1
    <2>3. QED
      BY <1>1, <2>1, <2>2
  <1>3. ToSet(hand) \subseteq Known
    BY <1>2 DEF ToSet
  <1>4. PICK back : back = Picked(hand, {t \in Known : kind[t] # "compact"})
    OBVIOUS
  <1>5. back \in Seq(Known) /\ ToSet(back) = ToSet(hand) \cap {t \in Known : kind[t] # "compact"}
    BY <1>2, <1>4, PickedAre
  <1>6. PICK routed : routed = Picked(back, {t \in Known : route[t] # None})
    OBVIOUS
  <1>7. routed \in Seq(Known)
        /\ ToSet(routed) = ToSet(back) \cap {t \in Known : route[t] # None}
    BY <1>5, <1>6, PickedAre
  <1>8. /\ waiting' = back
        /\ pendingMsg' = [i \in DOMAIN routed |-> route[routed[i]]]
        /\ shifted' = (shifted \/ back # <<>>)
    BY <1>1, <1>4, <1>6 DEF Restart
  <1>9. /\ ToSet(back) = {t \in ToSet(hand) : kind[t] # "compact"}
        /\ ToSet(routed) = {t \in ToSet(back) : route[t] # None}
    BY <1>3, <1>5, <1>7
  <1>10. QED
    BY <1>1, <1>2, <1>5, <1>7, <1>8, <1>9

\* A daemon that comes back lists the turns it queues again, in their order.
LEMMA RestartKeepsMarks == ASSUME MarksInv, Restart PROVE MarksInv'
  <1>1. MarksTypeOK /\ TurnsFit
    BY DEF MarksInv
  <1>2. Known \subseteq Turns /\ None \notin Turns
    BY <1>1, KnownAreTurns
  <1>3. PICK hand \in Seq(Known), back \in Seq(Known), routed \in Seq(Known) :
               /\ hand = (IF turn = None THEN <<>> ELSE <<turn>>) \o waiting
               /\ ToSet(back) = {t \in ToSet(hand) : kind[t] # "compact"}
               /\ ToSet(routed) = {t \in ToSet(back) : route[t] # None}
               /\ waiting' = back
               /\ pendingMsg' = [i \in DOMAIN routed |-> route[routed[i]]]
               /\ shifted' = (shifted \/ back # <<>>)
    BY <1>1, QueuedAgain
  <1>4. PICK marked : marked = ToSet(pendingMsg) \union ({flight.msg} \ {None})
    OBVIOUS
  <1>5. /\ wears' = [t \in Turns |-> IF t \in marked
                          THEN (wears[t] \ {"running"}) \union {"interrupted"} ELSE wears[t]]
        /\ pendingSup' = <<>> /\ taken' = Nothing /\ flight' = Nothing
        /\ turn' = None /\ step' = "idle"
        /\ UNCHANGED <<kind, route, landing, late, turnVerdict>>
    BY <1>4 DEF Restart
  <1>6. /\ wears \in [Turns -> SUBSET Reactions] /\ wears' \in [Turns -> SUBSET Reactions]
        /\ Nothing \in [msg : Turns \union {None}, sup : BOOLEAN]
    BY <1>1, <1>5 DEF MarksTypeOK, Reactions, Nothing
  <1>7. pendingMsg' \in Seq(Turns)
    <2>1. Len(routed) \in Nat /\ DOMAIN routed = 1..Len(routed)
          /\ route \in Seq(Turns \union {None}) /\ DOMAIN route = Known
      BY <1>1 DEF MarksTypeOK, Known
    <2>2. \A i \in 1..Len(routed) : route[routed[i]] \in Turns
      <3>1. SUFFICES ASSUME NEW i \in 1..Len(routed) PROVE route[routed[i]] \in Turns
        OBVIOUS
      <3>2. routed[i] \in ToSet(routed)
        BY <2>1, <3>1 DEF ToSet
      <3>3. routed[i] \in Known
        BY <2>1, <3>1
      <3>4. route[routed[i]] # None
        BY <1>3, <3>2
      <3>5. route[routed[i]] \in Turns \union {None}
        BY <2>1, <3>3
      <3>6. QED
        BY <3>4, <3>5
    <2>3. QED
      BY <1>3, <2>1, <2>2
  <1>8. waiting' \in Seq(Known) /\ waiting' \in Seq(Turns)
    BY <1>2, <1>3
  <1>9. MarksTypeOK'
    BY <1>1, <1>5, <1>6, <1>7, <1>8 DEF MarksTypeOK
  <1>10. TurnsFit'
    BY <1>1, <1>5, <1>8 DEF TurnsFit, Known, HasMessage
  <1>11. ASSUME ~shifted' PROVE Lined' /\ InHand' /\ MarksFit' /\ VerdictsFit'
    <2>1. Lined /\ InHand /\ MarksFit /\ VerdictsFit /\ back = <<>>
      BY <1>3, <1>11 DEF MarksInv
    <2>2. \A t \in ToSet(hand) : kind[t] = "compact"
      BY <1>3, <2>1 DEF ToSet
    <2>3. turn # None => ~HasMessage(turn)
      <3>1. SUFFICES ASSUME turn # None PROVE turn \in ToSet(hand)
        BY <2>2 DEF HasMessage
      <3>2. hand = <<turn>> \o waiting /\ waiting \in Seq(Known) /\ turn \in Known
        BY <1>1, <1>3, <3>1 DEF TurnsFit
      <3>3. hand[1] = turn /\ 1 \in DOMAIN hand
        BY <3>2
      <3>4. QED
        BY <3>3 DEF ToSet
    <2>4. flight = Nothing /\ taken = Nothing
      <3>1. step = "idle" \/ turn # None
        BY <1>1 DEF TurnsFit
      <3>2. step \in {"idle", "status", "marking", "agent", "answered"}
        BY <1>1 DEF MarksTypeOK
      <3>3. QED
        BY <2>1, <2>3, <3>1, <3>2 DEF InHand
    <2>5. pendingMsg = <<>>
      <3>1. SUFFICES ASSUME pendingMsg # <<>> PROVE FALSE
        OBVIOUS
      <3>2. pendingMsg \in Seq(Turns) /\ waiting \in Seq(Known) /\ turn \in Known \union {None}
            /\ (step = "status" => turn # None)
        BY <1>1 DEF MarksTypeOK, TurnsFit
      <3>3. Len(pendingMsg) >= 1 /\ Len(pendingMsg) <= Len(Line)
        BY <2>1, <3>1, <3>2 DEF Lined
      <3>4. CASE step = "status"
        <4>1. Line[1] = turn
          BY <3>2, <3>4 DEF Line
        <4>2. 1 \in 1..Len(Line) /\ 1 <= Len(pendingMsg)
          BY <3>2, <3>3, <3>4 DEF Line
        <4>3. HasMessage(Line[1])
          BY <2>1, <4>2 DEF Lined
        <4>4. QED
          BY <2>3, <3>2, <3>4, <4>1, <4>3
      <3>5. CASE step # "status"
        <4>1. Line = waiting /\ 1 \in 1..Len(waiting)
          BY <3>2, <3>3, <3>5 DEF Line
        <4>2. HasMessage(waiting[1])
          BY <2>1, <3>3, <4>1 DEF Lined
        <4>3. waiting[1] \in ToSet(hand)
          <5>1. CASE turn = None
            <6>1. hand = <<>> \o waiting
              BY <1>3, <5>1
            <6>2. hand = waiting
              BY <3>2, <6>1, ConcatEmptySeq
            <6>3. QED
              BY <4>1, <3>2, <6>2 DEF ToSet
          <5>2. CASE turn # None
            <6>1. hand = <<turn>> \o waiting /\ turn \in Known
              BY <1>3, <3>2, <5>2
            <6>2. hand[2] = waiting[1] /\ 2 \in DOMAIN hand
              BY <3>2, <4>1, <6>1
            <6>3. QED
              BY <6>2 DEF ToSet
          <5>3. QED
            BY <5>1, <5>2
        <4>4. QED
          BY <2>2, <4>2, <4>3 DEF HasMessage
      <3>6. QED
        BY <3>4, <3>5
    <2>6. marked = {}
      BY <1>4, <2>4, <2>5 DEF Nothing, ToSet
    <2>7. wears' = wears
      BY <1>5, <1>6, <2>6
    <2>8. Len(pendingMsg') = 0
      <3>1. ToSet(routed) = {}
        BY <1>3, <2>1 DEF ToSet
      <3>2. Len(routed) = 0
        <4>1. Len(routed) \in Nat /\ DOMAIN routed = 1..Len(routed)
          OBVIOUS
        <4>2. 1 \in DOMAIN routed => routed[1] \in ToSet(routed)
          BY DEF ToSet
        <4>3. QED
          BY <3>1, <4>1, <4>2
      <3>3. DOMAIN pendingMsg' = {}
        BY <1>3, <3>2
      <3>4. QED
        BY <1>7, <3>3
    <2>9. Lined'
      BY <1>3, <1>5, <2>1, <2>8 DEF Lined, Line
    <2>10. InHand' /\ VerdictsFit'
      BY <1>5, <2>1 DEF InHand, VerdictsFit, Known
    <2>11. MarksFit'
      BY <1>2, <1>5, <2>1, <2>4, <2>5, <2>7 DEF MarksFit, ToSet, Nothing
    <2>12. QED
      BY <2>9, <2>10, <2>11
  <1>12. QED
    BY <1>9, <1>10, <1>11 DEF MarksInv

\* Every step keeps the invariant.
LEMMA MarksGoOn == MarksInv /\ [MarksNext]_marksVars => MarksInv'
  <1>1. SUFFICES ASSUME MarksInv, [MarksNext]_marksVars PROVE MarksInv'
    OBVIOUS
  <1>2. CASE UNCHANGED marksVars
    BY <1>1, <1>2 DEF marksVars, MarksInv, MarksTypeOK, TurnsFit, Lined, Line, InHand, ItsOwn,
                      MarksFit, VerdictsFit, Known, HasMessage
  <1>3. ASSUME NEW k \in TurnKinds, Enqueue(k) PROVE MarksInv'
    BY <1>1, <1>3, EnqueueKeeps
  <1>4. ASSUME NEW k \in TurnKinds, EnqueueBehindCompaction(k) PROVE MarksInv'
    BY <1>1, <1>4, BehindCompactionKeeps
  <1>5. ASSUME NEW t \in Turns, HourglassLands(t) PROVE MarksInv'
    BY <1>1, <1>5, LandsKeeps
  <1>6. CASE Start
    BY <1>1, <1>6, StartKeepsMarks
  <1>7. CASE TakeHead
    BY <1>1, <1>7, TakeHeadKeeps
  <1>8. CASE InFlight
    BY <1>1, <1>8, InFlightKeeps
  <1>9. CASE Answer
    BY <1>1, <1>9, AnswerKeeps
  <1>10. CASE Complete
    BY <1>1, <1>10, CompleteKeepsMarks
  <1>11. CASE SetupFails
    BY <1>1, <1>11, SetupFailsKeepsMarks
  <1>12. CASE StopTurns
    BY <1>1, <1>12, StopTurnsKeeps
  <1>13. CASE Restart
    BY <1>1, <1>13, RestartKeepsMarks
  <1>14. QED
    BY <1>1, <1>2, <1>3, <1>4, <1>5, <1>6, <1>7, <1>8, <1>9, <1>10, <1>11, <1>12, <1>13
       DEF MarksNext

\* What was set for a turn is shown on its own message.
LEMMA MarksShow == MarksInv => FollowsTheTurns
  <1>1. SUFFICES ASSUME MarksInv PROVE FollowsTheTurns
    OBVIOUS
  <1>2. CASE shifted
    BY <1>2 DEF FollowsTheTurns, PairsItsOwnUnlessShifted, WithheldForTheSilenced, NoMarkAtRest
  <1>3. CASE ~shifted
    <2>1. MarksTypeOK /\ TurnsFit /\ Lined /\ InHand /\ MarksFit /\ VerdictsFit
      BY <1>1, <1>3 DEF MarksInv
    <2>2. PairsItsOwn
      BY <2>1 DEF PairsItsOwn, InHand, ItsOwn, Nothing, MarksTypeOK
    <2>3. WithheldForTheSilenced
      BY <2>1 DEF VerdictsFit, WithheldForTheSilenced
    <2>4. ASSUME ~RoomBusy PROVE \A t \in Turns \ late : wears[t] = {}
      <3>1. turn = None /\ waiting = <<>> /\ step = "idle"
        BY <2>1, <2>4 DEF RoomBusy, TurnsFit
      <3>2. pendingMsg = <<>>
        BY <2>1, <3>1 DEF Lined, Line, MarksTypeOK
      <3>3. taken = Nothing /\ flight = Nothing
        BY <2>1, <3>1 DEF InHand
      <3>4. None \notin Turns /\ wears \in [Turns -> SUBSET Reactions]
        BY <2>1 DEF MarksTypeOK, Turns, None
      <3>5. QED
        BY <2>1, <3>2, <3>3, <3>4 DEF MarksFit, ToSet, Nothing, Reactions
    <2>5. QED
      BY <2>2, <2>3, <2>4 DEF FollowsTheTurns, PairsItsOwnUnlessShifted, NoMarkAtRest
  <1>4. QED
    BY <1>2, <1>3

\* Every reaction is about the turn of its message, and none is left when nothing runs,
\* unless a list has shifted.
THEOREM MarksFollow == MarksSpec => [](MarksTypeOK /\ FollowsTheTurns)
  <1>1. MarksInv => MarksTypeOK /\ FollowsTheTurns
    BY MarksShow DEF MarksInv
  <1>2. QED
    BY <1>1, MarksStart, MarksGoOn, PTL DEF MarksSpec

-----------------------------------------------------------------------------
(* TurnProgress.                                                           *)

Low(s, p) == \A k \in 1..Len(s) : s[k] \in 1..p
Before(s, t) == \A k \in 1..Len(s), l \in 1..Len(t) : s[k] < t[l]

Recorders ==
    [held : Seq(Nat), fresh : Nat, queue : Seq(Seq(Nat)), last : Nat, shut : BOOLEAN,
     draining : BOOLEAN]

\* A recorder's blocks are among the first p, in order, each once; what it holds are so many
\* of the last of them.
Keeps(r, p) ==
    /\ Low(r.held, p) /\ Climbs(r.held) /\ Len(r.held) <= DigestLines /\ r.fresh <= p
    /\ \A k \in 1..Len(r.held) : r.held[k] + Len(r.held) <= p + k
    /\ Len(r.queue) <= QueueMax
    /\ \A i \in 1..Len(r.queue) :
           Low(r.queue[i], p) /\ Climbs(r.queue[i]) /\ Before(r.queue[i], r.held)
    /\ \A i, j \in 1..Len(r.queue) : i < j => Before(r.queue[i], r.queue[j])

\* All of them come after the blocks of S.
Follows(r, S) ==
    /\ \A b \in S, k \in 1..Len(r.held) : b < r.held[k]
    /\ \A b \in S, i \in 1..Len(r.queue) :
           \A k \in 1..Len(r.queue[i]) : b < r.queue[i][k]

Recorded(r, p, S) == r \in Recorders /\ Keeps(r, p) /\ Follows(r, S)

Queued(r) == {b \in Nat : \E i \in 1..Len(r.queue) : b \in ToSet(r.queue[i])}
Spent(r) == r.fresh = 0 => r.held = <<>>

\* The last of the first p blocks are all in D.
Recent(p, D) == \A b \in 1..p : b + DigestLines > p => b \in D

Messages == [kind : {"progress", "reply", "notice"}, lines : Seq(Nat)]
ApiCalls == [op : {"none", "edit", "post"}, at : Nat, lines : Seq(Nat), chunk : Seq(Nat)]

\* The block is in one of the messages.
Tells(th, b) == \E i \in 1..Len(th) : b \in ToSet(th[i].lines)

Proved == said - Len(unproved)
Out == Shown \union ToSet(newest.lines) \union ToSet(apiCall.lines)
       \union ToSet(apiCall.chunk) \union ToSet(lateCall.lines)

PlacesFit ==
    /\ threadShows \in Seq(Messages) /\ {apiCall, lateCall} \subseteq ApiCalls
    /\ newest \in [at : Nat, lines : Seq(Nat)] /\ newest.at \in 0..Len(threadShows)
    /\ newest.at = 0 => newest = NoMessage
    /\ apiCall.op = "edit" => apiCall.at \in 1..Len(threadShows) /\ apiCall.at = newest.at
    /\ lateCall.op = "edit" => lateCall.at \in 1..Len(threadShows)
    /\ apiCall.op = "none" => apiCall = NoApiCall
    /\ silenced \in BOOLEAN

Saying ==
    /\ said \in 0..MaxSaid /\ minutes \in 0..MaxMinutes
    /\ unproved \in Seq(1..MaxSaid) /\ Len(unproved) <= said
    /\ \A j \in 1..Len(unproved) : unproved[j] = Proved + j
    /\ Recorded(progress, Proved, Out)
    /\ \A b \in Out : b \in 1..Proved
    /\ Climbs(apiCall.chunk)
    /\ upshot = "running" /\ "overflow" \notin mishaps => Spent(progress)

Ending ==
    /\ upshot \in {"running", "answered", "failed", "stopped"}
    /\ tailStep \in {"running", "closing", "replying", "uploading", "ending", "over"}
    /\ upshot = "running" <=> tailStep = "running"
    /\ upshot = "running" => ~progress.shut /\ progress.draining
    /\ upshot # "running" => progress.shut
    /\ upshot = "stopped" => "stopped" \in mishaps
    /\ upshot = "stopped" \/ "stopped" \in mishaps => tailStep \in {"ending", "over"}
    /\ tailStep \notin {"running", "closing"} => apiCall = NoApiCall /\ ~progress.draining
    /\ mishaps \intersect {"gaveUp", "stopped"} = {} => lateCall = NoApiCall

\* What the frontend remembers of the newest message is what the thread shows there.
Linked ==
    mishaps \intersect {"unsure", "gaveUp", "stopped"} = {} =>
        /\ newest # NoMessage => newest.lines = LinesAt(newest.at)
        /\ tailStep \in {"running", "closing"} => newest.at = Len(threadShows)
        /\ apiCall.op = "edit" =>
               apiCall.lines = newest.lines \o apiCall.chunk
        /\ apiCall.op = "post" => apiCall.lines = apiCall.chunk

InTurn ==
    mishaps \intersect {"unsure", "twice", "gaveUp", "stopped"} = {} =>
        /\ ToldOnceInOrder
        /\ \A b \in Shown, k \in 1..Len(apiCall.chunk) : b < apiCall.chunk[k]

ReplyIsLast ==
    mishaps \intersect {"gaveUp", "stopped"} = {} =>
        /\ NothingUnderTheReply
        /\ tailStep \in {"running", "closing", "replying"} =>
               \A i \in 1..Len(threadShows) : threadShows[i].kind = "progress"

NothingGoesMissing ==
    (~silenced /\ mishaps \intersect {"lost", "unsure", "gaveUp", "overflow", "stopped"} = {}) =>
        /\ tailStep = "running" =>
               Recent(Proved, (Shown \union ToSet(apiCall.chunk))
                              \union (ToSet(progress.held) \union Queued(progress)))
        /\ tailStep = "closing" /\ upshot = "failed" /\ WarmedUp =>
               Recent(Proved, (Shown \union ToSet(apiCall.chunk)) \union Queued(progress))
        /\ tailStep = "replying" /\ upshot = "failed" /\ WarmedUp => Recent(Proved, Shown)

FilesFit ==
    /\ archived \subseteq OutFiles /\ uploaded \subseteq OutFiles
    /\ "stopped" \notin mishaps => uploaded \subseteq Outbox
    /\ tailStep \in {"running", "closing", "replying"} => uploaded = {}
    /\ tailStep \in {"ending", "over"} /\ "stopped" \notin mishaps => uploaded \subseteq archived

ProgressInv ==
    /\ PlacesFit /\ Saying /\ Ending /\ Linked /\ InTurn /\ ReplyIsLast /\ NothingGoesMissing
    /\ FilesFit

\* Two recorders with the same blocks.
LEMMA SameBlocks ==
    ASSUME NEW r, NEW q \in Recorders, NEW p \in Nat, NEW S, Recorded(r, p, S),
           q.held = r.held, q.queue = r.queue, q.fresh <= p
    PROVE  Recorded(q, p, S) /\ Queued(q) = Queued(r)
  BY DEF Recorded, Keeps, Follows, Queued

\* What a recorder is made of.
LEMMA RecorderFields ==
    ASSUME NEW r \in Recorders
    PROVE  /\ r.held \in Seq(Nat) /\ r.fresh \in Nat /\ r.queue \in Seq(Seq(Nat))
           /\ r.last \in Nat /\ r.shut \in BOOLEAN /\ r.draining \in BOOLEAN
           /\ \A i \in 1..Len(r.queue) : r.queue[i] \in Seq(Nat)
  <1>1. /\ r.held \in Seq(Nat) /\ r.fresh \in Nat /\ r.queue \in Seq(Seq(Nat))
        /\ r.last \in Nat /\ r.shut \in BOOLEAN /\ r.draining \in BOOLEAN
    BY DEF Recorders
  <1>2. QED
    BY <1>1

\* A flush puts what is held at the end of the queue, and loses nothing but to a full queue.
LEMMA PostBufferKeeps ==
    ASSUME NEW r, NEW p \in Nat, NEW S, Recorded(r, p, S), minutes \in Nat
    PROVE  LET q == PostBuffer(r) IN
           /\ Recorded(q, p, S) /\ q.shut = r.shut /\ q.draining = r.draining
           /\ ToSet(q.held) \union Queued(q) = ToSet(r.held) \union Queued(r)
           /\ q.fresh = 0
           /\ Spent(r) /\ Len(r.queue) < QueueMax => q.held = <<>>
           /\ Len(q.queue) < QueueMax /\ Spent(r) => Spent(q)
           /\ ~Spent(r) => q = r
  <1>1. r \in Recorders /\ Keeps(r, p) /\ Follows(r, S)
    BY DEF Recorded
  <1>2. PICK q : q = PostBuffer(r)
    OBVIOUS
  <1>3. /\ r.held \in Seq(Nat) /\ r.fresh \in Nat /\ r.queue \in Seq(Seq(Nat))
        /\ r.last \in Nat /\ r.shut \in BOOLEAN /\ r.draining \in BOOLEAN
        /\ \A i \in 1..Len(r.queue) : r.queue[i] \in Seq(Nat)
    BY <1>1, RecorderFields
  <1>4. DigestLines \in Nat /\ QueueMax \in Nat
    BY ProgressAssumption
  <1>5. CASE r.fresh = 0
    BY <1>2, <1>5 DEF PostBuffer, Spent
  <1>6. CASE r.fresh # 0 /\ Len(r.queue) >= QueueMax
    <2>1. q = [r EXCEPT !.fresh = 0]
      BY <1>2, <1>6 DEF PostBuffer
    <2>2. q \in Recorders /\ q.held = r.held /\ q.queue = r.queue /\ q.fresh = 0
          /\ q.shut = r.shut /\ q.draining = r.draining
      BY <1>1, <2>1 DEF Recorders
    <2>3. Recorded(q, p, S) /\ Queued(q) = Queued(r)
      BY <2>2, SameBlocks
    <2>4. ~(Len(r.queue) < QueueMax) /\ ~(Len(q.queue) < QueueMax)
      BY <1>3, <1>4, <1>6, <2>2
    <2>5. QED
      BY <1>2, <1>6, <2>2, <2>3, <2>4 DEF Spent
  <1>7. CASE r.fresh # 0 /\ ~(Len(r.queue) >= QueueMax)
    <2>1. q = [r EXCEPT !.fresh = 0, !.queue = Append(r.queue, r.held), !.held = <<>>,
                        !.last = minutes]
      BY <1>2, <1>7 DEF PostBuffer
    <2>2. Append(r.queue, r.held) \in Seq(Seq(Nat))
      BY <1>3
    <2>3. q \in Recorders /\ q.held = <<>> /\ q.queue = Append(r.queue, r.held) /\ q.fresh = 0
          /\ q.shut = r.shut /\ q.draining = r.draining
      <3>1. q = [held |-> <<>>, fresh |-> 0, queue |-> Append(r.queue, r.held), last |-> minutes,
                 shut |-> r.shut, draining |-> r.draining]
        BY <1>1, <2>1 DEF Recorders
      <3>2. <<>> \in Seq(Nat)
        OBVIOUS
      <3>3. QED
        BY <1>3, <2>2, <3>1, <3>2 DEF Recorders
    <2>4. /\ Len(q.queue) = Len(r.queue) + 1 /\ Len(q.held) = 0 /\ Len(r.queue) \in Nat
          /\ \A i \in 1..Len(r.queue) : q.queue[i] = r.queue[i]
          /\ q.queue[Len(r.queue) + 1] = r.held
      BY <1>3, <2>3
    <2>5. Keeps(q, p)
      <3>1. /\ Low(q.held, p) /\ Climbs(q.held) /\ Len(q.held) <= DigestLines
            /\ q.fresh <= p /\ \A k \in 1..Len(q.held) : q.held[k] + Len(q.held) <= p + k
            /\ Len(q.queue) <= QueueMax
        BY <1>3, <1>4, <1>7, <2>3, <2>4 DEF Low, Climbs
      <3>2. \A i \in 1..Len(q.queue) :
               Low(q.queue[i], p) /\ Climbs(q.queue[i]) /\ Before(q.queue[i], q.held)
        <4>1. SUFFICES ASSUME NEW i \in 1..Len(q.queue)
                       PROVE  Low(q.queue[i], p) /\ Climbs(q.queue[i])
          BY <2>4 DEF Before
        <4>2. CASE i = Len(r.queue) + 1
          BY <1>1, <2>4, <4>2 DEF Keeps
        <4>3. CASE i # Len(r.queue) + 1
          <5>1. i \in 1..Len(r.queue)
            BY <2>4, <4>1, <4>3
          <5>2. QED
            BY <1>1, <2>4, <5>1 DEF Keeps
        <4>4. QED
          BY <4>2, <4>3
      <3>3. \A i, j \in 1..Len(q.queue) : i < j => Before(q.queue[i], q.queue[j])
        <4>1. SUFFICES ASSUME NEW i \in 1..Len(q.queue), NEW j \in 1..Len(q.queue), i < j
                       PROVE  Before(q.queue[i], q.queue[j])
          OBVIOUS
        <4>2. i \in 1..Len(r.queue)
          BY <2>4, <4>1
        <4>3. CASE j = Len(r.queue) + 1
          BY <1>1, <2>4, <4>2, <4>3 DEF Keeps
        <4>4. CASE j # Len(r.queue) + 1
          <5>1. j \in 1..Len(r.queue)
            BY <2>4, <4>1, <4>4
          <5>2. QED
            BY <1>1, <2>4, <4>1, <4>2, <5>1 DEF Keeps
        <4>5. QED
          BY <4>3, <4>4
      <3>4. QED
        BY <3>1, <3>2, <3>3 DEF Keeps
    <2>6. Follows(q, S)
      <3>1. ASSUME NEW b \in S, NEW i \in 1..Len(q.queue), NEW k \in 1..Len(q.queue[i])
            PROVE  b < q.queue[i][k]
        <4>1. CASE i = Len(r.queue) + 1
          <5>1. q.queue[i] = r.held /\ k \in 1..Len(r.held)
            BY <2>4, <3>1, <4>1
          <5>2. QED
            BY <1>1, <5>1 DEF Follows
        <4>2. CASE i # Len(r.queue) + 1
          <5>1. i \in 1..Len(r.queue) /\ q.queue[i] = r.queue[i] /\ k \in 1..Len(r.queue[i])
            BY <2>4, <3>1, <4>2
          <5>2. QED
            BY <1>1, <5>1 DEF Follows
        <4>3. QED
          BY <4>1, <4>2
      <3>2. QED
        BY <2>4, <3>1 DEF Follows
    <2>7. Queued(q) = Queued(r) \union ToSet(r.held)
      <3>1. ToSet(r.held) \subseteq Nat
        BY <1>3 DEF ToSet
      <3>2. \A b : (\E i \in 1..Len(q.queue) : b \in ToSet(q.queue[i]))
                   <=> (\E i \in 1..Len(r.queue) : b \in ToSet(r.queue[i])) \/ b \in ToSet(r.held)
        <4>1. 1..Len(q.queue) = (1..Len(r.queue)) \union {Len(r.queue) + 1}
          BY <2>4
        <4>2. QED
          BY <2>4, <4>1
      <3>3. QED
        BY <3>1, <3>2 DEF Queued
    <2>8. ToSet(q.held) = {}
      BY <2>3 DEF ToSet
    <2>9. QED
      BY <1>2, <1>7, <2>3, <2>5, <2>6, <2>7, <2>8 DEF Recorded, Spent
  <1>8. QED
    BY <1>5, <1>6, <1>7

\* A block added, and the first dropped when there is no room.
LEMMA DigestIs ==
    ASSUME NEW s \in Seq(Nat), NEW b \in Nat, Len(s) <= DigestLines
    PROVE  \E h \in Seq(Nat), o \in {0, 1} :
               /\ h = NewestDigest(Append(s, b)) /\ Len(h) = Len(s) + 1 - o
               /\ Len(h) <= DigestLines /\ (o = 1 => Len(s) >= DigestLines)
               /\ \A k \in 1..Len(h) : h[k] = IF k + o = Len(s) + 1 THEN b ELSE s[k + o]
  <1>1. DigestLines \in Nat /\ Len(s) \in Nat
    BY ProgressAssumption
  <1>2. PICK a : a = Append(s, b)
    OBVIOUS
  <1>3. /\ a \in Seq(Nat) /\ Len(a) = Len(s) + 1
        /\ \A k \in 1..Len(a) : a[k] = IF k = Len(s) + 1 THEN b ELSE s[k]
    BY <1>1, <1>2
  <1>4. CASE Len(a) > DigestLines
    <2>1. PICK h : h = NewestDigest(a)
      OBVIOUS
    <2>2. h = Tail(a)
      BY <1>4, <2>1 DEF NewestDigest
    <2>3. /\ h \in Seq(Nat) /\ Len(h) = Len(a) - 1
          /\ \A k \in 1..Len(h) : h[k] = a[k + 1]
      BY <1>1, <1>3, <2>2
    <2>4. \A k \in 1..Len(h) : h[k] = IF k + 1 = Len(s) + 1 THEN b ELSE s[k + 1]
      <3>1. SUFFICES ASSUME NEW k \in 1..Len(h)
                     PROVE  h[k] = IF k + 1 = Len(s) + 1 THEN b ELSE s[k + 1]
        OBVIOUS
      <3>2. k + 1 \in 1..Len(a)
        BY <1>1, <1>3, <2>3
      <3>3. h[k] = a[k + 1]
        BY <2>3
      <3>4. QED
        BY <1>3, <3>2, <3>3
    <2>5. Len(h) = Len(s) + 1 - 1 /\ Len(h) <= DigestLines /\ Len(s) >= DigestLines
      BY <1>1, <1>3, <1>4, <2>3
    <2>6. QED
      BY <1>2, <2>1, <2>3, <2>4, <2>5
  <1>5. CASE ~(Len(a) > DigestLines)
    <2>1. NewestDigest(a) = a
      BY <1>5 DEF NewestDigest
    <2>2. Len(a) = Len(s) + 1 - 0 /\ Len(a) <= DigestLines
      BY <1>1, <1>3, <1>5
    <2>3. \A k \in 1..Len(a) : a[k] = IF k + 0 = Len(s) + 1 THEN b ELSE s[k + 0]
      BY <1>1, <1>3
    <2>4. PICK o \in {0, 1} : o = 0
      OBVIOUS
    <2>5. Len(a) = Len(s) + 1 - o /\ o # 1 /\ Len(a) <= DigestLines
      BY <2>2, <2>4
    <2>6. \A k \in 1..Len(a) : a[k] = IF k + o = Len(s) + 1 THEN b ELSE s[k + o]
      BY <2>3, <2>4, Zenon
    <2>7. a = NewestDigest(Append(s, b)) /\ a \in Seq(Nat)
      BY <1>2, <1>3, <2>1
    <2>8. QED
      BY <2>5, <2>6, <2>7, Zenon
  <1>6. QED
    BY <1>4, <1>5

WithBlock(r, block) ==
    [r EXCEPT !.held = NewestDigest(Append(@, block)), !.fresh = @ + 1]

\* A recorder with a block added keeps the order of its blocks, and the last of them.
LEMMA AddedKeeps ==
    ASSUME NEW r, NEW p \in Nat, NEW S, Recorded(r, p, S), \A b \in S : b \in 1..p
    PROVE  LET q == WithBlock(r, p + 1) IN
           /\ Recorded(q, p + 1, S) /\ q.shut = r.shut /\ q.draining = r.draining /\ Spent(q)
           /\ \A D : Recent(p, D \union (ToSet(r.held) \union Queued(r)))
                         => Recent(p + 1, D \union (ToSet(q.held) \union Queued(q)))
  <1>1. r \in Recorders /\ Keeps(r, p) /\ Follows(r, S)
    BY DEF Recorded
  <1>2. PICK q : q = WithBlock(r, p + 1)
    OBVIOUS
  <1>3. /\ r.held \in Seq(Nat) /\ r.fresh \in Nat /\ r.queue \in Seq(Seq(Nat))
        /\ r.last \in Nat /\ r.shut \in BOOLEAN /\ r.draining \in BOOLEAN
        /\ \A i \in 1..Len(r.queue) : r.queue[i] \in Seq(Nat)
    BY <1>1, RecorderFields
  <1>4. DigestLines \in Nat /\ QueueMax \in Nat
    BY ProgressAssumption
  <1>5. Len(r.held) <= DigestLines /\ p + 1 \in Nat
    BY <1>1 DEF Keeps
  <1>6. PICK h \in Seq(Nat), o \in {0, 1} :
               /\ h = NewestDigest(Append(r.held, p + 1)) /\ Len(h) = Len(r.held) + 1 - o
               /\ Len(h) <= DigestLines /\ (o = 1 => Len(r.held) >= DigestLines)
               /\ \A k \in 1..Len(h) : h[k] = IF k + o = Len(r.held) + 1 THEN p + 1
                                              ELSE r.held[k + o]
    BY <1>3, <1>5, DigestIs
  <1>7. q = [held |-> h, fresh |-> r.fresh + 1, queue |-> r.queue, last |-> r.last,
             shut |-> r.shut, draining |-> r.draining]
    BY <1>1, <1>2, <1>6 DEF WithBlock, Recorders
  <1>8. /\ q \in Recorders /\ q.held = h /\ q.fresh = r.fresh + 1 /\ q.queue = r.queue
        /\ q.shut = r.shut /\ q.draining = r.draining
    BY <1>3, <1>7 DEF Recorders
  <1>9. Len(r.held) \in Nat /\ Len(h) \in Nat
        /\ \A k \in 1..Len(h) : k + o \in 1..Len(r.held) + 1
                                /\ (k + o # Len(r.held) + 1 => k + o \in 1..Len(r.held))
    BY <1>3, <1>6, SMTT(30)
  <1>10. \A k \in 1..Len(h) : \/ k = Len(h) /\ h[k] = p + 1
                              \/ k + o \in 1..Len(r.held) /\ h[k] = r.held[k + o]
    BY <1>6, <1>9
  <1>11. Keeps(q, p + 1)
    <2>1. Low(h, p + 1)
      <3>1. SUFFICES ASSUME NEW k \in 1..Len(h) PROVE h[k] \in 1..p + 1
        BY DEF Low
      <3>2. Low(r.held, p)
        BY <1>1 DEF Keeps
      <3>3. k + o \in 1..Len(r.held) => r.held[k + o] \in 1..p
        BY <3>2 DEF Low
      <3>4. QED
        BY <1>10, <3>1, <3>3
    <2>2. Climbs(h)
      <3>1. SUFFICES ASSUME NEW k \in 1..Len(h), NEW l \in 1..Len(h), k < l PROVE h[k] < h[l]
        BY DEF Climbs
      <3>2. k # Len(h) /\ k + o \in 1..Len(r.held) /\ h[k] = r.held[k + o]
        <4>1. Len(h) \in Nat /\ k # Len(h)
          BY <1>9, <3>1
        <4>2. QED
          BY <1>10, <4>1
      <3>3. h[k] \in 1..p
        BY <1>1, <3>2 DEF Keeps, Low
      <3>4. CASE h[l] = p + 1
        BY <3>3, <3>4
      <3>5. CASE l + o \in 1..Len(r.held) /\ h[l] = r.held[l + o]
        <4>1. Climbs(r.held) /\ k + o < l + o
          BY <1>1, <1>9, <3>1 DEF Keeps
        <4>2. QED
          BY <3>2, <3>5, <4>1 DEF Climbs
      <3>6. QED
        BY <1>10, <3>4, <3>5
    <2>3. \A k \in 1..Len(h) : h[k] + Len(h) <= p + 1 + k
      <3>1. SUFFICES ASSUME NEW k \in 1..Len(h) PROVE h[k] + Len(h) <= p + 1 + k
        OBVIOUS
      <3>2. CASE k = Len(h) /\ h[k] = p + 1
        BY <1>9, <3>2
      <3>3. CASE k + o \in 1..Len(r.held) /\ h[k] = r.held[k + o]
        <4>1. r.held[k + o] + Len(r.held) <= p + (k + o) /\ r.held[k + o] \in 1..p
          BY <1>1, <3>3 DEF Keeps, Low
        <4>2. /\ Len(h) = Len(r.held) + 1 - o /\ o \in {0, 1} /\ Len(r.held) \in Nat
              /\ h[k] = r.held[k + o] /\ h[k] \in Nat /\ k \in Nat
              /\ h[k] + Len(r.held) <= p + (k + o)
          BY <1>6, <1>9, <3>3, <4>1, SMTT(30)
        <4>3. QED
          BY <4>2
      <3>4. QED
        BY <1>10, <3>2, <3>3
    <2>4. ASSUME NEW i \in 1..Len(r.queue)
          PROVE  Low(r.queue[i], p + 1) /\ Climbs(r.queue[i]) /\ Before(r.queue[i], h)
      <3>1. Low(r.queue[i], p) /\ Climbs(r.queue[i]) /\ Before(r.queue[i], r.held)
        BY <1>1 DEF Keeps
      <3>2. Before(r.queue[i], h)
        <4>1. SUFFICES ASSUME NEW k \in 1..Len(r.queue[i]), NEW l \in 1..Len(h)
                       PROVE  r.queue[i][k] < h[l]
          BY DEF Before
        <4>2. r.queue[i][k] \in 1..p
          BY <3>1 DEF Low
        <4>3. l + o \in 1..Len(r.held) => r.queue[i][k] < r.held[l + o]
          BY <3>1 DEF Before
        <4>4. QED
          BY <1>10, <4>1, <4>2, <4>3, SMTT(30)
      <3>3. QED
        BY <3>1, <3>2 DEF Low
    <2>5. \A i, j \in 1..Len(r.queue) : i < j => Before(r.queue[i], r.queue[j])
      BY <1>1 DEF Keeps
    <2>6. Len(r.queue) <= QueueMax /\ r.fresh <= p
      BY <1>1 DEF Keeps
    <2>7. QED
      BY <1>3, <1>6, <1>8, <2>1, <2>2, <2>3, <2>4, <2>5, <2>6 DEF Keeps
  <1>12. Follows(q, S)
    <2>1. \A b \in S, k \in 1..Len(h) : b < h[k]
      <3>1. SUFFICES ASSUME NEW b \in S, NEW k \in 1..Len(h) PROVE b < h[k]
        OBVIOUS
      <3>2. k + o \in 1..Len(r.held) => b < r.held[k + o]
        BY <1>1 DEF Follows
      <3>3. QED
        BY <1>10, <3>1, <3>2
    <2>2. QED
      BY <1>1, <1>8, <2>1 DEF Follows
  <1>13. Spent(q)
    BY <1>3, <1>8 DEF Spent
  <1>14. ASSUME NEW D, Recent(p, D \union (ToSet(r.held) \union Queued(r)))
         PROVE  Recent(p + 1, D \union (ToSet(q.held) \union Queued(q)))
    <2>1. SUFFICES ASSUME NEW b \in 1..p + 1, b + DigestLines > p + 1
                   PROVE  b \in D \union (ToSet(h) \union Queued(r))
      BY <1>8 DEF Recent, Queued
    <2>2. CASE b = p + 1
      <3>1. Len(h) \in 1..Len(h) /\ h[Len(h)] = p + 1
        <4>1. Len(h) >= 1
          BY <1>4, <1>6, <1>9, ProgressAssumption
        <4>2. Len(h) + o = Len(r.held) + 1
          BY <1>6, <1>9
        <4>3. Len(h) \in 1..Len(h)
          BY <1>9, <4>1
        <4>4. QED
          BY <1>6, <4>2, <4>3
      <3>2. QED
        BY <2>2, <3>1 DEF ToSet
    <2>3. CASE b # p + 1
      <3>1. b \in 1..p /\ b + DigestLines > p
        BY <1>4, <2>1, <2>3
      <3>2. b \in D \union (ToSet(r.held) \union Queued(r))
        BY <1>14, <3>1 DEF Recent
      <3>3. ASSUME b \in ToSet(r.held) PROVE b \in ToSet(h)
        <4>1. PICK k \in 1..Len(r.held) : r.held[k] = b
          BY <1>3, <3>3 DEF ToSet
        <4>2. b + Len(r.held) <= p + k
          BY <1>1, <4>1 DEF Keeps
        <4>3. k - o \in 1..Len(h)
          <5>1. o = 1 => k # 1
            BY <1>4, <1>6, <1>9, <2>1, <4>2
          <5>2. QED
            BY <1>6, <1>9, <4>1, <5>1, SMTT(30)
        <4>4. (k - o) + o = k /\ k # Len(r.held) + 1
          BY <4>1
        <4>5. h[k - o] = b
          BY <1>6, <4>1, <4>3, <4>4
        <4>6. QED
          BY <4>3, <4>5 DEF ToSet
      <3>4. QED
        BY <3>2, <3>3
    <2>4. QED
      BY <2>2, <2>3
  <1>15. QED
    BY <1>2, <1>8, <1>11, <1>12, <1>13, <1>14 DEF Recorded

\* What a recorder flushes when it may.
LEMMA FlushKeeps ==
    ASSUME NEW r, NEW p \in Nat, NEW S, Recorded(r, p, S), minutes \in Nat
    PROVE  LET q == FlushIfDue(r) IN
           /\ Recorded(q, p, S) /\ q.shut = r.shut /\ q.draining = r.draining
           /\ ToSet(q.held) \union Queued(q) = ToSet(r.held) \union Queued(r)
           /\ Len(q.queue) < QueueMax /\ Spent(r) => Spent(q)
           /\ Len(r.queue) < QueueMax /\ Spent(r) => Spent(q)
  <1>1. CASE FlushIfDue(r) = r
    BY <1>1
  <1>2. CASE FlushIfDue(r) = PostBuffer(r)
    BY <1>2, PostBufferKeeps DEF Spent
  <1>3. QED
    BY <1>1, <1>2 DEF FlushIfDue

\* A block that is emitted is recorded.
LEMMA EmitKeeps ==
    ASSUME NEW r, NEW p \in Nat, NEW S, Recorded(r, p, S), \A b \in S : b \in 1..p, ~r.shut,
           minutes \in Nat
    PROVE  LET q == Emit(r, p + 1) IN
           /\ Recorded(q, p + 1, S) /\ q.shut = r.shut /\ q.draining = r.draining
           /\ Len(q.queue) < QueueMax => Spent(q)
           /\ \A D : Recent(p, D \union (ToSet(r.held) \union Queued(r)))
                         => Recent(p + 1, D \union (ToSet(q.held) \union Queued(q)))
  <1>1. PICK a : a = WithBlock(r, p + 1)
    OBVIOUS
  <1>2. /\ Recorded(a, p + 1, S) /\ a.shut = r.shut /\ a.draining = r.draining /\ Spent(a)
        /\ \A D : Recent(p, D \union (ToSet(r.held) \union Queued(r)))
                      => Recent(p + 1, D \union (ToSet(a.held) \union Queued(a)))
    BY <1>1, AddedKeeps
  <1>3. PICK q : q = FlushIfDue(a)
    OBVIOUS
  <1>4. /\ Recorded(q, p + 1, S) /\ q.shut = a.shut /\ q.draining = a.draining
        /\ ToSet(q.held) \union Queued(q) = ToSet(a.held) \union Queued(a)
        /\ Len(q.queue) < QueueMax /\ Spent(a) => Spent(q)
    <2>1. p + 1 \in Nat
      OBVIOUS
    <2>2. QED
      BY <1>2, <1>3, <2>1, FlushKeeps
  <1>5. Emit(r, p + 1) = q
    BY <1>1, <1>3 DEF Emit, WithBlock
  <1>6. QED
    BY <1>2, <1>4, <1>5

\* upTo of EmittedAll is what its definition says.
EmissionOf(F, n) ==
    F = [i \in 0..n |-> IF i = 0 THEN progress ELSE Emit(F[i - 1], unproved[i])]

\* One block further.
LEMMA EmissionGoesOn ==
    ASSUME NEW n \in Nat, NEW F, EmissionOf(F, n) PROVE \E G : EmissionOf(G, n + 1)
  <1> DEFINE next == Emit(F[n], unproved[n + 1])
             G == [i \in 0..(n + 1) |-> IF i = n + 1 THEN next ELSE F[i]]
  <1>1. ASSUME NEW i \in 0..(n + 1)
        PROVE  G[i] = IF i = 0 THEN progress ELSE Emit(G[i - 1], unproved[i])
    <2>1. CASE i = n + 1
      <3>1. n \in 0..(n + 1) /\ n # n + 1 /\ i - 1 = n /\ i # 0
        BY <2>1
      <3>2. G[i] = next /\ G[i - 1] = F[n]
        BY <2>1, <3>1
      <3>3. QED
        BY <2>1, <3>1, <3>2
    <2>2. CASE i # n + 1
      <3>1. i \in 0..n /\ G[i] = F[i]
        BY <2>2
      <3>2. i # 0 => i - 1 \in 0..(n + 1) /\ i - 1 # n + 1 /\ G[i - 1] = F[i - 1]
        BY <3>1
      <3>3. F[i] = IF i = 0 THEN progress ELSE Emit(F[i - 1], unproved[i])
        BY <3>1 DEF EmissionOf
      <3>4. QED
        BY <3>1, <3>2, <3>3
    <2>3. QED
      BY <2>1, <2>2
  <1>2. EmissionOf(G, n + 1)
    <2> DEFINE H == [i \in 0..(n + 1) |->
                       IF i = 0 THEN progress ELSE Emit(G[i - 1], unproved[i])]
    <2>1. \A i \in 0..(n + 1) : G[i] = H[i]
      BY <1>1
    <2>2. DOMAIN G = 0..(n + 1) /\ DOMAIN H = 0..(n + 1)
      OBVIOUS
    <2>3. G = H
      <3>1. G = [i \in 0..(n + 1) |-> G[i]] /\ H = [i \in 0..(n + 1) |-> H[i]]
        OBVIOUS
      <3>2. QED
        BY <2>1, <3>1
    <2>4. QED
      BY <2>3 DEF EmissionOf
  <1>3. QED
    BY <1>2

\* So there is such a function for any number of blocks.
LEMMA EmissionExists == ASSUME NEW n \in Nat PROVE \E F : EmissionOf(F, n)
  <1> DEFINE Some == {k \in Nat : \E F : EmissionOf(F, k)}
  <1>1. 0 \in Some
    <2> DEFINE F == [i \in 0..0 |-> progress]
    <2>1. EmissionOf(F, 0)
      BY DEF EmissionOf
    <2>2. QED
      BY <2>1
  <1>2. ASSUME NEW k \in Some \cap Nat PROVE k + 1 \in Some
    <2>1. PICK F : EmissionOf(F, k)
      OBVIOUS
    <2>2. \E G : EmissionOf(G, k + 1)
      BY <2>1, EmissionGoesOn
    <2>3. QED
      BY <2>2
  <1>3. Nat \subseteq Some
    <2> HIDE DEF Some
    <2>1. QED
      BY <1>1, <1>2, GoesOnForever
  <1>4. QED
    BY <1>3

\* And EmittedAll is the last value of one.
LEMMA EmittedIs ==
    ASSUME Len(unproved) \in Nat
    PROVE  \E F : EmissionOf(F, Len(unproved)) /\ EmittedAll = F[Len(unproved)]
  <1> DEFINE F == CHOOSE f : EmissionOf(f, Len(unproved))
  <1>1. EmissionOf(F, Len(unproved))
    <2>1. \E f : EmissionOf(f, Len(unproved))
      BY EmissionExists
    <2>2. QED
      BY <2>1
  <1>2. EmittedAll = F[Len(unproved)]
    BY DEF EmittedAll, EmissionOf
  <1>3. QED
    BY <1>1, <1>2

\* All that is said so far, once proved, is recorded, in order.
LEMMA EmittedKeeps ==
    ASSUME NEW p \in Nat, NEW S, Recorded(progress, p, S), \A b \in S : b \in 1..p,
           ~progress.shut, minutes \in Nat, Len(unproved) \in Nat, Len(unproved) > 0,
           \A j \in 1..Len(unproved) : unproved[j] = p + j
    PROVE  LET q == EmittedAll IN
           /\ Recorded(q, p + Len(unproved), S) /\ q.shut = progress.shut
           /\ q.draining = progress.draining /\ (Len(q.queue) < QueueMax => Spent(q))
           /\ \A D : Recent(p, D \union (ToSet(progress.held) \union Queued(progress)))
                         => Recent(p + Len(unproved), D \union (ToSet(q.held) \union Queued(q)))
  <1>1. PICK F : EmissionOf(F, Len(unproved)) /\ EmittedAll = F[Len(unproved)]
    BY EmittedIs
  <1> DEFINE P(n) ==
               /\ Recorded(F[n], p + n, S) /\ F[n].shut = progress.shut
               /\ F[n].draining = progress.draining
               /\ (n > 0 /\ Len(F[n].queue) < QueueMax => Spent(F[n]))
               /\ \A D : Recent(p, D \union (ToSet(progress.held) \union Queued(progress)))
                      => Recent(p + n, D \union (ToSet(F[n].held) \union Queued(F[n])))
             Good == {n \in Nat : n <= Len(unproved) => P(n)}
  <1> HIDE DEF P
  <1>2. 0 \in Good
    <2>1. F[0] = progress
      BY <1>1 DEF EmissionOf
    <2>2. p + 0 = p
      OBVIOUS
    <2>3. P(0)
      BY <2>1, <2>2 DEF P
    <2>4. QED
      BY <2>3
  <1>3. ASSUME NEW n \in Good \cap Nat PROVE n + 1 \in Good
    <2>1. SUFFICES ASSUME n + 1 <= Len(unproved) PROVE P(n + 1)
      OBVIOUS
    <2>2. P(n)
      BY <2>1
    <2>3. F[n + 1] = Emit(F[n], (p + n) + 1)
      <3>1. n + 1 \in 0..Len(unproved) /\ n + 1 # 0 /\ (n + 1) - 1 = n /\ n + 1 \in 1..Len(unproved)
        BY <2>1
      <3>2. F[n + 1] = Emit(F[n], unproved[n + 1])
        BY <1>1, <3>1 DEF EmissionOf
      <3>3. unproved[n + 1] = (p + n) + 1
        BY <3>1
      <3>4. QED
        BY <3>2, <3>3
    <2>4. p + n \in Nat /\ \A b \in S : b \in 1..p + n
      OBVIOUS
    <2> DEFINE q == F[n + 1]
    <2>5. /\ Recorded(q, (p + n) + 1, S) /\ q.shut = F[n].shut /\ q.draining = F[n].draining
          /\ (Len(q.queue) < QueueMax => Spent(q))
          /\ \A D : Recent(p + n, D \union (ToSet(F[n].held) \union Queued(F[n])))
                        => Recent((p + n) + 1, D \union (ToSet(q.held) \union Queued(q)))
      BY <2>2, <2>3, <2>4, EmitKeeps DEF P
    <2>6. (p + n) + 1 = p + (n + 1)
      OBVIOUS
    <2>7. QED
      BY <2>2, <2>5, <2>6 DEF P
  <1>4. Nat \subseteq Good
    <2> HIDE DEF Good
    <2>1. QED
      BY <1>2, <1>3, GoesOnForever
  <1>5. P(Len(unproved))
    <2>1. Len(unproved) \in Good
      BY <1>4
    <2>2. QED
      BY <2>1
  <1>6. QED
    BY <1>1, <1>5 DEF P

\* What only the recorder and the stream change leaves the thread as it is.
LEMMA ThreadStays ==
    ASSUME ProgressInv, UNCHANGED inThread, mishaps \subseteq mishaps',
           \/ tailStep' = tailStep /\ upshot' = upshot
           \/ tailStep = "running" /\ tailStep' = "closing"
    PROVE  /\ PlacesFit' /\ Linked' /\ InTurn' /\ ReplyIsLast' /\ FilesFit'
           /\ Out' = Out /\ Shown' = Shown
  <1>1. /\ PlacesFit /\ Linked /\ InTurn /\ ReplyIsLast /\ FilesFit
    BY DEF ProgressInv
  <1>2. UNCHANGED <<apiCall, lateCall, newest, threadShows, silenced, uploaded, archived>>
    BY DEF inThread
  <1>3. Shown' = Shown /\ Out' = Out
    BY <1>2 DEF Shown, LinesAt, Out
  <1>4. PlacesFit'
    BY <1>1, <1>2 DEF PlacesFit
  <1>5. Linked'
    BY <1>1, <1>2 DEF Linked, LinesAt
  <1>6. InTurn'
    <2>1. mishaps' \intersect {"unsure", "twice", "gaveUp", "stopped"} = {}
              => mishaps \intersect {"unsure", "twice", "gaveUp", "stopped"} = {}
      OBVIOUS
    <2>2. ToldOnceInOrder /\ mishaps \intersect {"unsure", "twice", "gaveUp", "stopped"} = {}
              => ToldOnceInOrder'
      BY <1>2 DEF ToldOnceInOrder, LinesAt
    <2>3. QED
      BY <1>1, <1>2, <1>3, <2>1, <2>2 DEF InTurn
  <1>7. ReplyIsLast'
    <2>1. mishaps' \intersect {"gaveUp", "stopped"} = {}
              => mishaps \intersect {"gaveUp", "stopped"} = {}
      OBVIOUS
    <2>2. NothingUnderTheReply /\ mishaps \intersect {"gaveUp", "stopped"} = {}
              => NothingUnderTheReply'
      BY <1>2 DEF NothingUnderTheReply
    <2>3. QED
      BY <1>1, <1>2, <2>1, <2>2 DEF ReplyIsLast
  <1>8. FilesFit'
    BY <1>1, <1>2 DEF FilesFit, Outbox
  <1>9. QED
    BY <1>3, <1>4, <1>5, <1>6, <1>7, <1>8

\* The blocks that are proved are a number.
LEMMA ProvedIs ==
    ASSUME Saying
    PROVE  /\ Proved \in Nat /\ Proved <= MaxSaid /\ minutes \in Nat /\ Len(unproved) \in Nat
           /\ said \in Nat /\ MaxSaid \in Nat /\ MaxMinutes \in Nat
           /\ Proved + Len(unproved) = said
  BY ProgressAssumption DEF Saying, Proved

\* A text block that is said waits to be proved not to be the answer.
LEMMA SaysKeeps == ASSUME ProgressInv, Says PROVE ProgressInv'
  <1>1. Saying /\ Ending /\ NothingGoesMissing
    BY DEF ProgressInv
  <1>2. /\ upshot = "running" /\ said < MaxSaid
        /\ said' = said + 1 /\ unproved' = Append(unproved, said + 1)
        /\ UNCHANGED <<progress, minutes, upshot, tailStep, mishaps, inThread>>
    BY DEF Says
  <1>3. /\ PlacesFit' /\ Linked' /\ InTurn' /\ ReplyIsLast' /\ FilesFit'
        /\ Out' = Out /\ Shown' = Shown
    BY <1>2, ThreadStays
  <1>4. /\ Proved \in Nat /\ said \in Nat /\ MaxSaid \in Nat /\ Len(unproved) \in Nat
        /\ Proved + Len(unproved) = said /\ unproved \in Seq(1..MaxSaid)
        /\ \A j \in 1..Len(unproved) : unproved[j] = Proved + j
    BY <1>1, ProvedIs DEF Saying
  <1>5. Proved' = Proved /\ unproved' \in Seq(1..MaxSaid) /\ Len(unproved') = Len(unproved) + 1
    BY <1>2, <1>4 DEF Proved
  <1>6. \A j \in 1..Len(unproved') : unproved'[j] = Proved' + j
    BY <1>2, <1>4, <1>5
  <1>7. UNCHANGED <<apiCall, lateCall, silenced>>
    BY <1>2 DEF inThread
  <1>8. Saying'
    BY <1>1, <1>2, <1>3, <1>4, <1>5, <1>6, <1>7 DEF Saying
  <1>9. Ending'
    BY <1>1, <1>2, <1>7 DEF Ending
  <1>10. NothingGoesMissing'
    BY <1>1, <1>2, <1>3, <1>5, <1>7 DEF NothingGoesMissing, WarmedUp
  <1>11. QED
    BY <1>3, <1>8, <1>9, <1>10 DEF ProgressInv

\* Time passes.
LEMMA MinutePassesKeeps == ASSUME ProgressInv, MinutePasses PROVE ProgressInv'
  <1>1. Saying /\ Ending /\ NothingGoesMissing
    BY DEF ProgressInv
  <1>2. /\ upshot = "running" /\ minutes < MaxMinutes /\ minutes' = minutes + 1
        /\ UNCHANGED <<said, unproved, progress, upshot, tailStep, mishaps, inThread>>
    BY DEF MinutePasses
  <1>3. /\ PlacesFit' /\ Linked' /\ InTurn' /\ ReplyIsLast' /\ FilesFit'
        /\ Out' = Out /\ Shown' = Shown
    BY <1>2, ThreadStays
  <1>4. minutes' \in 0..MaxMinutes /\ Proved' = Proved
    BY <1>1, <1>2, ProvedIs DEF Proved
  <1>5. UNCHANGED <<apiCall, lateCall, silenced>>
    BY <1>2 DEF inThread
  <1>6. Saying'
    BY <1>1, <1>2, <1>3, <1>4, <1>5 DEF Saying
  <1>7. Ending'
    BY <1>1, <1>2, <1>5 DEF Ending
  <1>8. NothingGoesMissing'
    BY <1>1, <1>2, <1>3, <1>4, <1>5 DEF NothingGoesMissing, Ending
  <1>9. QED
    BY <1>3, <1>6, <1>7, <1>8 DEF ProgressInv

\* A tool call proves that what was said before it is narration.
LEMMA CallsToolKeeps == ASSUME ProgressInv, CallsTool PROVE ProgressInv'
  <1>1. Saying /\ Ending /\ NothingGoesMissing
    BY DEF ProgressInv
  <1>2. /\ upshot = "running" /\ unproved # <<>>
        /\ progress' = EmittedAll /\ unproved' = <<>>
        /\ mishaps' = mishaps \union Overflows(progress')
        /\ UNCHANGED <<said, minutes, upshot, tailStep, inThread>>
    BY DEF CallsTool
  <1>3. /\ PlacesFit' /\ Linked' /\ InTurn' /\ ReplyIsLast' /\ FilesFit'
        /\ Out' = Out /\ Shown' = Shown
    BY <1>2, ThreadStays
  <1>4. /\ Proved \in Nat /\ minutes \in Nat /\ Len(unproved) \in Nat
        /\ Proved + Len(unproved) = said /\ unproved \in Seq(1..MaxSaid) /\ said \in Nat
        /\ \A j \in 1..Len(unproved) : unproved[j] = Proved + j
        /\ Recorded(progress, Proved, Out) /\ \A b \in Out : b \in 1..Proved
    BY <1>1, ProvedIs DEF Saying
  <1>5. Len(unproved) > 0 /\ ~progress.shut
    BY <1>1, <1>2, <1>4 DEF Ending
  <1>6. /\ Recorded(progress', said, Out) /\ progress'.shut = progress.shut
        /\ progress'.draining = progress.draining
        /\ (Len(progress'.queue) < QueueMax => Spent(progress'))
        /\ \A D : Recent(Proved, D \union (ToSet(progress.held) \union Queued(progress)))
                      => Recent(said, D \union (ToSet(progress'.held) \union Queued(progress')))
    BY <1>2, <1>4, <1>5, EmittedKeeps
  <1>7. Proved' = said /\ Len(unproved') = 0 /\ unproved' \in Seq(1..MaxSaid)
    BY <1>2, <1>4 DEF Proved
  <1>8. UNCHANGED <<apiCall, lateCall, silenced>>
    BY <1>2 DEF inThread
  <1>9. "overflow" \notin mishaps' => Spent(progress') /\ "overflow" \notin mishaps
    <2>1. progress'.queue \in Seq(Seq(Nat)) /\ QueueMax \in Nat
      BY <1>6, ProgressAssumption DEF Recorded, Recorders
    <2>2. "overflow" \notin mishaps' => ~(Len(progress'.queue) >= QueueMax)
      BY <1>2 DEF Overflows
    <2>3. QED
      BY <1>2, <1>6, <2>1, <2>2
  <1>10. Saying'
    <2>1. said' \in 0..MaxSaid /\ minutes' \in 0..MaxMinutes
      BY <1>1, <1>2 DEF Saying
    <2>2. \A b \in Out' : b \in 1..Proved'
      BY <1>3, <1>4, <1>7
    <2>3. Recorded(progress', Proved', Out')
      BY <1>3, <1>6, <1>7
    <2>5. QED
      BY <1>1, <1>2, <1>4, <1>7, <1>8, <1>9, <2>1, <2>2, <2>3 DEF Saying
  <1>11. Ending'
    <2>1. "stopped" \in mishaps' => "stopped" \in mishaps
      BY <1>2 DEF Overflows
    <2>2. "gaveUp" \in mishaps => "gaveUp" \in mishaps'
      BY <1>2
    <2>3. QED
      BY <1>1, <1>2, <1>6, <1>8, <2>1, <2>2 DEF Ending
  <1>12. NothingGoesMissing'
    BY <1>1, <1>2, <1>3, <1>6, <1>7, <1>8 DEF NothingGoesMissing, Ending
  <1>13. QED
    BY <1>3, <1>10, <1>11, <1>12 DEF ProgressInv

\* A tick of the drain flushes what is due.
LEMMA DrainTicksKeeps == ASSUME ProgressInv, DrainTicks PROVE ProgressInv'
  <1>1. Saying /\ Ending /\ NothingGoesMissing
    BY DEF ProgressInv
  <1>2. /\ progress.queue = <<>> /\ progress' = FlushIfDue(progress) /\ progress' # progress
        /\ UNCHANGED <<said, unproved, minutes, upshot, tailStep, mishaps, inThread>>
    BY DEF DrainTicks
  <1>3. /\ PlacesFit' /\ Linked' /\ InTurn' /\ ReplyIsLast' /\ FilesFit'
        /\ Out' = Out /\ Shown' = Shown
    BY <1>2, ThreadStays
  <1>4. upshot = "running" /\ tailStep = "running"
    BY <1>1, <1>2 DEF FlushIfDue, Ending
  <1>5. Proved \in Nat /\ minutes \in Nat /\ Recorded(progress, Proved, Out)
    BY <1>1, ProvedIs DEF Saying
  <1>6. /\ Recorded(progress', Proved, Out) /\ progress'.shut = progress.shut
        /\ progress'.draining = progress.draining
        /\ ToSet(progress'.held) \union Queued(progress')
               = ToSet(progress.held) \union Queued(progress)
        /\ Len(progress.queue) < QueueMax /\ Spent(progress) => Spent(progress')
    BY <1>2, <1>5, FlushKeeps
  <1>7. Len(progress.queue) < QueueMax
    BY <1>2, ProgressAssumption
  <1>8. UNCHANGED <<apiCall, lateCall, silenced>> /\ Proved' = Proved
    BY <1>2 DEF inThread, Proved
  <1>9. Saying'
    BY <1>1, <1>2, <1>3, <1>6, <1>7, <1>8 DEF Saying
  <1>10. Ending'
    BY <1>1, <1>2, <1>6, <1>8 DEF Ending
  <1>11. NothingGoesMissing'
    BY <1>1, <1>2, <1>3, <1>4, <1>6, <1>8 DEF NothingGoesMissing
  <1>12. QED
    BY <1>3, <1>9, <1>10, <1>11 DEF ProgressInv

\* The stream ends: what was not proved is the answer, and a failure tells what was held.
LEMMA EndsKeeps ==
    ASSUME ProgressInv, NEW how \in {"answered", "failed"}, Ends(how) PROVE ProgressInv'
  <1>1. Saying /\ Ending /\ NothingGoesMissing
    BY DEF ProgressInv
  <1>2. /\ upshot = "running" /\ upshot' = how /\ tailStep' = "closing"
        /\ progress' = Shut(progress, how = "failed")
        /\ mishaps' = mishaps \union Overflows(progress)
        /\ UNCHANGED <<said, unproved, minutes, inThread>>
    BY DEF Ends
  <1>3. tailStep = "running"
    BY <1>1, <1>2 DEF Ending
  <1>4. /\ PlacesFit' /\ Linked' /\ InTurn' /\ ReplyIsLast' /\ FilesFit'
        /\ Out' = Out /\ Shown' = Shown
    BY <1>2, <1>3, ThreadStays
  <1>5. UNCHANGED <<apiCall, lateCall, silenced>> /\ Proved' = Proved /\ WarmedUp' = WarmedUp
    BY <1>2 DEF inThread, Proved, WarmedUp
  <1>6. Proved \in Nat /\ minutes \in Nat /\ Recorded(progress, Proved, Out)
    BY <1>1, ProvedIs DEF Saying
  <1>7. progress \in Recorders
    BY <1>6 DEF Recorded
  <1> DEFINE Full == Len(progress.queue) >= QueueMax
  <1>8. /\ Recorded(progress', Proved, Out) /\ progress'.shut
        /\ (how = "failed" /\ WarmedUp /\ Spent(progress) /\ ~Full =>
               Queued(progress') = ToSet(progress.held) \union Queued(progress))
    <2>1. CASE how = "failed" /\ WarmedUp
      <3>1. PICK a : a = [progress EXCEPT !.shut = TRUE]
        OBVIOUS
      <3>2. /\ a \in Recorders /\ a.held = progress.held /\ a.queue = progress.queue
            /\ a.fresh = progress.fresh /\ a.shut
        BY <1>7, <3>1 DEF Recorders
      <3>3. Recorded(a, Proved, Out) /\ Queued(a) = Queued(progress)
        BY <1>6, <3>2, SameBlocks DEF Recorded, Keeps
      <3>4. progress' = PostBuffer(a)
        BY <1>2, <2>1, <3>1 DEF Shut
      <3>5. /\ Recorded(progress', Proved, Out) /\ progress'.shut = a.shut
            /\ ToSet(progress'.held) \union Queued(progress') = ToSet(a.held) \union Queued(a)
            /\ Spent(a) /\ Len(a.queue) < QueueMax => progress'.held = <<>>
        BY <1>6, <3>3, <3>4, PostBufferKeeps
      <3>6. ~Full => Len(a.queue) < QueueMax
        <4>1. progress.queue \in Seq(Seq(Nat)) /\ QueueMax \in Nat
          BY <1>7, ProgressAssumption DEF Recorders
        <4>2. QED
          BY <3>2, <4>1
      <3>7. Spent(progress) => Spent(a)
        BY <3>2 DEF Spent
      <3>8. progress'.held = <<>> => ToSet(progress'.held) = {}
        BY DEF ToSet
      <3>9. QED
        BY <2>1, <3>2, <3>3, <3>5, <3>6, <3>7, <3>8
    <2>2. CASE ~(how = "failed" /\ WarmedUp)
      <3>1. progress' = [progress EXCEPT !.shut = TRUE, !.fresh = 0]
        BY <1>2, <2>2 DEF Shut
      <3>2. /\ progress' \in Recorders /\ progress'.held = progress.held
            /\ progress'.queue = progress.queue /\ progress'.fresh = 0 /\ progress'.shut
        BY <1>7, <3>1 DEF Recorders
      <3>3. Recorded(progress', Proved, Out)
        BY <1>6, <3>2, SameBlocks
      <3>4. QED
        BY <2>2, <3>2, <3>3
    <2>3. QED
      BY <2>1, <2>2
  <1>9. Saying'
    BY <1>1, <1>2, <1>4, <1>5, <1>8 DEF Saying
  <1>10. Ending'
    <2>1. "stopped" \in mishaps' => "stopped" \in mishaps
      BY <1>2 DEF Overflows
    <2>2. QED
      BY <1>1, <1>2, <1>3, <1>5, <1>8, <2>1 DEF Ending
  <1>11. NothingGoesMissing'
    <2>1. SUFFICES ASSUME ~silenced,
                          mishaps' \intersect {"lost", "unsure", "gaveUp", "overflow",
                                               "stopped"} = {},
                          how = "failed", WarmedUp
                   PROVE  Recent(Proved, (Shown \union ToSet(apiCall.chunk))
                                         \union Queued(progress'))
      BY <1>2, <1>4, <1>5 DEF NothingGoesMissing
    <2>2. "overflow" \notin mishaps /\ ~Full
      BY <1>2, <2>1 DEF Overflows
    <2>3. Spent(progress)
      BY <1>1, <1>2, <2>2 DEF Saying
    <2>4. Recent(Proved, (Shown \union ToSet(apiCall.chunk))
                         \union (ToSet(progress.held) \union Queued(progress)))
      BY <1>1, <1>2, <1>3, <2>1 DEF NothingGoesMissing
    <2>5. QED
      BY <1>8, <2>1, <2>2, <2>3, <2>4
  <1>12. QED
    BY <1>4, <1>9, <1>10, <1>11 DEF ProgressInv

-----------------------------------------------------------------------------
\* The blocks shown, of a thread.
LEMMA ShownIs ==
    ASSUME NEW th, NEW b
    PROVE  b \in UNION {ToSet(th[i].lines) : i \in 1..Len(th)} <=> Tells(th, b)
  BY DEF Tells

\* What a message is made of.
LEMMA MessageFields ==
    ASSUME NEW m \in Messages
    PROVE  m.kind \in {"progress", "reply", "notice"} /\ m.lines \in Seq(Nat)
  BY DEF Messages

\* What a call does to the thread.
LEMMA AppliedIs ==
    ASSUME NEW th \in Seq(Messages), NEW call \in ApiCalls,
           call.op = "edit" => call.at \in 1..Len(th)
    PROVE  LET s == Applied(th, call) IN
           /\ s \in Seq(Messages)
           /\ Len(s) = IF call.op = "post" THEN Len(th) + 1 ELSE Len(th)
           /\ \A i \in 1..Len(th) :
                  /\ s[i].kind = th[i].kind
                  /\ s[i].lines = IF call.op = "edit" /\ i = call.at THEN call.lines
                                  ELSE th[i].lines
           /\ call.op = "post" => s[Len(th) + 1] = Message("progress", call.lines)
           /\ \A i \in Len(th) + 1..Len(s) : i = Len(th) + 1 /\ call.op = "post"
  <1>1. call.op \in {"none", "edit", "post"} /\ call.at \in Nat /\ call.lines \in Seq(Nat)
    BY DEF ApiCalls
  <1>2. Len(th) \in Nat /\ \A i \in 1..Len(th) : th[i] \in Messages
    OBVIOUS
  <1>3. CASE call.op = "none"
    <2>1. Applied(th, call) = th
      BY <1>3 DEF Applied
    <2>2. QED
      BY <1>2, <1>3, <2>1
  <1>4. CASE call.op = "post"
    <2>1. Applied(th, call) = Append(th, Message("progress", call.lines))
      BY <1>4 DEF Applied
    <2>2. Message("progress", call.lines) \in Messages
      BY <1>1 DEF Message, Messages
    <2>3. QED
      BY <1>2, <1>4, <2>1, <2>2
  <1>5. CASE call.op = "edit"
    <2>1. Applied(th, call) = [th EXCEPT ![call.at].lines = call.lines]
      BY <1>5 DEF Applied
    <2>2. [th[call.at] EXCEPT !.lines = call.lines] \in Messages
          /\ [th[call.at] EXCEPT !.lines = call.lines].kind = th[call.at].kind
          /\ [th[call.at] EXCEPT !.lines = call.lines].lines = call.lines
      BY <1>1, <1>2, <1>5 DEF Messages
    <2>3. QED
      BY <1>2, <1>5, <2>1, <2>2
  <1>6. QED
    BY <1>1, <1>3, <1>4, <1>5

\* A call shows nothing but its own lines, and what was shown before.
LEMMA AppliedTells ==
    ASSUME NEW th \in Seq(Messages), NEW call \in ApiCalls,
           call.op = "edit" => call.at \in 1..Len(th)
    PROVE  LET s == Applied(th, call) IN
           /\ \A b : Tells(s, b) => Tells(th, b) \/ b \in ToSet(call.lines)
           /\ (call.op = "edit" => ToSet(th[call.at].lines) \subseteq ToSet(call.lines)) =>
                  \A b : Tells(th, b) => Tells(s, b)
           /\ call.op # "none" => \A b \in ToSet(call.lines) : Tells(s, b)
  <1>1. PICK s : s = Applied(th, call)
    OBVIOUS
  <1>2. /\ Len(s) = IF call.op = "post" THEN Len(th) + 1 ELSE Len(th)
        /\ \A i \in 1..Len(th) :
               s[i].lines = IF call.op = "edit" /\ i = call.at THEN call.lines ELSE th[i].lines
        /\ call.op = "post" => s[Len(th) + 1] = Message("progress", call.lines)
        /\ Len(th) \in Nat /\ call.op \in {"none", "edit", "post"}
    <2>1. Len(th) \in Nat /\ call.op \in {"none", "edit", "post"}
      BY DEF ApiCalls
    <2>2. QED
      BY <1>1, <2>1, AppliedIs
  <1>3. call.op = "post" => s[Len(th) + 1].lines = call.lines
    BY <1>2 DEF Message
  <1>4. ASSUME NEW b, Tells(s, b) PROVE Tells(th, b) \/ b \in ToSet(call.lines)
    <2>1. PICK i \in 1..Len(s) : b \in ToSet(s[i].lines)
      BY <1>4 DEF Tells
    <2>2. CASE i \in 1..Len(th)
      BY <1>2, <2>1, <2>2 DEF Tells
    <2>3. CASE i \notin 1..Len(th)
      <3>1. call.op = "post" /\ i = Len(th) + 1
        BY <1>2, <2>1, <2>3
      <3>2. QED
        BY <1>3, <2>1, <3>1
    <2>4. QED
      BY <2>2, <2>3
  <1>5. ASSUME NEW b, Tells(th, b),
               call.op = "edit" => ToSet(th[call.at].lines) \subseteq ToSet(call.lines)
        PROVE  Tells(s, b)
    <2>1. PICK i \in 1..Len(th) : b \in ToSet(th[i].lines)
      BY <1>5 DEF Tells
    <2>2. b \in ToSet(s[i].lines) /\ i \in 1..Len(s)
      BY <1>2, <1>5, <2>1
    <2>3. QED
      BY <2>2 DEF Tells
  <1>6. ASSUME call.op # "none", NEW b \in ToSet(call.lines) PROVE Tells(s, b)
    <2>1. CASE call.op = "post"
      <3>1. Len(th) + 1 \in 1..Len(s)
        BY <1>2, <2>1
      <3>2. QED
        BY <1>3, <1>6, <2>1, <3>1 DEF Tells
    <2>2. CASE call.op = "edit"
      <3>1. call.at \in 1..Len(s) /\ s[call.at].lines = call.lines
        BY <1>2, <2>2
      <3>2. QED
        BY <1>6, <3>1 DEF Tells
    <2>3. QED
      BY <1>2, <1>6, <2>1, <2>2
  <1>7. QED
    BY <1>1, <1>4, <1>5, <1>6

\* A recorder that follows some blocks follows fewer.
LEMMA RecordedLess ==
    ASSUME NEW r, NEW p \in Nat, NEW S, NEW T, T \subseteq S, Recorded(r, p, S)
    PROVE  Recorded(r, p, T)
  BY DEF Recorded, Follows

\* A recorder without the first chunk of its queue.
LEMMA TakenKeeps ==
    ASSUME NEW r, NEW p \in Nat, NEW S, Recorded(r, p, S), r.queue # <<>>
    PROVE  LET q == [r EXCEPT !.queue = Tail(@)]
               h == Head(r.queue) IN
           /\ Recorded(q, p, S \union ToSet(h)) /\ q.shut = r.shut /\ q.draining = r.draining
           /\ q.held = r.held /\ q.fresh = r.fresh
           /\ h \in Seq(Nat) /\ Climbs(h) /\ Low(h, p)
           /\ \A b \in S, k \in 1..Len(h) : b < h[k]
           /\ Queued(r) = ToSet(h) \union Queued(q)
  <1>1. r \in Recorders /\ Keeps(r, p) /\ Follows(r, S)
    BY DEF Recorded
  <1>2. /\ r.held \in Seq(Nat) /\ r.queue \in Seq(Seq(Nat))
        /\ \A i \in 1..Len(r.queue) : r.queue[i] \in Seq(Nat)
    BY <1>1, RecorderFields
  <1>3. PICK q, h : q = [r EXCEPT !.queue = Tail(@)] /\ h = Head(r.queue)
    OBVIOUS
  <1>4. /\ Tail(r.queue) \in Seq(Seq(Nat)) /\ h = r.queue[1] /\ 1 \in 1..Len(r.queue)
        /\ Len(Tail(r.queue)) = Len(r.queue) - 1 /\ Len(r.queue) \in Nat
        /\ \A i \in 1..Len(Tail(r.queue)) :
               Tail(r.queue)[i] = r.queue[i + 1] /\ i + 1 \in 1..Len(r.queue)
    BY <1>2, <1>3
  <1>5. /\ q \in Recorders /\ q.queue = Tail(r.queue) /\ q.held = r.held /\ q.fresh = r.fresh
        /\ q.shut = r.shut /\ q.draining = r.draining
    BY <1>1, <1>3, <1>4 DEF Recorders
  <1>6. h \in Seq(Nat) /\ Climbs(h) /\ Low(h, p)
    BY <1>1, <1>2, <1>4 DEF Keeps
  <1>7. Keeps(q, p)
    <2>1. \A i \in 1..Len(q.queue) :
              Low(q.queue[i], p) /\ Climbs(q.queue[i]) /\ Before(q.queue[i], q.held)
      BY <1>1, <1>4, <1>5 DEF Keeps
    <2>2. \A i, j \in 1..Len(q.queue) : i < j => Before(q.queue[i], q.queue[j])
      <3>1. SUFFICES ASSUME NEW i \in 1..Len(q.queue), NEW j \in 1..Len(q.queue), i < j
                     PROVE  Before(q.queue[i], q.queue[j])
        OBVIOUS
      <3>2. /\ q.queue[i] = r.queue[i + 1] /\ q.queue[j] = r.queue[j + 1] /\ i + 1 < j + 1
            /\ i + 1 \in 1..Len(r.queue) /\ j + 1 \in 1..Len(r.queue)
        BY <1>4, <1>5, <3>1
      <3>3. QED
        BY <1>1, <3>2 DEF Keeps
    <2>3. Len(q.queue) <= QueueMax
      BY <1>1, <1>4, <1>5, ProgressAssumption DEF Keeps
    <2>4. QED
      BY <1>1, <1>5, <2>1, <2>2, <2>3 DEF Keeps
  <1>8. Follows(q, S \union ToSet(h))
    <2>1. ASSUME NEW b \in ToSet(h) PROVE \A k \in 1..Len(r.held) : b < r.held[k]
      <3>1. Before(h, r.held)
        BY <1>1, <1>4 DEF Keeps
      <3>2. PICK l \in 1..Len(h) : h[l] = b
        BY <1>6 DEF ToSet
      <3>3. QED
        BY <3>1, <3>2 DEF Before
    <2>2. ASSUME NEW b \in S \union ToSet(h), NEW i \in 1..Len(q.queue),
                 NEW k \in 1..Len(q.queue[i])
          PROVE  b < q.queue[i][k]
      <3>1. q.queue[i] = r.queue[i + 1] /\ i + 1 \in 1..Len(r.queue) /\ 1 < i + 1
        BY <1>4, <1>5
      <3>2. CASE b \in S
        BY <1>1, <3>1, <3>2 DEF Follows
      <3>3. CASE b \in ToSet(h)
        <4>1. PICK l \in 1..Len(h) : h[l] = b
          BY <1>6, <3>3 DEF ToSet
        <4>2. Before(h, r.queue[i + 1])
          BY <1>1, <1>4, <3>1 DEF Keeps
        <4>3. QED
          BY <3>1, <4>1, <4>2 DEF Before
      <3>4. QED
        BY <3>2, <3>3
    <2>3. QED
      BY <1>1, <1>5, <2>1, <2>2 DEF Follows
  <1>9. \A b \in S, k \in 1..Len(h) : b < h[k]
    BY <1>1, <1>4 DEF Follows
  <1>10. Queued(r) = ToSet(h) \union Queued(q)
    <2>1. ASSUME NEW b, NEW i \in 1..Len(r.queue), b \in ToSet(r.queue[i])
          PROVE  b \in ToSet(h) \/ \E j \in 1..Len(q.queue) : b \in ToSet(q.queue[j])
      <3>1. CASE i = 1
        BY <1>4, <2>1, <3>1
      <3>2. CASE i # 1
        <4>1. i - 1 \in 1..Len(q.queue) /\ (i - 1) + 1 = i
          BY <1>4, <1>5, <3>2
        <4>2. q.queue[i - 1] = r.queue[i]
          BY <1>4, <1>5, <4>1
        <4>3. QED
          BY <2>1, <4>1, <4>2
      <3>3. QED
        BY <3>1, <3>2
    <2>2. ASSUME NEW b, NEW j \in 1..Len(q.queue), b \in ToSet(q.queue[j])
          PROVE  \E i \in 1..Len(r.queue) : b \in ToSet(r.queue[i])
      BY <1>4, <1>5, <2>2
    <2>3. ToSet(h) \subseteq Nat
      BY <1>6 DEF ToSet
    <2>4. QED
      BY <1>4, <2>1, <2>2, <2>3 DEF Queued
  <1>11. QED
    BY <1>3, <1>5, <1>6, <1>7, <1>8, <1>9, <1>10 DEF Recorded

\* What the thread and the calls to it are made of.
LEMMA PlacesAre ==
    ASSUME PlacesFit
    PROVE  /\ threadShows \in Seq(Messages) /\ Len(threadShows) \in Nat
           /\ apiCall \in ApiCalls /\ lateCall \in ApiCalls
           /\ newest.at \in 0..Len(threadShows) /\ newest.lines \in Seq(Nat)
           /\ apiCall.op \in {"none", "edit", "post"} /\ apiCall.lines \in Seq(Nat)
           /\ apiCall.chunk \in Seq(Nat)
           /\ NoApiCall \in ApiCalls /\ NoMessage \in [at : Nat, lines : Seq(Nat)]
           /\ ToSet(NoApiCall.lines) = {} /\ ToSet(NoApiCall.chunk) = {}
           /\ ToSet(NoMessage.lines) = {}
           /\ \A b : b \in Shown <=> Tells(threadShows, b)
  <1>1. \A b : b \in Shown <=> Tells(threadShows, b)
    BY ShownIs DEF Shown, LinesAt
  <1>2. /\ threadShows \in Seq(Messages) /\ apiCall \in ApiCalls /\ lateCall \in ApiCalls
        /\ newest \in [at : Nat, lines : Seq(Nat)] /\ newest.at \in 0..Len(threadShows)
    BY DEF PlacesFit
  <1>3. apiCall.op \in {"none", "edit", "post"} /\ apiCall.lines \in Seq(Nat)
        /\ apiCall.chunk \in Seq(Nat)
    BY <1>2 DEF ApiCalls
  <1>4. <<>> \in Seq(Nat)
    OBVIOUS
  <1>5. NoApiCall \in ApiCalls /\ NoMessage \in [at : Nat, lines : Seq(Nat)]
    BY <1>4 DEF NoApiCall, NoMessage, ApiCalls
  <1>6. ToSet(NoApiCall.lines) = {} /\ ToSet(NoApiCall.chunk) = {} /\ ToSet(NoMessage.lines) = {}
    BY DEF NoApiCall, NoMessage, ToSet
  <1>7. QED
    BY <1>1, <1>2, <1>3, <1>5, <1>6

\* The call for a chunk is an edit of the newest message, or a post.
LEMMA CallForIs ==
    ASSUME PlacesFit, NEW h \in Seq(Nat)
    PROVE  /\ CallFor(h) \in ApiCalls /\ CallFor(h).chunk = h /\ CallFor(h).op # "none"
           /\ CallFor(h).op = "edit" =>
                  /\ newest # NoMessage /\ CallFor(h).at = newest.at
                  /\ CallFor(h).at \in 1..Len(threadShows)
                  /\ CallFor(h).lines = newest.lines \o h
           /\ CallFor(h).op = "post" => CallFor(h).lines = h
           /\ ToSet(CallFor(h).lines) \subseteq ToSet(newest.lines) \union ToSet(h)
  <1>1. /\ newest.at \in 0..Len(threadShows) /\ newest.lines \in Seq(Nat)
        /\ Len(threadShows) \in Nat
    BY PlacesAre
  <1>2. CASE newest # NoMessage /\ Len(newest.lines) + Len(h) <= FitLines
    <2>1. CallFor(h) = [op |-> "edit", at |-> newest.at, lines |-> newest.lines \o h, chunk |-> h]
      BY <1>2 DEF CallFor
    <2>2. newest.lines \o h \in Seq(Nat)
      BY <1>1
    <2>3. newest.at # 0
      BY <1>2 DEF PlacesFit
    <2>4. ToSet(newest.lines \o h) \subseteq ToSet(newest.lines) \union ToSet(h)
      <3>1. /\ Len(newest.lines \o h) = Len(newest.lines) + Len(h)
            /\ \A i \in 1..Len(newest.lines \o h) :
                   IF i <= Len(newest.lines) THEN (newest.lines \o h)[i] = newest.lines[i]
                   ELSE (newest.lines \o h)[i] = h[i - Len(newest.lines)]
        BY <1>1, ConcatProperties
      <3>2. Len(newest.lines) \in Nat /\ Len(h) \in Nat
        BY <1>1
      <3>3. SUFFICES ASSUME NEW i \in 1..Len(newest.lines \o h)
                     PROVE  (newest.lines \o h)[i] \in ToSet(newest.lines) \union ToSet(h)
        BY <2>2 DEF ToSet
      <3>4. CASE i <= Len(newest.lines)
        <4>1. i \in 1..Len(newest.lines) /\ (newest.lines \o h)[i] = newest.lines[i]
          BY <3>1, <3>2, <3>3, <3>4
        <4>2. QED
          BY <1>1, <4>1 DEF ToSet
      <3>5. CASE ~(i <= Len(newest.lines))
        <4>1. /\ i - Len(newest.lines) \in 1..Len(h)
              /\ (newest.lines \o h)[i] = h[i - Len(newest.lines)]
          BY <3>1, <3>2, <3>3, <3>5
        <4>2. QED
          BY <4>1 DEF ToSet
      <3>6. QED
        BY <3>4, <3>5
    <2>5. QED
      BY <1>1, <1>2, <2>1, <2>2, <2>3, <2>4 DEF ApiCalls
  <1>3. CASE ~(newest # NoMessage /\ Len(newest.lines) + Len(h) <= FitLines)
    <2>1. CallFor(h) = [op |-> "post", at |-> 0, lines |-> h, chunk |-> h]
      BY <1>3 DEF CallFor
    <2>2. QED
      BY <2>1 DEF ApiCalls
  <1>4. QED
    BY <1>2, <1>3

\* The drain sends the first chunk of the queue, which comes after all that is shown.
LEMMA DrainTakesKeeps == ASSUME ProgressInv, DrainTakes PROVE ProgressInv'
  <1>1. /\ PlacesFit /\ Saying /\ Ending /\ Linked /\ InTurn /\ ReplyIsLast /\ NothingGoesMissing
        /\ FilesFit
    BY DEF ProgressInv
  <1>2. PICK h : h = Head(progress.queue)
    OBVIOUS
  <1>3. /\ progress.draining /\ apiCall = NoApiCall /\ progress.queue # <<>>
        /\ progress' = [progress EXCEPT !.queue = Tail(@)]
        /\ apiCall' = IF silenced THEN NoApiCall ELSE CallFor(h)
        /\ UNCHANGED <<said, unproved, minutes, upshot, tailStep, lateCall, newest, threadShows,
                       silenced, uploaded, archived, mishaps>>
    BY <1>2 DEF DrainTakes
  <1>4. Proved \in Nat /\ Recorded(progress, Proved, Out)
    BY <1>1, ProvedIs DEF Saying
  <1>5. /\ Recorded(progress', Proved, Out \union ToSet(h)) /\ progress'.shut = progress.shut
        /\ progress'.draining = progress.draining
        /\ progress'.held = progress.held /\ progress'.fresh = progress.fresh
        /\ h \in Seq(Nat) /\ Climbs(h) /\ Low(h, Proved)
        /\ \A b \in Out, k \in 1..Len(h) : b < h[k]
        /\ Queued(progress) = ToSet(h) \union Queued(progress')
    BY <1>2, <1>3, <1>4, TakenKeeps
  <1>6. /\ apiCall' \in ApiCalls /\ NoApiCall \in ApiCalls
        /\ apiCall'.op = "edit" => /\ newest # NoMessage /\ apiCall'.at = newest.at
                                   /\ apiCall'.at \in 1..Len(threadShows)
                                   /\ apiCall'.lines = newest.lines \o apiCall'.chunk
        /\ apiCall'.op = "post" => apiCall'.lines = apiCall'.chunk
        /\ apiCall'.op = "none" => apiCall' = NoApiCall
        /\ apiCall'.chunk = IF silenced THEN <<>> ELSE h
        /\ ToSet(apiCall'.lines) \subseteq ToSet(newest.lines) \union ToSet(h)
        /\ ToSet(NoApiCall.lines) = {} /\ ToSet(NoApiCall.chunk) = {}
    <2>1. /\ NoApiCall \in ApiCalls /\ NoApiCall.op = "none" /\ NoApiCall.chunk = <<>>
          /\ ToSet(NoApiCall.lines) = {} /\ ToSet(NoApiCall.chunk) = {}
      BY <1>1, PlacesAre DEF NoApiCall
    <2>2. CASE silenced
      <3>1. apiCall' = NoApiCall
        BY <1>3, <2>2
      <3>2. QED
        BY <2>1, <2>2, <3>1
    <2>3. CASE ~silenced
      <3>1. apiCall' = CallFor(h)
        BY <1>3, <2>3
      <3>2. QED
        BY <1>1, <1>5, <2>1, <2>3, <3>1, CallForIs
    <2>4. QED
      BY <2>2, <2>3
  <1>7. Shown' = Shown /\ Proved' = Proved /\ WarmedUp' = WarmedUp
    BY <1>3 DEF Shown, LinesAt, Proved, WarmedUp
  <1>8. PlacesFit'
    BY <1>1, <1>3, <1>6 DEF PlacesFit
  <1>9. ToSet(apiCall'.chunk) \subseteq ToSet(h)
    BY <1>6 DEF ToSet
  <1>10. Out' \subseteq Out \union ToSet(h)
    BY <1>3, <1>6, <1>7, <1>9 DEF Out
  <1>11. Saying'
    <2>1. Recorded(progress', Proved', Out')
      BY <1>4, <1>5, <1>7, <1>10, RecordedLess
    <2>2. \A b \in Out' : b \in 1..Proved'
      <3>1. \A b \in ToSet(h) : b \in 1..Proved
        BY <1>5 DEF Low, ToSet
      <3>2. \A b \in Out : b \in 1..Proved
        BY <1>1 DEF Saying
      <3>3. QED
        BY <1>7, <1>10, <3>1, <3>2
    <2>3. Climbs(apiCall'.chunk)
      BY <1>5, <1>6 DEF Climbs
    <2>4. upshot = "running" /\ "overflow" \notin mishaps => Spent(progress')
      BY <1>1, <1>5 DEF Saying, Spent
    <2>5. QED
      BY <1>1, <1>3, <1>7, <2>1, <2>2, <2>3, <2>4 DEF Saying
  <1>12. Ending'
    BY <1>1, <1>3, <1>5 DEF Ending
  <1>13. Linked'
    BY <1>1, <1>3, <1>6 DEF Linked, LinesAt
  <1>14. InTurn'
    <2>1. \A b \in Shown, k \in 1..Len(apiCall'.chunk) : b < apiCall'.chunk[k]
      <3>1. Shown \subseteq Out
        BY DEF Out
      <3>2. QED
        BY <1>5, <1>6, <3>1
    <2>2. ToldOnceInOrder => ToldOnceInOrder'
      BY <1>3 DEF ToldOnceInOrder, LinesAt
    <2>3. QED
      BY <1>1, <1>3, <1>7, <2>1, <2>2 DEF InTurn
  <1>15. ReplyIsLast'
    BY <1>1, <1>3 DEF ReplyIsLast, NothingUnderTheReply
  <1>16. NothingGoesMissing'
    <2>1. tailStep \in {"running", "closing"}
      BY <1>1, <1>3 DEF Ending
    <2>2. ToSet(apiCall.chunk) = {}
      BY <1>3, <1>6
    <2>3. ~silenced => ToSet(apiCall'.chunk) = ToSet(h)
      BY <1>6
    <2>4. QED
      BY <1>1, <1>3, <1>5, <1>7, <2>1, <2>2, <2>3 DEF NothingGoesMissing
  <1>17. FilesFit'
    BY <1>1, <1>3 DEF FilesFit, Outbox
  <1>18. QED
    BY <1>8, <1>11, <1>12, <1>13, <1>14, <1>15, <1>16, <1>17 DEF ProgressInv

\* What the calls that answer keep: what is shown then was said before, and the recorder is
\* as it was.
LEMMA AnswerKeepsSaying ==
    ASSUME PlacesFit, Saying, PlacesFit',
           \A b \in Shown' : b \in Out,
           ToSet(newest'.lines) \subseteq ToSet(newest.lines) \union ToSet(apiCall.lines),
           ToSet(apiCall'.lines) \subseteq ToSet(apiCall.chunk),
           apiCall'.chunk \in {<<>>, apiCall.chunk},
           ToSet(lateCall'.lines) \subseteq ToSet(lateCall.lines),
           mishaps \subseteq mishaps',
           UNCHANGED <<said, unproved, progress, minutes, upshot>>
    PROVE  Saying'
  <1>1. Proved \in Nat /\ Proved' = Proved
    BY ProvedIs DEF Proved
  <1>2. ToSet(apiCall'.chunk) \subseteq ToSet(apiCall.chunk)
    BY DEF ToSet
  <1>3. Out' \subseteq Out
    BY <1>2 DEF Out
  <1>4. Recorded(progress', Proved', Out')
    BY <1>1, <1>3, RecordedLess DEF Saying
  <1>5. Climbs(apiCall'.chunk)
    BY DEF Climbs, Saying
  <1>6. QED
    BY <1>1, <1>3, <1>4, <1>5 DEF Saying

\* What two sequences hold, their concatenation holds.
LEMMA BothAreIn ==
    ASSUME NEW s \in Seq(Nat), NEW t \in Seq(Nat)
    PROVE  ToSet(s) \subseteq ToSet(s \o t) /\ ToSet(t) \subseteq ToSet(s \o t)
  <1>1. PICK q : q = s \o t
    OBVIOUS
  <1>2. /\ DOMAIN q = 1..Len(s) + Len(t) /\ Len(s) \in Nat /\ Len(t) \in Nat
        /\ DOMAIN s = 1..Len(s) /\ DOMAIN t = 1..Len(t)
        /\ \A i \in 1..Len(s) + Len(t) :
               q[i] = IF i <= Len(s) THEN s[i] ELSE t[i - Len(s)]
    BY <1>1, ConcatProperties
  <1>3. ASSUME NEW i \in 1..Len(s) PROVE s[i] \in ToSet(q)
    <2>1. i \in DOMAIN q /\ q[i] = s[i]
      BY <1>2
    <2>2. QED
      BY <2>1 DEF ToSet
  <1>4. ASSUME NEW i \in 1..Len(t) PROVE t[i] \in ToSet(q)
    <2>1. /\ i + Len(s) \in 1..Len(s) + Len(t) /\ ~(i + Len(s) <= Len(s))
          /\ (i + Len(s)) - Len(s) = i
      BY <1>2
    <2>2. q[i + Len(s)] = t[i] /\ i + Len(s) \in DOMAIN q
      BY <1>2, <2>1
    <2>3. QED
      BY <2>2 DEF ToSet
  <1>5. \A x \in ToSet(s) : x \in ToSet(q)
    <2>1. \A x \in ToSet(s) : \E i \in 1..Len(s) : x = s[i]
      BY <1>2 DEF ToSet
    <2>2. QED
      BY <1>3, <2>1
  <1>6. \A x \in ToSet(t) : x \in ToSet(q)
    <2>1. \A x \in ToSet(t) : \E i \in 1..Len(t) : x = t[i]
      BY <1>2 DEF ToSet
    <2>2. QED
      BY <1>4, <2>1
  <1>7. QED
    BY <1>1, <1>5, <1>6

\* An element of a concatenation is one of the first or of the second.
LEMMA JoinedIs ==
    ASSUME NEW s \in Seq(Nat), NEW t \in Seq(Nat), NEW i \in 1..Len(s \o t)
    PROVE  \/ i \in 1..Len(s) /\ i <= Len(s) /\ (s \o t)[i] = s[i]
           \/ i > Len(s) /\ i - Len(s) \in 1..Len(t) /\ (s \o t)[i] = t[i - Len(s)]
  <1>1. /\ Len(s \o t) = Len(s) + Len(t) /\ Len(s) \in Nat /\ Len(t) \in Nat
        /\ \A k \in 1..Len(s) + Len(t) :
               (s \o t)[k] = IF k <= Len(s) THEN s[k] ELSE t[k - Len(s)]
    BY ConcatProperties
  <1>2. i \in 1..Len(s) + Len(t)
    BY <1>1
  <1>3. (s \o t)[i] = IF i <= Len(s) THEN s[i] ELSE t[i - Len(s)]
    BY <1>1, <1>2
  <1>4. QED
    BY <1>1, <1>2, <1>3

\* An edit is answered, in time or not.
LEMMA EditAnswersKeeps ==
    ASSUME ProgressInv, NEW outcome \in {"ok", "refused", "unsure"}, EditAnswers(outcome)
    PROVE  ProgressInv'
  <1>1. /\ PlacesFit /\ Saying /\ Ending /\ Linked /\ InTurn /\ ReplyIsLast /\ NothingGoesMissing
        /\ FilesFit
    BY DEF ProgressInv
  <1>2. PICK posted : posted = [op |-> "post", at |-> 0, lines |-> apiCall.chunk,
                                chunk |-> apiCall.chunk]
    OBVIOUS
  <1>3. /\ apiCall.op = "edit"
        /\ threadShows' = IF outcome = "refused" THEN threadShows
                          ELSE Applied(threadShows, apiCall)
        /\ IF outcome = "ok"
           THEN newest' = [newest EXCEPT !.lines = apiCall.lines] /\ apiCall' = NoApiCall
           ELSE apiCall' = posted /\ newest' = newest
        /\ mishaps' = mishaps \union ({outcome} \ {"ok", "refused"})
        /\ UNCHANGED <<said, unproved, progress, minutes, upshot, tailStep, lateCall, silenced,
                       uploaded, archived>>
    BY <1>2 DEF EditAnswers
  <1>4. /\ threadShows \in Seq(Messages) /\ apiCall \in ApiCalls
        /\ apiCall.at \in 1..Len(threadShows)
        /\ newest.at \in 0..Len(threadShows) /\ newest.lines \in Seq(Nat)
        /\ apiCall.lines \in Seq(Nat) /\ apiCall.chunk \in Seq(Nat) /\ Len(threadShows) \in Nat
        /\ newest \in [at : Nat, lines : Seq(Nat)] /\ NoApiCall \in ApiCalls
        /\ ToSet(NoApiCall.lines) = {} /\ ToSet(NoApiCall.chunk) = {}
        /\ \A b : b \in Shown <=> Tells(threadShows, b)
    BY <1>1, <1>3, PlacesAre DEF PlacesFit
  <1>5. PICK s : s = Applied(threadShows, apiCall)
    OBVIOUS
  <1>6. /\ s \in Seq(Messages) /\ Len(s) = Len(threadShows)
        /\ \A i \in 1..Len(threadShows) :
               /\ s[i].kind = threadShows[i].kind
               /\ s[i].lines = IF i = apiCall.at THEN apiCall.lines ELSE threadShows[i].lines
    BY <1>3, <1>4, <1>5, AppliedIs
  <1>7. /\ \A b : Tells(s, b) => Tells(threadShows, b) \/ b \in ToSet(apiCall.lines)
        /\ ToSet(threadShows[apiCall.at].lines) \subseteq ToSet(apiCall.lines) =>
                  \A b : Tells(threadShows, b) => Tells(s, b)
        /\ \A b \in ToSet(apiCall.lines) : Tells(s, b)
    BY <1>3, <1>4, <1>5, AppliedTells
  <1>8. \A b : b \in Shown' <=> Tells(threadShows', b)
    BY ShownIs DEF Shown, LinesAt
  <1>9. threadShows' \in {threadShows, s} /\ threadShows' \in Seq(Messages)
        /\ Len(threadShows') = Len(threadShows)
    BY <1>3, <1>4, <1>5, <1>6
  <1>10. /\ posted \in ApiCalls /\ posted.op = "post" /\ posted.lines = apiCall.chunk
         /\ posted.chunk = apiCall.chunk
    BY <1>2, <1>4 DEF ApiCalls
  <1>11. /\ newest' \in [at : Nat, lines : Seq(Nat)] /\ newest'.at = newest.at
         /\ newest'.lines = IF outcome = "ok" THEN apiCall.lines ELSE newest.lines
         /\ apiCall' \in ApiCalls /\ apiCall'.op \in {"none", "post"}
         /\ apiCall'.lines = apiCall'.chunk
         /\ apiCall'.chunk = IF outcome = "ok" THEN <<>> ELSE apiCall.chunk
         /\ apiCall'.op = "none" => apiCall' = NoApiCall
    <2>1. CASE outcome = "ok"
      BY <1>3, <1>4, <2>1 DEF NoApiCall
    <2>2. CASE outcome # "ok"
      BY <1>3, <1>4, <1>10, <2>2
    <2>3. QED
      BY <2>1, <2>2
  <1>12. PlacesFit'
    BY <1>1, <1>3, <1>4, <1>9, <1>11 DEF PlacesFit
  <1>13. Saying'
    <2>1. \A b \in Shown' : b \in Shown \union ToSet(apiCall.lines)
      BY <1>4, <1>7, <1>8, <1>9
    <2>2. ToSet(newest'.lines) \subseteq ToSet(newest.lines) \union ToSet(apiCall.lines)
      BY <1>11
    <2>3. /\ ToSet(apiCall'.lines) \subseteq ToSet(apiCall.chunk)
          /\ apiCall'.chunk \in {<<>>, apiCall.chunk}
      BY <1>11 DEF ToSet
    <2>4. QED
      BY <1>1, <1>3, <1>12, <2>1, <2>2, <2>3, AnswerKeepsSaying DEF Out
  <1>14. Ending'
    BY <1>1, <1>3, <1>4 DEF Ending, NoApiCall
  <1>15. tailStep \in {"running", "closing"}
    BY <1>1, <1>3 DEF Ending, NoApiCall
  <1>16. Linked'
    <2>1. SUFFICES ASSUME mishaps' \intersect {"unsure", "gaveUp", "stopped"} = {}
                   PROVE  /\ newest' # NoMessage => newest'.lines = LinesAt(newest.at)'
                          /\ newest'.at = Len(threadShows')
      BY <1>3, <1>11 DEF Linked
    <2>2. /\ newest # NoMessage => newest.lines = LinesAt(newest.at)
          /\ newest.at = Len(threadShows) /\ outcome # "unsure"
      BY <1>1, <1>3, <1>15, <2>1 DEF Linked
    <2>3. CASE outcome = "ok"
      <3>1. threadShows' = s /\ newest'.at = apiCall.at /\ newest'.lines = apiCall.lines
        BY <1>1, <1>3, <1>5, <1>11, <2>3 DEF PlacesFit
      <3>2. QED
        BY <1>4, <1>6, <1>9, <1>11, <2>2, <3>1 DEF LinesAt
    <2>4. CASE outcome = "refused"
      BY <1>3, <2>2, <2>4 DEF LinesAt
    <2>5. QED
      BY <2>2, <2>3, <2>4
  <1>17. InTurn'
    <2>1. SUFFICES ASSUME mishaps' \intersect {"unsure", "twice", "gaveUp", "stopped"} = {}
                   PROVE  /\ ToldOnceInOrder'
                          /\ \A b \in Shown', k \in 1..Len(apiCall'.chunk) : b < apiCall'.chunk[k]
      BY DEF InTurn
    <2>2. /\ mishaps \intersect {"unsure", "twice", "gaveUp", "stopped"} = {}
          /\ outcome # "unsure" /\ ToldOnceInOrder
          /\ \A b \in Shown, k \in 1..Len(apiCall.chunk) : b < apiCall.chunk[k]
          /\ newest # NoMessage => newest.lines = LinesAt(newest.at)
          /\ newest.at = Len(threadShows) /\ apiCall.lines = newest.lines \o apiCall.chunk
          /\ newest # NoMessage /\ apiCall.at = newest.at
      <3>1. /\ mishaps \intersect {"unsure", "twice", "gaveUp", "stopped"} = {}
            /\ mishaps \intersect {"unsure", "gaveUp", "stopped"} = {} /\ outcome # "unsure"
        BY <1>3, <2>1
      <3>2. apiCall.at = newest.at /\ newest # NoMessage
        BY <1>1, <1>3, <1>4 DEF PlacesFit, NoMessage
      <3>3. QED
        BY <1>1, <1>3, <1>15, <3>1, <3>2 DEF InTurn, Linked
    <2>3. CASE outcome = "refused"
      <3>1. threadShows' = threadShows /\ apiCall'.chunk = apiCall.chunk
        BY <1>3, <1>11, <2>3
      <3>2. Shown' = Shown
        BY <3>1 DEF Shown, LinesAt
      <3>3. ToldOnceInOrder'
        BY <2>2, <3>1 DEF ToldOnceInOrder, LinesAt
      <3>4. QED
        BY <2>2, <3>1, <3>2, <3>3
    <2>4. CASE outcome = "ok"
      <3>1. threadShows' = s /\ Len(apiCall'.chunk) = 0
        BY <1>3, <1>5, <1>11, <2>4
      <3>2. ToldOnceInOrder'
        <4>1. SUFFICES ASSUME NEW i \in 1..Len(s), NEW j \in 1..Len(s),
                              NEW k \in 1..Len(s[i].lines), NEW l \in 1..Len(s[j].lines),
                              i < j \/ (i = j /\ k < l)
                       PROVE  s[i].lines[k] < s[j].lines[l]
          BY <3>1 DEF ToldOnceInOrder, LinesAt
        <4> DEFINE n == Len(threadShows)
        <4>2. n = apiCall.at /\ n \in 1..n /\ newest.lines = threadShows[n].lines
          BY <1>4, <2>2 DEF LinesAt
        <4>3. /\ \A x \in 1..Len(apiCall.lines) :
                   \/ /\ x \in 1..Len(newest.lines) /\ x <= Len(newest.lines)
                      /\ apiCall.lines[x] = newest.lines[x]
                   \/ /\ x > Len(newest.lines) /\ x - Len(newest.lines) \in 1..Len(apiCall.chunk)
                      /\ apiCall.lines[x] = apiCall.chunk[x - Len(newest.lines)]
              /\ Len(newest.lines) \in Nat /\ Len(apiCall.chunk) \in Nat
          <5>1. apiCall.lines = newest.lines \o apiCall.chunk
            BY <2>2
          <5>2. newest.lines \in Seq(Nat) /\ apiCall.chunk \in Seq(Nat)
            BY <1>4
          <5>3. \A x \in 1..Len(newest.lines \o apiCall.chunk) :
                   \/ /\ x \in 1..Len(newest.lines) /\ x <= Len(newest.lines)
                      /\ (newest.lines \o apiCall.chunk)[x] = newest.lines[x]
                   \/ /\ x > Len(newest.lines) /\ x - Len(newest.lines) \in 1..Len(apiCall.chunk)
                      /\ (newest.lines \o apiCall.chunk)[x] = apiCall.chunk[x - Len(newest.lines)]
            BY <5>2, JoinedIs
          <5>4. Len(newest.lines) \in Nat /\ Len(apiCall.chunk) \in Nat
            BY <5>2
          <5>5. QED
            BY <5>1, <5>3, <5>4, Zenon
        <4>4. \A a, c \in 1..n : \A x \in 1..Len(threadShows[a].lines),
                                  y \in 1..Len(threadShows[c].lines) :
                  a < c \/ (a = c /\ x < y) =>
                      threadShows[a].lines[x] < threadShows[c].lines[y]
          BY <2>2 DEF ToldOnceInOrder, LinesAt
        <4>5. i \in 1..n /\ j \in 1..n
          BY <1>6, <4>1
        <4>6. CASE j # n
          <5>1. i # n
            BY <4>1, <4>5, <4>6
          <5>2. s[i].lines = threadShows[i].lines /\ s[j].lines = threadShows[j].lines
            BY <1>6, <4>2, <4>5, <4>6, <5>1
          <5>3. QED
            BY <4>1, <4>4, <4>5, <5>2
        <4>7. CASE j = n
          <5>1. s[j].lines = apiCall.lines /\ l \in 1..Len(apiCall.lines)
            BY <1>6, <4>1, <4>2, <4>5, <4>7
          <5>2. \/ s[i].lines = threadShows[i].lines /\ i < n
                \/ i = n /\ s[i].lines = apiCall.lines /\ k < l
            BY <1>6, <4>1, <4>2, <4>5, <4>7
          <5>3. \/ /\ i < n \/ (i = n /\ k <= Len(newest.lines))
                   /\ k \in 1..Len(threadShows[i].lines)
                   /\ s[i].lines[k] = threadShows[i].lines[k]
                \/ /\ i = n /\ k < l /\ k > Len(newest.lines)
                   /\ k - Len(newest.lines) \in 1..Len(apiCall.chunk)
                   /\ s[i].lines[k] = apiCall.chunk[k - Len(newest.lines)]
            <6>1. CASE s[i].lines = threadShows[i].lines /\ i < n
              BY <4>1, <6>1
            <6>2. CASE i = n /\ s[i].lines = apiCall.lines /\ k < l
              <7>1. k \in 1..Len(apiCall.lines)
                BY <4>1, <6>2
              <7>2. \/ /\ k \in 1..Len(newest.lines) /\ k <= Len(newest.lines)
                       /\ apiCall.lines[k] = newest.lines[k]
                    \/ /\ k > Len(newest.lines) /\ k - Len(newest.lines) \in 1..Len(apiCall.chunk)
                       /\ apiCall.lines[k] = apiCall.chunk[k - Len(newest.lines)]
                BY <4>3, <7>1
              <7>3. CASE /\ k \in 1..Len(newest.lines) /\ k <= Len(newest.lines)
                         /\ apiCall.lines[k] = newest.lines[k]
                BY <4>2, <6>2, <7>3
              <7>4. CASE /\ k > Len(newest.lines)
                         /\ k - Len(newest.lines) \in 1..Len(apiCall.chunk)
                         /\ apiCall.lines[k] = apiCall.chunk[k - Len(newest.lines)]
                BY <6>2, <7>4
              <7>5. QED
                BY <7>2, <7>3, <7>4
            <6>3. QED
              BY <5>2, <6>1, <6>2
          <5>4. CASE l <= Len(newest.lines)
            <6>1. l \in 1..Len(threadShows[n].lines) /\ s[j].lines[l] = threadShows[n].lines[l]
              <7>1. l \in 1..Len(newest.lines) /\ apiCall.lines[l] = newest.lines[l]
                BY <4>3, <5>1, <5>4
              <7>2. QED
                BY <4>2, <5>1, <7>1
            <6>2. /\ k \in 1..Len(threadShows[i].lines) /\ s[i].lines[k] = threadShows[i].lines[k]
                  /\ (i < n \/ (i = n /\ k < l))
              BY <4>1, <4>3, <4>7, <5>1, <5>3, <5>4
            <6>3. QED
              BY <4>2, <4>4, <4>5, <6>1, <6>2
          <5>5. CASE l > Len(newest.lines)
            <6>1. /\ l - Len(newest.lines) \in 1..Len(apiCall.chunk)
                  /\ s[j].lines[l] = apiCall.chunk[l - Len(newest.lines)]
              <7>1. /\ l - Len(newest.lines) \in 1..Len(apiCall.chunk)
                    /\ ~(l <= Len(newest.lines))
                BY <4>3, <5>1, <5>5
              <7>2. apiCall.lines[l] = apiCall.chunk[l - Len(newest.lines)]
                BY <4>3, <5>1, <7>1
              <7>3. QED
                BY <5>1, <7>1, <7>2
            <6>2. CASE k \in 1..Len(threadShows[i].lines) /\ s[i].lines[k] = threadShows[i].lines[k]
              <7>1. s[i].lines[k] \in Shown
                BY <1>4, <4>5, <6>2 DEF Tells, ToSet
              <7>2. QED
                BY <2>2, <6>1, <7>1
            <6>3. CASE /\ k < l /\ k > Len(newest.lines)
                       /\ k - Len(newest.lines) \in 1..Len(apiCall.chunk)
                       /\ s[i].lines[k] = apiCall.chunk[k - Len(newest.lines)]
              <7>1. Climbs(apiCall.chunk)
                BY <1>1 DEF Saying
              <7>2. k - Len(newest.lines) < l - Len(newest.lines)
                BY <4>3, <5>1, <6>3
              <7>3. QED
                BY <6>1, <6>3, <7>1, <7>2 DEF Climbs
            <6>4. QED
              BY <5>3, <6>2, <6>3
          <5>6. QED
            BY <4>3, <5>1, <5>4, <5>5
        <4>8. QED
          BY <4>6, <4>7
      <3>3. QED
        BY <3>1, <3>2
    <2>5. QED
      BY <2>2, <2>3, <2>4
  <1>18. ReplyIsLast'
    <2>1. \A i \in 1..Len(threadShows') : threadShows'[i].kind = threadShows[i].kind
      BY <1>6, <1>9
    <2>2. QED
      BY <1>1, <1>3, <1>9, <2>1 DEF ReplyIsLast, NothingUnderTheReply
  <1>19. NothingGoesMissing'
    <2>1. SUFFICES ASSUME mishaps' \intersect {"lost", "unsure", "gaveUp", "overflow",
                                               "stopped"} = {},
                          ~silenced
                   PROVE  \A b \in Shown \union ToSet(apiCall.chunk) :
                              b \in Shown' \union ToSet(apiCall'.chunk)
      <3>1. mishaps \subseteq mishaps' /\ Proved' = Proved /\ WarmedUp' = WarmedUp
        BY <1>3 DEF Proved, WarmedUp
      <3>2. QED
        BY <1>1, <1>3, <1>15, <2>1, <3>1 DEF NothingGoesMissing, Recent
    <2>2. CASE outcome = "refused"
      <3>1. Shown' = Shown
        BY <1>3, <2>2 DEF Shown, LinesAt
      <3>2. QED
        BY <1>11, <2>2, <3>1
    <2>3. CASE outcome = "ok"
      <3>1. /\ newest # NoMessage => newest.lines = LinesAt(newest.at)
            /\ apiCall.lines = newest.lines \o apiCall.chunk /\ newest # NoMessage
            /\ apiCall.at = newest.at
        BY <1>1, <1>3, <1>4, <2>1 DEF Linked, PlacesFit, NoMessage
      <3>2. ToSet(newest.lines) \subseteq ToSet(apiCall.lines)
            /\ ToSet(apiCall.chunk) \subseteq ToSet(apiCall.lines)
        BY <1>4, <3>1, BothAreIn
      <3>3. \A b \in Shown : b \in Shown'
        BY <1>3, <1>4, <1>5, <1>7, <1>8, <2>3, <3>1, <3>2 DEF LinesAt
      <3>4. \A b \in ToSet(apiCall.chunk) : b \in Shown'
        BY <1>3, <1>5, <1>7, <1>8, <2>3, <3>2
      <3>5. QED
        BY <3>3, <3>4
    <2>4. QED
      BY <1>3, <2>1, <2>2, <2>3
  <1>20. FilesFit'
    BY <1>1, <1>3 DEF FilesFit, Outbox
  <1>21. QED
    BY <1>12, <1>13, <1>14, <1>16, <1>17, <1>18, <1>19, <1>20 DEF ProgressInv

\* A post is answered, lost, or made twice.
LEMMA PostAnswersKeeps ==
    ASSUME ProgressInv, NEW outcome \in {"ok", "lost", "unsure", "twice"}, PostAnswers(outcome)
    PROVE  ProgressInv'
  <1>1. /\ PlacesFit /\ Saying /\ Ending /\ Linked /\ InTurn /\ ReplyIsLast /\ NothingGoesMissing
        /\ FilesFit
    BY DEF ProgressInv
  <1>2. /\ threadShows \in Seq(Messages) /\ apiCall \in ApiCalls /\ lateCall \in ApiCalls
        /\ newest.at \in 0..Len(threadShows) /\ newest.lines \in Seq(Nat)
        /\ apiCall.lines \in Seq(Nat) /\ apiCall.chunk \in Seq(Nat) /\ Len(threadShows) \in Nat
        /\ newest \in [at : Nat, lines : Seq(Nat)] /\ NoApiCall \in ApiCalls
        /\ ToSet(NoApiCall.lines) = {} /\ ToSet(NoApiCall.chunk) = {}
        /\ \A b : b \in Shown <=> Tells(threadShows, b)
    BY <1>1, PlacesAre DEF PlacesFit
  <1>3. PICK s, d : s = Applied(threadShows, apiCall) /\ d = Applied(s, apiCall)
    OBVIOUS
  <1>4. /\ apiCall.op = "post" /\ apiCall' = NoApiCall
        /\ threadShows' = CASE outcome = "lost" -> threadShows
                            [] outcome = "twice" -> d
                            [] OTHER -> s
        /\ newest' = IF outcome \in {"ok", "twice"}
                     THEN [at |-> Len(threadShows'), lines |-> apiCall.lines] ELSE newest
        /\ mishaps' = mishaps \union ({outcome} \ {"ok"})
        /\ UNCHANGED <<said, unproved, progress, minutes, upshot, tailStep, lateCall, silenced,
                       uploaded, archived>>
    BY <1>3 DEF PostAnswers
  <1> DEFINE n == Len(threadShows)
  <1>5. /\ s \in Seq(Messages) /\ Len(s) = n + 1
        /\ \A i \in 1..n : s[i].kind = threadShows[i].kind /\ s[i].lines = threadShows[i].lines
        /\ s[n + 1] = Message("progress", apiCall.lines)
    BY <1>2, <1>3, <1>4, AppliedIs, SMTT(30)
  <1>6. /\ d \in Seq(Messages) /\ Len(d) = Len(s) + 1
        /\ \A i \in 1..Len(s) : d[i].kind = s[i].kind /\ d[i].lines = s[i].lines
        /\ d[Len(s) + 1] = Message("progress", apiCall.lines)
    <2>1. s \in Seq(Messages) /\ apiCall \in ApiCalls /\ apiCall.op = "post"
          /\ d = Applied(s, apiCall)
      BY <1>2, <1>3, <1>4, <1>5
    <2>2. QED
      BY <2>1, AppliedIs
  <1>7. /\ \A b : Tells(s, b) => Tells(threadShows, b) \/ b \in ToSet(apiCall.lines)
        /\ \A b : Tells(threadShows, b) => Tells(s, b)
        /\ \A b \in ToSet(apiCall.lines) : Tells(s, b)
    BY <1>2, <1>3, <1>4, AppliedTells
  <1>8. /\ \A b : Tells(d, b) => Tells(s, b) \/ b \in ToSet(apiCall.lines)
        /\ \A b : Tells(s, b) => Tells(d, b)
    BY <1>2, <1>3, <1>4, <1>5, AppliedTells
  <1>9. \A b : b \in Shown' <=> Tells(threadShows', b)
    BY ShownIs DEF Shown, LinesAt
  <1>10. /\ outcome = "lost" => threadShows' = threadShows
         /\ outcome \in {"ok", "unsure"} => threadShows' = s
         /\ outcome = "twice" => threadShows' = d
    BY <1>4
  <1>11. /\ threadShows' \in Seq(Messages) /\ Len(threadShows') \in Nat
         /\ Len(threadShows') >= n
         /\ outcome # "lost" => /\ Len(threadShows') >= 1
                                /\ threadShows'[Len(threadShows')].lines = apiCall.lines
         /\ \A i \in 1..Len(threadShows') :
                \/ i \in 1..n /\ threadShows'[i].kind = threadShows[i].kind
                \/ i \notin 1..n /\ threadShows'[i].kind = "progress"
    <2>1. CASE outcome = "lost"
      BY <1>2, <1>10, <2>1
    <2>2. CASE outcome \in {"ok", "unsure"}
      <3>1. s[n + 1].kind = "progress" /\ s[n + 1].lines = apiCall.lines
        BY <1>5 DEF Message
      <3>2. \A i \in 1..n + 1 : i \in 1..n \/ i = n + 1
        BY <1>2
      <3>3. QED
        BY <1>2, <1>5, <1>10, <2>2, <3>1, <3>2
    <2>3. CASE outcome = "twice"
      <3>1. s[n + 1].kind = "progress" /\ Len(d) = n + 2
            /\ d[n + 2].kind = "progress" /\ d[n + 2].lines = apiCall.lines
        BY <1>2, <1>5, <1>6 DEF Message
      <3>2. d[n + 1].kind = "progress" /\ \A i \in 1..n : d[i].kind = threadShows[i].kind
        <4>1. n + 1 \in 1..Len(s) /\ \A i \in 1..n : i \in 1..Len(s)
          BY <1>2, <1>5
        <4>2. QED
          BY <1>5, <1>6, <3>1, <4>1
      <3>3. \A i \in 1..n + 2 : i \in 1..n \/ i = n + 1 \/ i = n + 2
        BY <1>2
      <3>4. QED
        <4>1. n + 2 \in Nat /\ n + 2 >= 1 /\ n + 2 >= n /\ d \in Seq(Messages)
          BY <1>2, <1>6
        <4>2. n + 1 \notin 1..n /\ n + 2 \notin 1..n
          BY <1>2
        <4>3. ASSUME NEW i \in 1..n + 2
              PROVE  \/ i \in 1..n /\ d[i].kind = threadShows[i].kind
                     \/ i \notin 1..n /\ d[i].kind = "progress"
          <5>2. CASE i \in 1..n
            BY <3>2, <5>2
          <5>3. CASE i = n + 1
            BY <3>2, <4>2, <5>3
          <5>4. CASE i = n + 2
            BY <3>1, <4>2, <5>4
          <5>5. QED
            BY <3>3, <5>2, <5>3, <5>4
        <4>4. QED
          BY <1>10, <2>3, <3>1, <4>1, <4>3
    <2>4. QED
      BY <2>1, <2>2, <2>3
  <1>12. \A b \in Shown' : b \in Shown \union ToSet(apiCall.lines)
    BY <1>2, <1>7, <1>8, <1>9, <1>10
  <1>13. Shown \subseteq Shown' /\ (outcome # "lost" => ToSet(apiCall.lines) \subseteq Shown')
    BY <1>2, <1>7, <1>8, <1>9, <1>10
  <1>14. /\ newest' \in [at : Nat, lines : Seq(Nat)] /\ newest'.at \in 0..Len(threadShows')
         /\ newest'.at = 0 => newest' = NoMessage
         /\ ToSet(newest'.lines) \subseteq ToSet(newest.lines) \union ToSet(apiCall.lines)
         /\ outcome \in {"ok", "twice"} =>
                newest'.at = Len(threadShows') /\ newest'.lines = apiCall.lines
         /\ outcome \notin {"ok", "twice"} => newest' = newest
    BY <1>1, <1>2, <1>4, <1>11 DEF PlacesFit
  <1>15. PlacesFit'
    BY <1>1, <1>2, <1>4, <1>11, <1>14 DEF PlacesFit, NoApiCall
  <1>16. Saying'
    <2>1. ToSet(apiCall'.lines) \subseteq ToSet(apiCall.chunk) /\ apiCall'.chunk = <<>>
      BY <1>2, <1>4 DEF NoApiCall
    <2>2. QED
      BY <1>1, <1>4, <1>12, <1>14, <1>15, <2>1, AnswerKeepsSaying DEF Out
  <1>17. Ending'
    BY <1>1, <1>4 DEF Ending
  <1>18. tailStep \in {"running", "closing"}
    BY <1>1, <1>4 DEF Ending, NoApiCall
  <1>19. apiCall'.op = "none" /\ Len(apiCall'.chunk) = 0
    BY <1>4 DEF NoApiCall
  <1>20. Linked'
    <2>1. SUFFICES ASSUME mishaps' \intersect {"unsure", "gaveUp", "stopped"} = {}
                   PROVE  /\ newest' # NoMessage => newest'.lines = LinesAt(newest.at)'
                          /\ newest'.at = Len(threadShows')
      BY <1>19 DEF Linked
    <2>2. /\ newest # NoMessage => newest.lines = LinesAt(newest.at)
          /\ newest.at = Len(threadShows) /\ outcome # "unsure"
      BY <1>1, <1>4, <1>18, <2>1 DEF Linked
    <2>3. CASE outcome = "lost"
      BY <1>10, <1>14, <2>2, <2>3 DEF LinesAt
    <2>4. CASE outcome \in {"ok", "twice"}
      BY <1>11, <1>14, <2>4 DEF LinesAt
    <2>5. QED
      BY <2>2, <2>3, <2>4
  <1>21. InTurn'
    <2>1. SUFFICES ASSUME mishaps' \intersect {"unsure", "twice", "gaveUp", "stopped"} = {}
                   PROVE  ToldOnceInOrder'
      BY <1>19 DEF InTurn
    <2>2. /\ mishaps \intersect {"unsure", "twice", "gaveUp", "stopped"} = {}
          /\ outcome \in {"ok", "lost"} /\ ToldOnceInOrder
          /\ mishaps \intersect {"unsure", "gaveUp", "stopped"} = {}
          /\ \A b \in Shown, k \in 1..Len(apiCall.chunk) : b < apiCall.chunk[k]
      BY <1>1, <1>4, <2>1 DEF InTurn
    <2>3. apiCall.lines = apiCall.chunk
      BY <1>1, <1>4, <2>2 DEF Linked
    <2>4. CASE outcome = "lost"
      BY <1>10, <2>2, <2>4 DEF ToldOnceInOrder, LinesAt
    <2>5. CASE outcome = "ok"
      <3>1. threadShows' = s
        BY <1>10, <2>5
      <3>2. SUFFICES ASSUME NEW i \in 1..Len(s), NEW j \in 1..Len(s),
                            NEW k \in 1..Len(s[i].lines), NEW l \in 1..Len(s[j].lines),
                            i < j \/ (i = j /\ k < l)
                     PROVE  s[i].lines[k] < s[j].lines[l]
        BY <3>1 DEF ToldOnceInOrder, LinesAt
      <3>3. \A a, c \in 1..n : \A x \in 1..Len(threadShows[a].lines),
                                y \in 1..Len(threadShows[c].lines) :
                a < c \/ (a = c /\ x < y) =>
                    threadShows[a].lines[x] < threadShows[c].lines[y]
        BY <2>2 DEF ToldOnceInOrder, LinesAt
      <3>4. s[n + 1].lines = apiCall.chunk
        BY <1>5, <2>3 DEF Message
      <3>5. CASE j # n + 1
        <4>1. i \in 1..n /\ j \in 1..n
          BY <1>2, <1>5, <3>2, <3>5
        <4>2. s[i].lines = threadShows[i].lines /\ s[j].lines = threadShows[j].lines
          BY <1>5, <4>1
        <4>3. QED
          BY <3>2, <3>3, <4>1, <4>2
      <3>6. CASE j = n + 1 /\ i = n + 1
        <4>1. Climbs(apiCall.chunk)
          BY <1>1 DEF Saying
        <4>2. k < l
          BY <1>2, <3>2, <3>6
        <4>3. QED
          BY <3>2, <3>4, <3>6, <4>1, <4>2 DEF Climbs
      <3>7. CASE j = n + 1 /\ i # n + 1
        <4>1. i \in 1..n
          BY <1>2, <1>5, <3>2, <3>7
        <4>2. s[i].lines = threadShows[i].lines /\ threadShows[i].lines \in Seq(Nat)
          BY <1>2, <1>5, <4>1, MessageFields
        <4>3. s[i].lines[k] \in ToSet(threadShows[i].lines)
          BY <3>2, <4>2 DEF ToSet
        <4>4. s[i].lines[k] \in Shown
          BY <1>2, <4>1, <4>3 DEF Tells
        <4>5. QED
          BY <2>2, <3>2, <3>4, <3>7, <4>4
      <3>8. QED
        BY <3>5, <3>6, <3>7
    <2>6. QED
      BY <2>2, <2>4, <2>5
  <1>22. ReplyIsLast'
    <2>1. SUFFICES ASSUME mishaps' \intersect {"gaveUp", "stopped"} = {}
                   PROVE  \A i \in 1..Len(threadShows') : threadShows'[i].kind = "progress"
      BY <1>4, <1>18 DEF ReplyIsLast, NothingUnderTheReply
    <2>2. \A i \in 1..n : threadShows[i].kind = "progress"
      BY <1>1, <1>4, <1>18, <2>1 DEF ReplyIsLast
    <2>3. QED
      BY <1>11, <2>2
  <1>23. NothingGoesMissing'
    <2>1. SUFFICES ASSUME mishaps' \intersect {"lost", "unsure", "gaveUp", "overflow",
                                               "stopped"} = {},
                          ~silenced
                   PROVE  \A b \in Shown \union ToSet(apiCall.chunk) :
                              b \in Shown' \union ToSet(apiCall'.chunk)
      <3>1. mishaps \subseteq mishaps' /\ Proved' = Proved /\ WarmedUp' = WarmedUp
        BY <1>4 DEF Proved, WarmedUp
      <3>2. QED
        BY <1>1, <1>4, <1>18, <2>1, <3>1 DEF NothingGoesMissing, Recent
    <2>2. outcome # "lost" /\ apiCall.lines = apiCall.chunk
      BY <1>1, <1>4, <2>1 DEF Linked
    <2>3. QED
      BY <1>13, <2>2
  <1>24. FilesFit'
    BY <1>1, <1>4 DEF FilesFit, Outbox
  <1>25. QED
    BY <1>15, <1>16, <1>17, <1>20, <1>21, <1>22, <1>23, <1>24 DEF ProgressInv

\* A call that was cut off lands.
LEMMA LateLandsKeeps == ASSUME ProgressInv, LateLands PROVE ProgressInv'
  <1>1. /\ PlacesFit /\ Saying /\ Ending /\ Linked /\ InTurn /\ ReplyIsLast /\ NothingGoesMissing
        /\ FilesFit
    BY DEF ProgressInv
  <1>2. /\ lateCall # NoApiCall /\ lateCall' = NoApiCall
        /\ threadShows' = Applied(threadShows, lateCall)
        /\ UNCHANGED <<said, unproved, progress, minutes, upshot, tailStep, apiCall, newest,
                       silenced, uploaded, archived, mishaps>>
    BY DEF LateLands
  <1>3. /\ threadShows \in Seq(Messages) /\ apiCall \in ApiCalls /\ lateCall \in ApiCalls
        /\ newest.at \in 0..Len(threadShows) /\ Len(threadShows) \in Nat
        /\ NoApiCall \in ApiCalls /\ ToSet(NoApiCall.lines) = {}
        /\ apiCall.op \in {"none", "edit", "post"}
        /\ lateCall.op = "edit" => lateCall.at \in 1..Len(threadShows)
        /\ \A b : b \in Shown <=> Tells(threadShows, b)
    BY <1>1, PlacesAre DEF PlacesFit
  <1>4. /\ threadShows' \in Seq(Messages) /\ Len(threadShows') >= Len(threadShows)
        /\ Len(threadShows') \in Nat
        /\ \A b : Tells(threadShows', b) => Tells(threadShows, b) \/ b \in ToSet(lateCall.lines)
    BY <1>2, <1>3, AppliedIs, AppliedTells
  <1>5. mishaps \intersect {"gaveUp", "stopped"} # {}
    BY <1>1, <1>2 DEF Ending
  <1>6. PlacesFit'
    BY <1>1, <1>2, <1>3, <1>4 DEF PlacesFit, NoApiCall
  <1>7. Saying'
    <2>1. \A b : b \in Shown' <=> Tells(threadShows', b)
      BY ShownIs DEF Shown, LinesAt
    <2>2. \A b \in Shown' : b \in Out
      BY <1>3, <1>4, <2>1 DEF Out
    <2>3. Proved \in Nat /\ Proved' = Proved
      BY <1>1, <1>2, ProvedIs DEF Proved
    <2>4. Out' \subseteq Out
      BY <1>2, <1>3, <2>2 DEF Out
    <2>5. Recorded(progress', Proved', Out')
      BY <1>1, <1>2, <2>3, <2>4, RecordedLess DEF Saying
    <2>6. QED
      BY <1>1, <1>2, <2>3, <2>4, <2>5 DEF Saying
  <1>8. Ending'
    BY <1>1, <1>2 DEF Ending
  <1>9. Linked' /\ InTurn' /\ ReplyIsLast' /\ NothingGoesMissing'
    BY <1>2, <1>5 DEF Linked, InTurn, ReplyIsLast, NothingGoesMissing
  <1>10. FilesFit'
    BY <1>1, <1>2 DEF FilesFit, Outbox
  <1>11. QED
    BY <1>6, <1>7, <1>8, <1>9, <1>10 DEF ProgressInv

\* The recorder is cut off, and what it was sending may still arrive.
LEMMA CutKeeps ==
    ASSUME PlacesFit, Saying, CutInterim, upshot' # "running", mishaps \subseteq mishaps',
           UNCHANGED <<said, unproved, minutes, newest, threadShows, silenced>>
    PROVE  /\ PlacesFit' /\ Saying' /\ progress'.shut /\ ~progress'.draining
           /\ Shown' = Shown /\ Proved' = Proved
  <1>1. /\ progress' = [progress EXCEPT !.draining = FALSE, !.shut = TRUE, !.queue = <<>>]
        /\ apiCall' = NoApiCall
        /\ lateCall' = IF apiCall = NoApiCall THEN lateCall ELSE apiCall
    BY DEF CutInterim
  <1>2. Shown' = Shown /\ Proved' = Proved /\ Proved \in Nat
    BY ProvedIs DEF Shown, LinesAt, Proved
  <1>3. NoApiCall \in ApiCalls /\ ToSet(NoApiCall.lines) = {} /\ ToSet(NoApiCall.chunk) = {}
    BY PlacesAre
  <1>4. PlacesFit'
    BY <1>1, <1>3 DEF PlacesFit, NoApiCall
  <1>5. Out' \subseteq Out
    BY <1>1, <1>2, <1>3 DEF Out
  <1>6. Recorded(progress, Proved, Out) /\ progress \in Recorders
    BY DEF Saying, Recorded
  <1>7. /\ progress' \in Recorders /\ progress'.held = progress.held
        /\ progress'.fresh = progress.fresh /\ progress'.queue = <<>>
        /\ progress'.shut /\ ~progress'.draining
    <2>1. <<>> \in Seq(Seq(Nat))
      OBVIOUS
    <2>2. progress' = [held |-> progress.held, fresh |-> progress.fresh, queue |-> <<>>,
                       last |-> progress.last, shut |-> TRUE, draining |-> FALSE]
      BY <1>1, <1>6 DEF Recorders
    <2>3. QED
      BY <1>6, <2>1, <2>2, RecorderFields DEF Recorders
  <1>8. Recorded(progress', Proved, Out)
    <2>1. Len(progress'.queue) = 0 /\ QueueMax \in Nat
      BY <1>7, ProgressAssumption
    <2>2. QED
      BY <1>6, <1>7, <2>1 DEF Recorded, Keeps, Follows
  <1>9. Saying'
    <2>1. Recorded(progress', Proved', Out')
      BY <1>2, <1>5, <1>8, RecordedLess
    <2>2. Climbs(apiCall'.chunk)
      BY <1>1 DEF NoApiCall, Climbs
    <2>3. QED
      BY <1>2, <1>5, <2>1, <2>2 DEF Saying
  <1>10. QED
    BY <1>2, <1>4, <1>7, <1>9

\* The drain has sent everything.
LEMMA JoinedKeeps == ASSUME ProgressInv, Joined PROVE ProgressInv'
  <1>1. /\ PlacesFit /\ Saying /\ Ending /\ Linked /\ InTurn /\ ReplyIsLast /\ NothingGoesMissing
        /\ FilesFit
    BY DEF ProgressInv
  <1>2. /\ tailStep = "closing" /\ progress.queue = <<>> /\ apiCall = NoApiCall /\ CutInterim
        /\ apiCall' = NoApiCall /\ lateCall' = lateCall
        /\ tailStep' = "replying"
        /\ UNCHANGED <<said, unproved, minutes, upshot, newest, threadShows, silenced,
                       uploaded, archived, mishaps>>
    BY DEF Joined, CutInterim, Settled
  <1>3. upshot' # "running"
    BY <1>1, <1>2 DEF Ending
  <1>4. /\ PlacesFit' /\ Saying' /\ progress'.shut /\ ~progress'.draining
        /\ Shown' = Shown /\ Proved' = Proved
    BY <1>1, <1>2, <1>3, CutKeeps
  <1>5. Ending'
    BY <1>1, <1>2, <1>3, <1>4 DEF Ending
  <1>6. Linked' /\ InTurn'
    <2>1. ToldOnceInOrder => ToldOnceInOrder'
      BY <1>2 DEF ToldOnceInOrder, LinesAt
    <2>2. QED
      BY <1>1, <1>2, <1>4, <2>1 DEF Linked, InTurn, LinesAt, NoApiCall
  <1>7. ReplyIsLast'
    BY <1>1, <1>2 DEF ReplyIsLast, NothingUnderTheReply
  <1>8. NothingGoesMissing'
    <2>1. Queued(progress) = {} /\ ToSet(apiCall.chunk) = {} /\ WarmedUp' = WarmedUp
      BY <1>1, <1>2, PlacesAre DEF Queued, WarmedUp
    <2>2. QED
      BY <1>1, <1>2, <1>4, <2>1 DEF NothingGoesMissing
  <1>9. FilesFit'
    BY <1>1, <1>2 DEF FilesFit, Outbox
  <1>10. QED
    BY <1>4, <1>5, <1>6, <1>7, <1>8, <1>9 DEF ProgressInv

\* The drain is given up, or the turn is stopped.
LEMMA CutOffKeeps == ASSUME ProgressInv, GivesUp \/ TurnStopped PROVE ProgressInv'
  <1>1. /\ PlacesFit /\ Saying /\ Ending /\ FilesFit
    BY DEF ProgressInv
  <1>2. /\ CutInterim /\ apiCall' = NoApiCall
        /\ \/ /\ tailStep = "closing" /\ tailStep' = "replying" /\ upshot' = upshot
              /\ mishaps' = mishaps \union {"gaveUp"}
           \/ /\ tailStep' = "ending" /\ upshot' = "stopped"
              /\ mishaps' = mishaps \union {"stopped"}
        /\ UNCHANGED <<said, unproved, minutes, newest, threadShows, silenced, uploaded, archived>>
    BY DEF GivesUp, TurnStopped, CutInterim
  <1>3. upshot' # "running" /\ mishaps \subseteq mishaps'
        /\ mishaps' \intersect {"gaveUp", "stopped"} # {}
    BY <1>1, <1>2 DEF Ending
  <1>4. /\ PlacesFit' /\ Saying' /\ progress'.shut /\ ~progress'.draining
    BY <1>1, <1>2, <1>3, CutKeeps
  <1>5. Ending'
    BY <1>1, <1>2, <1>3, <1>4 DEF Ending
  <1>6. Linked' /\ InTurn' /\ ReplyIsLast' /\ NothingGoesMissing'
    BY <1>3 DEF Linked, InTurn, ReplyIsLast, NothingGoesMissing
  <1>7. FilesFit'
    BY <1>1, <1>2 DEF FilesFit, Outbox
  <1>8. QED
    BY <1>4, <1>5, <1>6, <1>7 DEF ProgressInv

\* A reply, a notice, or both, are messages without blocks.
LEMMA RepliedIs ==
    ASSUME PlacesFit, NEW outcome \in {"ok", "lost", "unsure", "twice"}, Reply(outcome)
    PROVE  LET n == Len(threadShows) IN
           /\ threadShows' \in Seq(Messages) /\ Len(threadShows') \in Nat /\ Len(threadShows') >= n
           /\ \A i \in 1..n : threadShows'[i] = threadShows[i]
           /\ \A i \in 1..Len(threadShows') :
                  \/ i \in 1..n
                  \/ i > n /\ threadShows'[i].kind # "progress" /\ threadShows'[i].lines = <<>>
  <1>1. threadShows \in Seq(Messages) /\ Len(threadShows) \in Nat
    BY PlacesAre
  <1>2. PICK reply, notice : reply = Message("reply", <<>>) /\ notice = Message("notice", <<>>)
    OBVIOUS
  <1>3. /\ reply \in Messages /\ notice \in Messages
        /\ reply.kind # "progress" /\ notice.kind # "progress"
        /\ reply.lines = <<>> /\ notice.lines = <<>>
    BY <1>2 DEF Message, Messages
  <1>4. PICK x : /\ x \in {<<reply>>, <<reply, reply>>, <<reply, notice>>, <<notice>>}
                 /\ threadShows' = threadShows \o x
    BY <1>2 DEF Reply
  <1>5. /\ x \in Seq(Messages)
        /\ \A i \in 1..Len(x) : x[i].kind # "progress" /\ x[i].lines = <<>>
    BY <1>3, <1>4
  <1>6. /\ threadShows' \in Seq(Messages) /\ Len(threadShows') = Len(threadShows) + Len(x)
        /\ Len(x) \in Nat
        /\ \A i \in 1..Len(threadShows) + Len(x) :
               threadShows'[i] = IF i <= Len(threadShows) THEN threadShows[i]
                                 ELSE x[i - Len(threadShows)]
    BY <1>1, <1>4, <1>5, ConcatProperties
  <1>7. \A i \in 1..Len(threadShows) : threadShows'[i] = threadShows[i]
    BY <1>1, <1>6
  <1>8. ASSUME NEW i \in 1..Len(threadShows'), i \notin 1..Len(threadShows)
        PROVE  /\ i > Len(threadShows) /\ threadShows'[i].kind # "progress"
               /\ threadShows'[i].lines = <<>>
    <2>1. /\ i \in 1..Len(threadShows) + Len(x) /\ i > Len(threadShows)
          /\ ~(i <= Len(threadShows)) /\ i - Len(threadShows) \in 1..Len(x)
      BY <1>1, <1>6, <1>8
    <2>2. threadShows'[i] = x[i - Len(threadShows)]
      BY <1>6, <2>1
    <2>3. QED
      BY <1>5, <2>1, <2>2
  <1>9. QED
    <2>1. Len(threadShows') \in Nat /\ Len(threadShows') >= Len(threadShows)
      BY <1>1, <1>6
    <2>2. ASSUME NEW i \in 1..Len(threadShows')
          PROVE  \/ i \in 1..Len(threadShows)
                 \/ /\ i > Len(threadShows) /\ threadShows'[i].kind # "progress"
                    /\ threadShows'[i].lines = <<>>
      <3>1. CASE i \in 1..Len(threadShows)
        BY <3>1, Zenon
      <3>2. CASE i \notin 1..Len(threadShows)
        BY <1>8, <3>2
      <3>3. QED
        BY <3>1, <3>2
    <2>3. threadShows' \in Seq(Messages)
      BY <1>6
    <2>4. QED
      BY <1>7, <2>1, <2>2, <2>3, Zenon

\* The reply comes after what was narrated.
LEMMA ReplyKeeps ==
    ASSUME ProgressInv, NEW outcome \in {"ok", "lost", "unsure", "twice"}, Reply(outcome)
    PROVE  ProgressInv'
  <1>1. /\ PlacesFit /\ Saying /\ Ending /\ Linked /\ InTurn /\ ReplyIsLast /\ NothingGoesMissing
        /\ FilesFit
    BY DEF ProgressInv
  <1>2. /\ tailStep = "replying" /\ tailStep' \in {"uploading", "ending"}
        /\ mishaps \subseteq mishaps' /\ mishaps' \subseteq mishaps \union {"replyTwice"}
        /\ UNCHANGED <<said, unproved, progress, minutes, upshot, apiCall, lateCall, newest,
                       silenced, uploaded, archived>>
    BY DEF Reply
  <1> DEFINE n == Len(threadShows)
  <1>3. /\ threadShows \in Seq(Messages) /\ n \in Nat /\ newest.at \in 0..n
        /\ \A b : b \in Shown <=> Tells(threadShows, b)
    BY <1>1, PlacesAre
  <1>4. /\ threadShows' \in Seq(Messages) /\ Len(threadShows') \in Nat /\ Len(threadShows') >= n
        /\ \A i \in 1..n : threadShows'[i] = threadShows[i]
        /\ \A i \in 1..Len(threadShows') :
              \/ i \in 1..n
              \/ i > n /\ threadShows'[i].kind # "progress" /\ threadShows'[i].lines = <<>>
    BY <1>1, RepliedIs
  <1>5. apiCall = NoApiCall
    BY <1>1, <1>2 DEF Ending
  <1>6. Shown' = Shown
    <2>1. \A b : b \in Shown' <=> Tells(threadShows', b)
      BY ShownIs DEF Shown, LinesAt
    <2>2. ASSUME NEW b, Tells(threadShows', b) PROVE Tells(threadShows, b)
      <3>1. PICK i \in 1..Len(threadShows') : b \in ToSet(threadShows'[i].lines)
        BY <2>2 DEF Tells
      <3>2. threadShows'[i].lines # <<>>
        BY <3>1 DEF ToSet
      <3>3. i \in 1..n
        BY <1>4, <3>2
      <3>4. QED
        BY <1>4, <3>1, <3>3 DEF Tells
    <2>3. ASSUME NEW b, Tells(threadShows, b) PROVE Tells(threadShows', b)
      <3>1. PICK i \in 1..n : b \in ToSet(threadShows[i].lines)
        BY <2>3 DEF Tells
      <3>2. i \in 1..Len(threadShows')
        BY <1>3, <1>4
      <3>3. QED
        BY <1>4, <3>1, <3>2 DEF Tells
    <2>4. QED
      BY <1>3, <2>1, <2>2, <2>3
  <1>7. Proved' = Proved /\ Out' = Out
    BY <1>2, <1>6 DEF Proved, Out
  <1>8. PlacesFit'
    BY <1>1, <1>2, <1>3, <1>4, <1>5 DEF PlacesFit, NoApiCall
  <1>9. Saying'
    BY <1>1, <1>2, <1>7 DEF Saying
  <1>10. Ending'
    BY <1>1, <1>2 DEF Ending
  <1>11. Linked'
    <2>1. newest # NoMessage => newest.at \in 1..n
      BY <1>1, <1>3 DEF PlacesFit
    <2>2. newest # NoMessage => LinesAt(newest.at)' = LinesAt(newest.at)
      BY <1>2, <1>4, <2>1 DEF LinesAt
    <2>3. QED
      BY <1>1, <1>2, <1>5, <2>2 DEF Linked, NoApiCall
  <1>12. InTurn'
    <2>1. SUFFICES ASSUME mishaps' \intersect {"unsure", "twice", "gaveUp", "stopped"} = {}
                   PROVE  ToldOnceInOrder'
      BY <1>2, <1>5 DEF InTurn, NoApiCall
    <2>2. \A a, c \in 1..n : \A u \in 1..Len(threadShows[a].lines),
                              v \in 1..Len(threadShows[c].lines) :
              a < c \/ (a = c /\ u < v) =>
                  threadShows[a].lines[u] < threadShows[c].lines[v]
      BY <1>1, <1>2, <2>1 DEF InTurn, ToldOnceInOrder, LinesAt
    <2>3. SUFFICES ASSUME NEW i \in 1..Len(threadShows'), NEW j \in 1..Len(threadShows'),
                          NEW k \in 1..Len(threadShows'[i].lines),
                          NEW l \in 1..Len(threadShows'[j].lines),
                          i < j \/ (i = j /\ k < l)
                   PROVE  threadShows'[i].lines[k] < threadShows'[j].lines[l]
      BY DEF ToldOnceInOrder, LinesAt
    <2>4. i \in 1..n /\ j \in 1..n
      <3>1. threadShows'[i].lines # <<>> /\ threadShows'[j].lines # <<>>
        BY <2>3
      <3>2. QED
        BY <1>4, <3>1
    <2>5. threadShows'[i] = threadShows[i] /\ threadShows'[j] = threadShows[j]
      BY <1>4, <2>4
    <2>6. QED
      BY <2>2, <2>3, <2>4, <2>5
  <1>13. ReplyIsLast'
    <2>1. SUFFICES ASSUME mishaps' \intersect {"gaveUp", "stopped"} = {},
                          NEW i \in 1..Len(threadShows'), NEW j \in 1..Len(threadShows'),
                          i < j, threadShows'[i].kind # "progress"
                   PROVE  threadShows'[j].kind # "progress"
      BY <1>2 DEF ReplyIsLast, NothingUnderTheReply
    <2>2. \A a \in 1..n : threadShows[a].kind = "progress"
      BY <1>1, <1>2, <2>1 DEF ReplyIsLast
    <2>3. i \notin 1..n
      BY <1>4, <2>1, <2>2
    <2>4. j \notin 1..n
      BY <1>3, <1>4, <2>1, <2>3
    <2>5. QED
      BY <1>4, <2>4
  <1>14. NothingGoesMissing'
    BY <1>2 DEF NothingGoesMissing
  <1>15. FilesFit'
    BY <1>1, <1>2 DEF FilesFit, Outbox
  <1>16. QED
    BY <1>8, <1>9, <1>10, <1>11, <1>12, <1>13, <1>14, <1>15 DEF ProgressInv

\* The files, and a reply that is withheld.
LEMMA FilesKeep ==
    ASSUME ProgressInv,
           ReplySilenced \/ (\E file \in OutFiles : Uploads(file)) \/ Archives
    PROVE  ProgressInv'
  <1>1. /\ PlacesFit /\ Saying /\ Ending /\ Linked /\ InTurn /\ ReplyIsLast /\ NothingGoesMissing
        /\ FilesFit
    BY DEF ProgressInv
  <1>2. /\ UNCHANGED <<said, unproved, progress, minutes, upshot, apiCall, lateCall, newest,
                       threadShows, silenced, mishaps>>
        /\ tailStep \in {"replying", "uploading"} /\ tailStep' \in {"uploading", "ending"}
    BY DEF ReplySilenced, Uploads, Archives
  <1>3. FilesFit'
    <2>1. Outbox' = Outbox /\ Outbox \subseteq OutFiles
      BY <1>2 DEF Outbox
    <2>2. CASE ReplySilenced
      BY <1>1, <1>2, <2>1, <2>2 DEF FilesFit, ReplySilenced
    <2>3. ASSUME NEW file \in OutFiles, Uploads(file) PROVE FilesFit'
      BY <1>1, <1>2, <2>1, <2>3 DEF FilesFit, Uploads
    <2>4. CASE Archives
      BY <1>1, <1>2, <2>1, <2>4 DEF FilesFit, Archives
    <2>5. QED
      BY <2>2, <2>3, <2>4
  <1>4. Shown' = Shown /\ Proved' = Proved
    BY <1>2 DEF Shown, LinesAt, Proved
  <1>5. Out' = Out
    BY <1>2, <1>4 DEF Out
  <1>6. PlacesFit' /\ Saying' /\ Ending'
    BY <1>1, <1>2, <1>4, <1>5 DEF PlacesFit, Saying, Ending
  <1>7. ToldOnceInOrder => ToldOnceInOrder'
    BY <1>2 DEF ToldOnceInOrder, LinesAt
  <1>8. Linked' /\ InTurn'
    BY <1>1, <1>2, <1>4, <1>7 DEF Linked, InTurn, LinesAt
  <1>9. ReplyIsLast' /\ NothingGoesMissing'
    BY <1>1, <1>2 DEF ReplyIsLast, NothingUnderTheReply, NothingGoesMissing
  <1>10. QED
    BY <1>3, <1>6, <1>8, <1>9 DEF ProgressInv

\* The newest message drops its spinner and keeps its lines.
LEMMA EndsProgressKeeps ==
    ASSUME ProgressInv, NEW outcome \in {"ok", "lost"}, EndsProgress(outcome)
    PROVE  ProgressInv'
  <1>1. /\ PlacesFit /\ Saying /\ Ending /\ Linked /\ InTurn /\ ReplyIsLast /\ NothingGoesMissing
        /\ FilesFit
    BY DEF ProgressInv
  <1>2. /\ tailStep = "ending" /\ tailStep' = "over" /\ newest' = NoMessage
        /\ threadShows' = IF outcome = "ok" /\ newest # NoMessage
                          THEN [threadShows EXCEPT ![newest.at].lines = newest.lines]
                          ELSE threadShows
        /\ UNCHANGED <<said, unproved, progress, minutes, upshot, apiCall, lateCall, silenced,
                       uploaded, archived, mishaps>>
    BY DEF EndsProgress
  <1> DEFINE n == Len(threadShows)
  <1>3. /\ threadShows \in Seq(Messages) /\ n \in Nat /\ newest.at \in 0..n
        /\ newest.lines \in Seq(Nat) /\ apiCall = NoApiCall
        /\ NoMessage \in [at : Nat, lines : Seq(Nat)] /\ ToSet(NoMessage.lines) = {}
        /\ \A b : b \in Shown <=> Tells(threadShows, b)
        /\ newest # NoMessage => newest.at \in 1..n
    <2>1. newest # NoMessage => newest.at # 0
      BY <1>1 DEF PlacesFit
    <2>2. apiCall = NoApiCall
      BY <1>1, <1>2 DEF Ending
    <2>3. QED
      BY <1>1, <2>1, <2>2, PlacesAre
  <1>4. /\ threadShows' \in Seq(Messages) /\ Len(threadShows') = n
        /\ \A i \in 1..n :
               /\ threadShows'[i].kind = threadShows[i].kind
               /\ \/ threadShows'[i].lines = threadShows[i].lines
                  \/ newest # NoMessage /\ i = newest.at /\ threadShows'[i].lines = newest.lines
    <2>1. CASE outcome = "ok" /\ newest # NoMessage
      <3>1. threadShows' = [threadShows EXCEPT ![newest.at].lines = newest.lines]
        BY <1>2, <2>1
      <3>2. threadShows[newest.at] \in Messages
        BY <1>3, <2>1
      <3>3. /\ [threadShows[newest.at] EXCEPT !.lines = newest.lines] \in Messages
            /\ [threadShows[newest.at] EXCEPT !.lines = newest.lines].kind
                   = threadShows[newest.at].kind
            /\ [threadShows[newest.at] EXCEPT !.lines = newest.lines].lines = newest.lines
        BY <1>3, <3>2 DEF Messages
      <3>4. QED
        BY <1>3, <2>1, <3>1, <3>3
    <2>2. CASE ~(outcome = "ok" /\ newest # NoMessage)
      BY <1>2, <1>3, <2>2
    <2>3. QED
      BY <2>1, <2>2
  <1>5. PlacesFit'
    BY <1>1, <1>2, <1>3, <1>4 DEF PlacesFit, NoMessage, NoApiCall
  <1>6. \A b \in Shown' : b \in Out
    <2>1. \A b : b \in Shown' <=> Tells(threadShows', b)
      BY ShownIs DEF Shown, LinesAt
    <2>2. SUFFICES ASSUME NEW b, Tells(threadShows', b)
                   PROVE  Tells(threadShows, b) \/ b \in ToSet(newest.lines)
      BY <1>3, <2>1 DEF Out
    <2>3. PICK i \in 1..n : b \in ToSet(threadShows'[i].lines)
      BY <1>4, <2>2 DEF Tells
    <2>4. QED
      BY <1>4, <2>3 DEF Tells
  <1>7. Saying'
    <2>1. Proved' = Proved /\ Proved \in Nat
      BY <1>1, <1>2, ProvedIs DEF Proved
    <2>2. Out' \subseteq Out
      BY <1>2, <1>3, <1>6 DEF Out
    <2>3. Recorded(progress', Proved', Out')
      BY <1>1, <1>2, <2>1, <2>2, RecordedLess DEF Saying
    <2>4. QED
      BY <1>1, <1>2, <2>1, <2>2, <2>3 DEF Saying
  <1>8. Ending'
    BY <1>1, <1>2 DEF Ending
  <1>9. Linked'
    BY <1>2, <1>3 DEF Linked, NoApiCall
  <1>10. InTurn'
    <2>1. SUFFICES ASSUME mishaps \intersect {"unsure", "twice", "gaveUp", "stopped"} = {}
                   PROVE  ToldOnceInOrder'
      BY <1>2, <1>3 DEF InTurn, NoApiCall
    <2>2. newest # NoMessage => newest.lines = threadShows[newest.at].lines
      BY <1>1, <2>1 DEF Linked, LinesAt
    <2>3. \A i \in 1..n : threadShows'[i].lines = threadShows[i].lines
      BY <1>4, <2>2
    <2>4. ToldOnceInOrder
      BY <1>1, <2>1 DEF InTurn
    <2>5. QED
      BY <1>2, <1>4, <2>1, <2>3, <2>4 DEF ToldOnceInOrder, LinesAt
  <1>11. ReplyIsLast'
    BY <1>1, <1>2, <1>4 DEF ReplyIsLast, NothingUnderTheReply
  <1>12. NothingGoesMissing'
    BY <1>2 DEF NothingGoesMissing
  <1>13. FilesFit'
    BY <1>1, <1>2 DEF FilesFit, Outbox
  <1>14. QED
    BY <1>5, <1>7, <1>8, <1>9, <1>10, <1>11, <1>12, <1>13 DEF ProgressInv

\* A turn begins with nothing said and nothing shown.
LEMMA ProgressStarts == ProgressInit => ProgressInv
  <1>1. SUFFICES ASSUME ProgressInit PROVE ProgressInv
    OBVIOUS
  <1>2. /\ said = 0 /\ unproved = <<>> /\ minutes = 0
        /\ progress = [held |-> <<>>, fresh |-> 0, queue |-> <<>>, last |-> NeverPosted,
                       shut |-> FALSE, draining |-> TRUE]
        /\ upshot = "running" /\ tailStep = "running"
        /\ apiCall = NoApiCall /\ lateCall = NoApiCall /\ newest = NoMessage
        /\ threadShows = <<>> /\ silenced \in BOOLEAN
        /\ uploaded = {} /\ archived = {} /\ mishaps = {}
    BY <1>1 DEF ProgressInit
  <1>3. /\ MaxSaid \in Nat /\ MaxMinutes \in Nat /\ DigestLines \in Nat /\ QueueMax \in Nat
        /\ NeverPosted \in Nat
    BY ProgressAssumption DEF NeverPosted
  <1>4. <<>> \in Seq(Nat) /\ <<>> \in Seq(Seq(Nat)) /\ <<>> \in Seq(Messages) /\ Len(<<>>) = 0
        /\ <<>> \in Seq(1..MaxSaid)
    OBVIOUS
  <1>5. NoApiCall \in ApiCalls /\ NoMessage \in [at : Nat, lines : Seq(Nat)]
    BY <1>4 DEF NoApiCall, NoMessage, ApiCalls
  <1>6. PlacesFit
    BY <1>2, <1>4, <1>5 DEF PlacesFit, NoApiCall, NoMessage
  <1>7. Shown = {} /\ Proved = 0
    <2>1. \A b : ~Tells(threadShows, b)
      BY <1>2, <1>4 DEF Tells
    <2>2. Shown = {}
      BY <2>1, ShownIs DEF Shown, LinesAt
    <2>3. Proved = 0
      <3>1. Len(unproved) = 0
        BY <1>2, <1>4
      <3>2. QED
        BY <1>2, <3>1, 0 - 0 = 0, Zenon DEF Proved
    <2>4. QED
      BY <2>2, <2>3
  <1>8. Out = {}
    BY <1>2, <1>7 DEF Out, NoApiCall, NoMessage, ToSet
  <1>9. Recorded(progress, Proved, Out)
    <2>1. progress \in Recorders
      BY <1>2, <1>3, <1>4 DEF Recorders
    <2>2. Keeps(progress, 0)
      BY <1>2, <1>3, <1>4 DEF Keeps, Low, Climbs
    <2>3. Follows(progress, {})
      BY DEF Follows
    <2>4. QED
      BY <1>7, <1>8, <2>1, <2>2, <2>3 DEF Recorded
  <1>10. Saying
    <2>1. Climbs(apiCall.chunk)
      BY <1>2 DEF NoApiCall, Climbs
    <2>2. Spent(progress)
      BY <1>2 DEF Spent
    <2>3. QED
      BY <1>2, <1>3, <1>4, <1>8, <1>9, <2>1, <2>2 DEF Saying
  <1>11. Ending
    BY <1>2 DEF Ending
  <1>12. Linked /\ ReplyIsLast
    BY <1>2, <1>4 DEF Linked, ReplyIsLast, NothingUnderTheReply, NoApiCall, NoMessage
  <1>13. InTurn
    BY <1>2, <1>4, <1>7 DEF InTurn, ToldOnceInOrder
  <1>14. NothingGoesMissing
    BY <1>2, <1>7 DEF NothingGoesMissing, Recent
  <1>15. FilesFit
    BY <1>2 DEF FilesFit, Outbox
  <1>16. QED
    BY <1>6, <1>10, <1>11, <1>12, <1>13, <1>14, <1>15 DEF ProgressInv

\* Every step keeps the invariant.
LEMMA ProgressGoesOn == ProgressInv /\ [ProgressNext]_progressVars => ProgressInv'
  <1>1. SUFFICES ASSUME ProgressInv, [ProgressNext]_progressVars PROVE ProgressInv'
    OBVIOUS
  <1>2. CASE UNCHANGED progressVars
    <2>1. /\ PlacesFit /\ Saying /\ Ending /\ Linked /\ InTurn /\ ReplyIsLast /\ NothingGoesMissing
          /\ FilesFit
      BY <1>1 DEF ProgressInv
    <2>2. UNCHANGED <<said, unproved, progress, minutes, upshot, tailStep, apiCall,
                  lateCall, newest, threadShows, silenced, uploaded, archived, mishaps>>
      BY <1>2 DEF progressVars
    <2>3. UNCHANGED inThread
      BY <2>2 DEF inThread
    <2>4. /\ PlacesFit' /\ Linked' /\ InTurn' /\ ReplyIsLast' /\ FilesFit'
          /\ Out' = Out /\ Shown' = Shown
      BY <1>1, <2>2, <2>3, ThreadStays
    <2>5. Proved' = Proved /\ WarmedUp' = WarmedUp
      BY <2>2 DEF Proved, WarmedUp
    <2>6. Saying' /\ Ending' /\ NothingGoesMissing'
      BY <2>1, <2>2, <2>4, <2>5 DEF Saying, Ending, NothingGoesMissing
    <2>7. QED
      BY <2>4, <2>6 DEF ProgressInv
  <1>3. CASE Says
    BY <1>1, <1>3, SaysKeeps
  <1>4. CASE CallsTool
    BY <1>1, <1>4, CallsToolKeeps
  <1>5. CASE MinutePasses
    BY <1>1, <1>5, MinutePassesKeeps
  <1>6. ASSUME NEW how \in {"answered", "failed"}, Ends(how) PROVE ProgressInv'
    BY <1>1, <1>6, EndsKeeps
  <1>7. CASE DrainTicks
    BY <1>1, <1>7, DrainTicksKeeps
  <1>8. CASE DrainTakes
    BY <1>1, <1>8, DrainTakesKeeps
  <1>9. ASSUME NEW outcome \in {"ok", "refused", "unsure"}, EditAnswers(outcome)
        PROVE  ProgressInv'
    BY <1>1, <1>9, EditAnswersKeeps
  <1>10. ASSUME NEW outcome \in {"ok", "lost", "unsure", "twice"}, PostAnswers(outcome)
         PROVE  ProgressInv'
    BY <1>1, <1>10, PostAnswersKeeps
  <1>11. CASE LateLands
    BY <1>1, <1>11, LateLandsKeeps
  <1>12. CASE Joined
    BY <1>1, <1>12, JoinedKeeps
  <1>13. CASE GivesUp \/ TurnStopped
    BY <1>1, <1>13, CutOffKeeps
  <1>14. ASSUME NEW outcome \in {"ok", "lost", "unsure", "twice"}, Reply(outcome)
         PROVE  ProgressInv'
    BY <1>1, <1>14, ReplyKeeps
  <1>15. CASE ReplySilenced \/ (\E file \in OutFiles : Uploads(file)) \/ Archives
    BY <1>1, <1>15, FilesKeep
  <1>16. ASSUME NEW outcome \in {"ok", "lost"}, EndsProgress(outcome) PROVE ProgressInv'
    BY <1>1, <1>16, EndsProgressKeeps
  <1>17. QED
    BY <1>1, <1>2, <1>3, <1>4, <1>5, <1>6, <1>7, <1>8, <1>9, <1>10, <1>11, <1>12, <1>13, <1>14,
       <1>15, <1>16 DEF ProgressNext

\* What the invariant says of the thread as a reader sees it.
LEMMA ProgressTells == ProgressInv => ProgressTypeOK /\ TurnIsToldWell
  <1>1. SUFFICES ASSUME ProgressInv PROVE ProgressTypeOK /\ TurnIsToldWell
    OBVIOUS
  <1>2. /\ PlacesFit /\ Saying /\ Ending /\ Linked /\ InTurn /\ ReplyIsLast /\ NothingGoesMissing
        /\ FilesFit
    BY <1>1 DEF ProgressInv
  <1>3. /\ Proved \in Nat /\ Proved <= MaxSaid /\ MaxSaid \in Nat
        /\ Recorded(progress, Proved, Out)
        /\ unproved \in Seq(1..MaxSaid) /\ Len(unproved) \in Nat
        /\ \A j \in 1..Len(unproved) : unproved[j] = Proved + j
        /\ \A b \in Out : b \in 1..Proved
    BY <1>2, ProvedIs DEF Saying
  <1>4. ProgressTypeOK
    <2>1. progress.held \in Seq(Nat) /\ progress.fresh \in Nat
          /\ Low(progress.held, Proved) /\ progress.fresh <= Proved
          /\ Len(progress.held) <= DigestLines /\ Len(progress.queue) <= QueueMax
      BY <1>3, RecorderFields DEF Recorded, Keeps
    <2>2. progress.held \in Seq(1..MaxSaid)
      <3>1. \A k \in 1..Len(progress.held) : progress.held[k] \in 1..MaxSaid
        BY <1>3, <2>1 DEF Low
      <3>2. /\ Len(progress.held) \in Nat
            /\ progress.held = [k \in 1..Len(progress.held) |-> progress.held[k]]
        BY <2>1, SeqDef
      <3>3. [k \in 1..Len(progress.held) |-> progress.held[k]]
                \in [1..Len(progress.held) -> 1..MaxSaid]
        BY <3>1, Zenon
      <3>4. progress.held \in [1..Len(progress.held) -> 1..MaxSaid]
        BY <3>2, <3>3, Zenon
      <3>5. QED
        BY <3>2, <3>4, SeqDef, Zenon
    <2>3. progress.fresh \in 0..MaxSaid
      BY <1>3, <2>1
    <2>4. \A i \in 1..Len(threadShows) : threadShows[i].kind \in {"progress", "reply", "notice"}
      BY <1>2, MessageFields, PlacesAre
    <2>5. QED
      BY <1>2, <1>3, <2>1, <2>2, <2>3, <2>4 DEF ProgressTypeOK, Saying, Ending, FilesFit, PlacesFit
  <1>5. AnswerIsNotNarrated
    <2>1. Shown \subseteq Out
      BY DEF Out
    <2>2. QED
      BY <1>3, <2>1 DEF AnswerIsNotNarrated
  <1>6. ToldOnceInOrder
    BY <1>2 DEF InTurn, ToldOnceInOrder
  <1>7. NothingUnderTheReply
    BY <1>2 DEF ReplyIsLast, NothingUnderTheReply
  <1>8. FailureTellsWhatWasHeld
    <2>1. SUFFICES ASSUME upshot = "failed", tailStep = "replying", WarmedUp, ~silenced,
                          mishaps \intersect {"lost", "unsure", "gaveUp", "overflow"} = {}
                   PROVE  Recent(Proved, Shown)
      BY <1>2 DEF FailureTellsWhatWasHeld, Recent, Proved
    <2>2. QED
      <3>1. "stopped" \notin mishaps
        BY <1>2, <2>1 DEF Ending
      <3>2. QED
        BY <1>2, <2>1, <3>1 DEF NothingGoesMissing
  <1>9. UploadedIsArchived
    BY <1>2 DEF FilesFit, UploadedIsArchived
  <1>10. QED
    BY <1>4, <1>5, <1>6, <1>7, <1>8, <1>9 DEF TurnIsToldWell

\* The thread shows the narration in order and once, under it the reply, and a failure
\* tells what was held back.
THEOREM TurnsAreTold == ProgressSpec => [](ProgressTypeOK /\ TurnIsToldWell)
  <1>1. QED
    BY ProgressStarts, ProgressGoesOn, ProgressTells, PTL DEF ProgressSpec
=============================================================================
