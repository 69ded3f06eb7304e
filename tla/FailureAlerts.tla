---------------------------- MODULE FailureAlerts ----------------------------
(***************************************************************************)
(* Alerts for the failures of one cron entry (jobs/alerts.py): a cooldown  *)
(* around a fan-out to the configured sinks.  The worker runs jobs at the  *)
(* same time, so an alert may be on its way while the next failure asks    *)
(* whether the entry has alerted.  What is remembered is memory of the     *)
(* worker's process.                                                       *)
(***************************************************************************)
EXTENDS Naturals, FiniteSets

CONSTANTS
    Failures,     \* failed jobs of the entry
    Sinks,        \* how many sinks MultiAlertSink fans out to
    AlertWindow,  \* ALERT_COOLDOWN_S
    AlertsUntil,  \* bound on the clock
    AlertLives    \* bound on the worker's lives

ASSUME AlertsAssumption ==
    Sinks \in Nat \ {0} /\ AlertWindow \in Nat /\ AlertsUntil \in Nat \ {0}
    /\ AlertLives \in Nat \ {0}

VARIABLES
    alertHour,    \* the clock
    lastAlerted,  \* _last_alerted_at of the entry, 0 for never
    alertThread,  \* thread[s]: the sink knows a first alert to reply under
    alertAt,      \* alertAt[f]: 0 not alerted, s the sink it is at, Sinks + 1 done
    readAt,       \* the clock each alert read
    repeats,      \* alerts sent as a repeat
    refused,      \* refused[f]: the sinks that raised
    alertLife,
    shown,        \* ghost: [failure, sink] of the full alerts that were accepted
    bornIn,       \* ghost: the life each alert began in
    crossed       \* ghost: alerts begun while another was on its way

alertVars == <<alertHour, lastAlerted, alertThread, alertAt, readAt, repeats, refused,
               alertLife, shown, bornIn, crossed>>

OnItsWay(f) == alertAt[f] \in 1..Sinks

AlertsInit ==
    /\ alertHour = 1 /\ lastAlerted = 0
    /\ alertThread = [s \in 1..Sinks |-> FALSE]
    /\ alertAt = [f \in Failures |-> 0] /\ readAt = [f \in Failures |-> 0]
    /\ repeats = {} /\ refused = [f \in Failures |-> {}] /\ alertLife = 1
    /\ shown = {} /\ bornIn = [f \in Failures |-> 0] /\ crossed = {}

\* Mutant: the age is compared from the wrong side of the window.
StillCoolingOff == lastAlerted # 0 /\ alertHour - lastAlerted > AlertWindow
CoolingOff == lastAlerted # 0 /\ alertHour - lastAlerted < AlertWindow

\* CooldownAlertSink.alert reads the clock and the last alert, then posts.
BeginAlert(f) ==
    /\ alertAt[f] = 0
    /\ alertAt' = [alertAt EXCEPT ![f] = 1]
    /\ readAt' = [readAt EXCEPT ![f] = alertHour]
    /\ repeats' = IF CoolingOff THEN repeats \cup {f} ELSE repeats
    /\ bornIn' = [bornIn EXCEPT ![f] = alertLife]
    /\ crossed' = IF \E g \in Failures : OnItsWay(g) THEN crossed \cup {f} ELSE crossed
    /\ UNCHANGED <<alertHour, lastAlerted, alertThread, refused, alertLife, shown>>

\* Mutant: the window is recorded whether or not anything was posted.
RecordsAnyway(f, all) == IF f \in repeats THEN lastAlerted ELSE readAt[f]
\* The last sink has answered: the window runs from the clock read first, and
\* only if a sink took the alert.
Records(f, all) == IF f \in repeats \/ all THEN lastAlerted ELSE readAt[f]

Proceed(f, failed) ==
    /\ alertAt' = [alertAt EXCEPT ![f] = @ + 1]
    /\ refused' = [refused EXCEPT ![f] = failed]
    /\ lastAlerted' = IF alertAt[f] < Sinks THEN lastAlerted
                      ELSE Records(f, Cardinality(failed) = Sinks)
    /\ UNCHANGED <<alertHour, readAt, repeats, alertLife, bornIn, crossed>>

\* A sink posts a reply under the alert it knows, or a full alert it then knows.
SinkPosts(f) ==
    LET s == alertAt[f]
        reply == f \in repeats /\ alertThread[s]
    IN  /\ OnItsWay(f)
        /\ Proceed(f, refused[f])
        /\ alertThread' = [alertThread EXCEPT ![s] = TRUE]
        /\ shown' = IF reply THEN shown ELSE shown \cup {[failure |-> f, sink |-> s]}

SinkRaises(f) ==
    /\ OnItsWay(f)
    /\ Proceed(f, refused[f] \cup {alertAt[f]})
    /\ UNCHANGED <<alertThread, shown>>

\* The worker stops; the next one remembers nothing.
AlertsLost ==
    /\ alertLife < AlertLives /\ alertLife' = alertLife + 1
    /\ lastAlerted' = 0 /\ alertThread' = [s \in 1..Sinks |-> FALSE]
    /\ alertAt' = [f \in Failures |-> IF OnItsWay(f) THEN Sinks + 1 ELSE alertAt[f]]
    /\ UNCHANGED <<alertHour, readAt, repeats, refused, shown, bornIn, crossed>>

AlertHourPasses ==
    /\ alertHour < AlertsUntil /\ alertHour' = alertHour + 1
    /\ UNCHANGED <<lastAlerted, alertThread, alertAt, readAt, repeats, refused, alertLife,
                   shown, bornIn, crossed>>

AlertsNext ==
    \/ \E f \in Failures : BeginAlert(f) \/ SinkPosts(f) \/ SinkRaises(f)
    \/ AlertsLost \/ AlertHourPasses

AlertsSpec == AlertsInit /\ [][AlertsNext]_alertVars

-----------------------------------------------------------------------------
AlertsTypeOK ==
    /\ alertHour \in 1..AlertsUntil /\ lastAlerted \in 0..AlertsUntil
    /\ alertThread \in [1..Sinks -> BOOLEAN] /\ alertLife \in 1..AlertLives
    /\ alertAt \in [Failures -> 0..(Sinks + 1)]
    /\ readAt \in [Failures -> 0..AlertsUntil] /\ bornIn \in [Failures -> 0..AlertLives]
    /\ repeats \subseteq Failures /\ crossed \subseteq Failures
    /\ refused \in [Failures -> SUBSET (1..Sinks)]
    /\ shown \subseteq [failure : Failures, sink : 1..Sinks]

\* "A repeat is still delivered, as a reply under the first alert" (alerts.py:180):
\* a sink that took an alert gets no second full alert of the entry inside the
\* window, unless the two were on their way together or the worker restarted.
\* (A sink that refused the first alert gets a later one in full, and the window
\* is not that one's.)
OneFullAlertAWindow ==
    \A a, b \in shown :
        /\ a.sink = b.sink /\ a.failure # b.failure /\ a.failure \notin repeats
        /\ bornIn[a.failure] = bornIn[b.failure]
        /\ readAt[a.failure] <= readAt[b.failure]
        /\ readAt[b.failure] < readAt[a.failure] + AlertWindow
        => {a.failure, b.failure} \cap crossed # {}

\* "a sink that is down retries on the next failure instead of being silenced by
\* its own outage" (alerts.py:184): a window is open only if an alert of it was
\* accepted by a sink.
WindowNeedsAnAlert ==
    lastAlerted # 0 =>
        \E a \in shown : readAt[a.failure] = lastAlerted /\ bornIn[a.failure] = alertLife

AlertsAsTold == OneFullAlertAWindow /\ WindowNeedsAnAlert
=============================================================================
