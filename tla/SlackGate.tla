------------------------------ MODULE SlackGate ------------------------------
(***************************************************************************)
(* The reply limit of one Slack thread (slack.py): a thread that has had   *)
(* its number of turns holds further messages back in a list, tells the    *)
(* sender once they stop typing, and runs the list when somebody presses   *)
(* Continue; a typed $continue resumes the thread and drops the list.      *)
(* Beside it the list of messages that did not tag the bot, with a button  *)
(* of its own.  Handlers await Slack between the check of the count, the   *)
(* list and the charge, so a press, another message or an eviction of the  *)
(* session may come in between.  Messages are numbers in typing order and  *)
(* come from one person.  SlackIngress says which of them get this far.    *)
(***************************************************************************)
EXTENDS Naturals, Sequences, SequencesExt

CONSTANTS
    Typed,        \* Typed[m]: "tagged", "untagged" or "continue"
    ReplyLimit,   \* reply_soft_limit()
    BacklogMax,   \* GATED_MSG_BACKLOG_MAX
    NoticeDelay,  \* reply_limit_notice_seconds(), in ticks
    MaxHold,      \* REPLY_LIMIT_NOTICE_MAX_HOLD, in ticks
    MaxOther,     \* bound: repeats, taps, raises and evictions
    MaxPresses    \* bound: button presses

\* The settings are read as a positive count and a non-negative time; the cap is 50.
ASSUME GateAssumption ==
    /\ ReplyLimit \in Nat \ {0} /\ BacklogMax \in Nat \ {0}
    /\ NoticeDelay \in Nat /\ MaxHold \in Nat

VARIABLES
    replies,   \* _reply_counts of the thread
    gated,     \* _gated_msgs of the thread, oldest first
    untagged,  \* _untagged_msgs of the person, oldest first
    tagger,    \* the person is in _mention_taggers of the live session
    seen,      \* messages that have arrived
    at,        \* how far the handler of each message is
    by,        \* who awaits it: "live" or a button
    done,      \* messages in the processed ledger
    drain,     \* what each button's press still has to replay
    due,       \* ticks until the gate notice posts, NoNotice if none waits
    ceiling,   \* ticks until it can no longer be deferred, NoNotice if unset
    others, presses,
    wait,      \* ghost: ticks the oldest message not yet told of has waited
    told,      \* ghost: gated messages a notice was posted for
    owed,      \* ghost: messages held back and not recovered, dropped or lost
    lost,      \* ghost: how messages held back were lost, by name
    turns,     \* ghost: turns handed over since the count was last cleared
    overlap    \* ghost: since then, one passed beside another or past the gate

gateVars == <<replies, gated, untagged, tagger, seen, at, by, done, drain, due,
              ceiling, others, presses, wait, told, owed, lost, turns, overlap>>
timer == <<due, ceiling, wait>>

Msgs == DOMAIN Typed
Buttons == {"continue", "replay"}
NoNotice == MaxHold + 1
InList(q, m) == m \in ToSet(q)

GateInit ==
    /\ replies = 0 /\ gated = <<>> /\ untagged = <<>> /\ tagger = FALSE
    /\ seen = {} /\ at = [m \in Msgs |-> "none"] /\ by = [m \in Msgs |-> "live"]
    /\ done = {} /\ drain = [b \in Buttons |-> <<>>]
    /\ due = NoNotice /\ ceiling = NoNotice
    /\ others = 0 /\ presses = 0 /\ wait = 0
    /\ told = {} /\ owed = {} /\ lost = {} /\ turns = 0 /\ overlap = FALSE

Other == others < MaxOther /\ others' = others + 1
Building == {m \in Msgs : at[m] = "building"}
\* The count is cleared: whoever is past the gate now will be counted from here.
ClearedGate == replies' = 0 /\ turns' = 0 /\ overlap' = (Building # {})

-----------------------------------------------------------------------------
(* The two lists and the notice.                                           *)

\* Mutant: no cap.
Uncapped(q) == q
Capped(q) == IF Len(q) > BacklogMax THEN Tail(q) ELSE q

\* Mutant: every gated message starts the ceiling again.
ScheduleForgetful ==
    /\ ceiling' = MaxHold
    /\ due' = IF NoticeDelay < MaxHold THEN NoticeDelay ELSE MaxHold
\* The wait starts again; the ceiling of the first gated message stays.
Schedule ==
    /\ ceiling' = IF ceiling = NoNotice THEN MaxHold ELSE ceiling
    /\ due' = IF NoticeDelay < ceiling' THEN NoticeDelay ELSE ceiling'
CancelNotice == due' = NoNotice /\ ceiling' = NoNotice /\ wait' = 0

Tick ==
    /\ due \in 1..MaxHold
    /\ due' = due - 1 /\ ceiling' = ceiling - 1 /\ wait' = wait + 1
    /\ UNCHANGED <<replies, gated, untagged, tagger, seen, at, by, done, drain, others,
                   presses, told, owed, lost, turns, overlap>>

NoticePosts ==
    /\ due = 0
    /\ CancelNotice
    /\ told' = told \cup ToSet(gated)
    /\ UNCHANGED <<replies, gated, untagged, tagger, seen, at, by, done, drain, others,
                   presses, owed, lost, turns, overlap>>

\* A handler that awaits the old mark's removal still holds the popped list: what
\* it appends goes nowhere.
Orphaned(f) == [m \in Msgs |-> IF f[m] = "unreacting" THEN "orphaned" ELSE f[m]]

-----------------------------------------------------------------------------
(* One message, from the gate on.                                          *)

\* What a handler does before its first await, for a live message or for one
\* that button b replays.  A tag clears the person's untagged list; the
\* $continue prefix clears the count, the gated list and the notice.
EnterResuming(m, b) ==
    LET swept == (ToSet(gated) \cup {u \in Msgs : at[u] = "unreacting"}) \ {m}
    IN  /\ ClearedGate /\ gated' = <<>> /\ CancelNotice
        /\ at' = [Orphaned(at) EXCEPT
                    ![m] = IF gated = <<>> THEN "building" ELSE "unlocking"]
        /\ owed' = owed \ (swept \cup ToSet(untagged))
        /\ lost' = IF b = "continue" /\ swept \cap owed # {} THEN lost \cup {"swept"}
                   ELSE lost
EnterGated(m) ==
    /\ replies >= ReplyLimit
    /\ at' = [at EXCEPT ![m] = IF InList(gated, m) \/ gated = <<>> THEN "locking"
                               ELSE "unreacting"]
    /\ gated' = IF gated = <<>> THEN <<m>> ELSE gated
    /\ owed' = (owed \ ToSet(untagged)) \cup {m}
    /\ UNCHANGED <<replies, lost, turns, overlap, timer>>
EnterPassed(m) ==
    /\ replies < ReplyLimit
    /\ at' = [at EXCEPT ![m] = "building"]
    /\ overlap' = (overlap \/ Building # {})
    /\ owed' = owed \ ToSet(untagged)
    /\ UNCHANGED <<replies, gated, lost, turns, timer>>
Resumes(m, b) == Typed[m] = "continue" \/ b = "continue"
Enter(m, b) ==
    /\ m \notin done /\ at[m] = "none"
    /\ by' = [by EXCEPT ![m] = b]
    /\ tagger' = TRUE
    /\ untagged' = <<>>
    /\ IF Resumes(m, b) THEN EnterResuming(m, b) ELSE EnterGated(m) \/ EnterPassed(m)

\* Messages of a kind are numbered in the order they first arrive.
First(m) == \A u \in 1..(m - 1) : Typed[u] = Typed[m] => u \in seen

\* Slack delivers a message, the second time as a repeat.
Arrive(m) ==
    /\ Typed[m] # "untagged"
    /\ Enter(m, "live")
    /\ \/ m \notin seen /\ First(m) /\ UNCHANGED others
       \/ m \in seen /\ Other
    /\ seen' = seen \cup {m}
    /\ UNCHANGED <<done, drain, presses, told>>

\* A message that does not tag the bot, from a person who has tagged it here, is
\* held for the button of its own notice.
Slip(m) ==
    /\ Typed[m] = "untagged" /\ m \notin seen /\ First(m)
    /\ tagger
    /\ seen' = seen \cup {m}
    /\ untagged' = Capped(Append(untagged, m))
    /\ owed' = (owed \cup {m}) \ (ToSet(untagged) \ ToSet(untagged'))
    /\ UNCHANGED <<replies, gated, tagger, at, by, done, drain, timer, others,
                   presses, told, lost, turns, overlap>>

Unlocked(m) ==
    /\ at[m] = "unlocking"
    /\ at' = [at EXCEPT ![m] = "building"]
    /\ overlap' = (overlap \/ Building # {} \/ replies > 0)
    /\ UNCHANGED <<replies, gated, untagged, tagger, seen, by, done, drain, timer,
                   others, presses, told, owed, lost, turns>>

\* _mark_gated after its first await: the message joins the list, or the list it
\* held a reference to.
Unreacted(m) ==
    /\ at[m] \in {"unreacting", "orphaned"}
    /\ at' = [at EXCEPT ![m] = "locking"]
    /\ gated' = IF at[m] = "unreacting" THEN Capped(Append(gated, m)) ELSE gated
    /\ owed' = owed \ ((ToSet(gated) \ ToSet(gated')) \cup
                       (IF at[m] = "orphaned" THEN {m} ELSE {}))
    /\ lost' = IF at[m] = "orphaned" THEN lost \cup {"orphaned"} ELSE lost
    /\ UNCHANGED <<replies, untagged, tagger, seen, by, done, drain, timer, others,
                   presses, told, turns, overlap>>

\* The reaction is on; the notice is scheduled and the handler returns.
Locked(m) ==
    /\ at[m] = "locking"
    /\ at' = [at EXCEPT ![m] = "none"]
    /\ Schedule /\ UNCHANGED wait
    /\ UNCHANGED <<replies, gated, untagged, tagger, seen, by, done, drain, others,
                   presses, told, owed, lost, turns, overlap>>

\* Mutant: the turn is charged when its reply posts, as it used to be.
HandToUncharged(m) ==
    /\ at[m] = "building"
    /\ at' = [at EXCEPT ![m] = "none"]
    /\ done' = done \cup {m} /\ owed' = owed \ {m}
    /\ turns' = turns + 1
    /\ UNCHANGED <<replies, gated, untagged, tagger, seen, by, drain, timer, others,
                   presses, told, lost, overlap>>

\* The turn is built, marked processed, charged and handed to the agent.
HandTo(m) ==
    /\ at[m] = "building"
    /\ at' = [at EXCEPT ![m] = "none"]
    /\ done' = done \cup {m} /\ owed' = owed \ {m}
    /\ replies' = replies + 1 /\ turns' = turns + 1
    /\ UNCHANGED <<gated, untagged, tagger, seen, by, drain, timer, others, presses, told,
                   lost, overlap>>

\* A download or a lookup raises: the failed store has the message, and the loop
\* of a press ends with the rest of its list unread.
BuildRaises(m) ==
    /\ Other /\ at[m] = "building"
    /\ at' = [at EXCEPT ![m] = "none"]
    /\ done' = done \cup {m}
    /\ LET b == by[m]
           cut == IF b \in Buttons THEN ToSet(drain[b]) ELSE {}
       IN  /\ drain' = IF b \in Buttons THEN [drain EXCEPT ![b] = <<>>] ELSE drain
           /\ owed' = owed \ (cut \cup {m})
           /\ lost' = IF cut \cap owed # {} THEN lost \cup {"cut"} ELSE lost
    /\ UNCHANGED <<replies, gated, untagged, tagger, seen, by, timer, presses, told, turns,
                   overlap>>

-----------------------------------------------------------------------------
(* The buttons, a tap and an eviction.                                     *)

Free(b) == \A m \in Msgs : at[m] # "none" => by[m] # b

\* Mutant: the press clears the list it was to replay.
PressContinueForgets ==
    /\ presses < MaxPresses /\ presses' = presses + 1
    /\ drain["continue"] = <<>> /\ Free("continue")
    /\ told # {}
    /\ ClearedGate /\ gated' = <<>> /\ CancelNotice
    /\ at' = Orphaned(at)
    /\ UNCHANGED <<untagged, tagger, seen, by, done, drain, others, told, owed, lost>>

\* Continue: the count is cleared and the list popped.  (The lock comes off the
\* newest message first; the steps below may follow at any later time.)
PressContinue ==
    /\ presses < MaxPresses /\ presses' = presses + 1
    /\ drain["continue"] = <<>> /\ Free("continue")
    /\ told # {}
    /\ ClearedGate /\ gated' = <<>> /\ CancelNotice
    /\ drain' = [drain EXCEPT !["continue"] = gated]
    /\ at' = Orphaned(at)
    /\ UNCHANGED <<untagged, tagger, seen, by, done, others, told, owed, lost>>

PressReplay ==
    /\ presses < MaxPresses /\ presses' = presses + 1
    /\ drain["replay"] = <<>> /\ Free("replay")
    /\ untagged # <<>>
    /\ drain' = [drain EXCEPT !["replay"] = untagged]
    /\ untagged' = <<>>
    /\ UNCHANGED <<replies, gated, tagger, seen, at, by, done, timer, others, told, owed,
                   lost, turns, overlap>>

\* The next message of a press: skipped when it ran or runs already.  The replay
\* button clears the count for each, and its tag the untagged list.
ReplayNext(b) ==
    /\ drain[b] # <<>> /\ Free(b)
    /\ drain' = [drain EXCEPT ![b] = Tail(@)]
    /\ LET m == drain[b][1]
       IN  \/ /\ m \in done \/ at[m] # "none"
              /\ IF b = "replay" THEN ClearedGate ELSE UNCHANGED <<replies, turns, overlap>>
              /\ LET late == at[m] = "locking"
                 IN  /\ owed' = IF late THEN owed \ {m} ELSE owed
                     /\ lost' = IF late THEN lost \cup {"busy"} ELSE lost
              /\ UNCHANGED <<gated, untagged, tagger, at, by, timer>>
           \/ /\ b = "continue" /\ Enter(m, b)
           \/ /\ b = "replay" /\ m \notin done /\ at[m] = "none"
              /\ ClearedGate
              /\ at' = [at EXCEPT ![m] = "building"] /\ by' = [by EXCEPT ![m] = b]
              /\ tagger' = TRUE /\ untagged' = <<>>
              /\ owed' = owed \ ToSet(untagged)
              /\ lost' = IF untagged # <<>> THEN lost \cup {"swept"} ELSE lost
              /\ UNCHANGED <<gated, timer>>
    /\ UNCHANGED <<seen, done, others, presses, told>>

\* A suggestion tapped, or a skill picked, is a turn no gate looks at.
Tap ==
    /\ Other
    /\ replies' = replies + 1 /\ turns' = turns + 1 /\ overlap' = TRUE
    /\ UNCHANGED <<gated, untagged, tagger, seen, at, by, done, drain, timer, presses,
                   told, owed, lost>>

\* _forget_session: another thread pushed this one past the cap of sessions.
ForgetGated ==
    /\ Other
    /\ ClearedGate /\ gated' = <<>> /\ untagged' = <<>> /\ tagger' = FALSE
    /\ at' = Orphaned(at) /\ CancelNotice
    /\ owed' = owed \ (ToSet(gated) \cup ToSet(untagged))
    /\ UNCHANGED <<seen, by, done, drain, presses, told, lost>>

GateNext ==
    \/ Tick \/ NoticePosts \/ PressContinue \/ PressReplay \/ Tap \/ ForgetGated
    \/ \E b \in Buttons : ReplayNext(b)
    \/ \E m \in Msgs : \/ Arrive(m) \/ Slip(m) \/ Unlocked(m) \/ Unreacted(m)
                       \/ Locked(m) \/ HandTo(m) \/ BuildRaises(m)

GateSpec == GateInit /\ [][GateNext]_gateVars

-----------------------------------------------------------------------------
(* Properties.                                                             *)

Holding == {"none", "unlocking", "unreacting", "orphaned", "locking", "building"}

GateTypeOK ==
    /\ replies \in Nat /\ turns \in Nat /\ overlap \in BOOLEAN /\ wait \in Nat
    /\ gated \in Seq(Msgs) /\ Len(gated) <= BacklogMax
    /\ untagged \in Seq(Msgs) /\ Len(untagged) <= BacklogMax
    /\ at \in [Msgs -> Holding] /\ by \in [Msgs -> Buttons \cup {"live"}]
    /\ drain \in [Buttons -> Seq(Msgs)]
    /\ due \in 0..NoNotice /\ ceiling \in 0..NoNotice
    /\ done \subseteq Msgs /\ told \subseteq Msgs /\ owed \subseteq Msgs
    /\ lost \subseteq {"orphaned", "swept", "cut", "busy"} /\ tagger \in BOOLEAN

\* A message held back is in its list, in its handler or in a press that will
\* run it, until it runs or a rule of the module above lets it go: a cap, an
\* eviction, a typed $continue, a tag, or one of the ways "lost" names.
HeldBackIsHeld ==
    \A m \in owed :
        \/ InList(gated, m) \/ InList(untagged, m) \/ at[m] # "none"
        \/ \E b \in Buttons : InList(drain[b], m)

\* Whoever was held back is told: a message in the list has a notice posted, one
\* that waits at most MaxHold, or a handler about to schedule it.
HeldBackIsTold ==
    /\ wait <= MaxHold
    /\ \A m \in ToSet(gated) :
          m \in told \/ due # NoNotice \/ \E u \in Msgs : at[u] \in {"locking", "unreacting"}

\* No thread has more turns than its limit, counted from the last reset, but for
\* those the gate let through while another handler was between it and the
\* charge, and those that reach the agent past the gate (slack.py:1480).
LimitUnlessOverlapped == turns <= ReplyLimit \/ overlap

\* What the reply gate holds back is kept, told, and charged to the limit once it is
\* let through (_mark_gated, _replay_gated and the notice of slack.py).
GatedIsKept == HeldBackIsHeld /\ HeldBackIsTold /\ LimitUnlessOverlapped
=============================================================================
