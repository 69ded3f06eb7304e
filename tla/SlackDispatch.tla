----------------------------- MODULE SlackDispatch -----------------------------
(***************************************************************************)
(* What a message of a Slack conversation becomes (slack.py,               *)
(* _process_event and the command handlers): dropped, a control command,   *)
(* a background job or a turn; and what the frontend has to find out on    *)
(* the way, one Slack call at a time, while other messages, a second       *)
(* delivery, an eviction or an edit of the configuration step in.          *)
(*                                                                         *)
(* The gate of the reply limit, the tag notices and the store of failed    *)
(* events have modules of their own (SlackGate, SlackIngress).             *)
(***************************************************************************)
EXTENDS Naturals, Sequences, FiniteSets, SequencesExt, Picking

CONSTANTS MaxSent,       \* messages, slash commands and picker runs in all
          Sendable,      \* what each may be
          Threads,       \* the threads of the conversation
          Root,          \* the session of the channel itself
          SessionCap,    \* session_cap(): the sessions kept in memory
          MaxOdd         \* second deliveries and edits of the configuration in all

SentOnes == 1..MaxSent
Places == {"im", "mpim", "channel"}
\* $stop, $model and the job trigger are answered at once, each a "$command" here.
Texts == {"words", "empty", "$command", "$compact", "/skill", "picker"}
\* A policy that cannot be read ("malformed") is no policy.
Policies == {"malformed", "drop", "rules"}
Parsed == {"no policy", "drop", "rules"}
Names == {"none", "conversation", "by channel"}
Senders == {"person", "bot"}
Sessions == Threads \union {Root}

ASSUME DispatchAssumption ==
    /\ MaxSent \in Nat \ {0} /\ Root \notin Threads
    /\ Sendable \subseteq [thread : Threads, text : Texts, by : Senders, mid : BOOLEAN]
    /\ SessionCap \in Nat \ {0} /\ MaxOdd \in Nat

VARIABLES
    where,       \* what kind of conversation this is
    allowed,     \* the senders the configuration allows now
    botPolicy,   \* the policy the configuration states for the bot
    policyCache, \* the text a policy was last parsed from, and the outcome
    handling,    \* each event: its attributes and how far its handler is
    arrived,     \* events so far
    again,       \* second deliveries so far
    marked,      \* events marked processed
    known,       \* _sessions, the least recently active first
    named,       \* _workspace_names of each session
    dispatched,  \* turns handed to the orchestrator, in order
    effects,     \* ghost: how often each event took effect
    edits,       \* edits of the configuration so far
    spoiled      \* ghost: sessions a failure, an eviction or an event without a turn touched

dispatchVars == <<where, allowed, botPolicy, policyCache, handling, arrived, again, marked,
                  known, named, dispatched, effects, edits, spoiled>>

NoEvent == [at |-> "idle", thread |-> Root, text |-> "words", by |-> "person",
            mid |-> FALSE, fresh |-> FALSE, context |-> FALSE, typed |-> TRUE,
            cleared |-> FALSE]

Steps == {"idle", "dm check", "opening", "context", "naming", "lookup", "handing",
          "choosing", "picking", "anchoring", "done"}

DispatchTypeOK ==
    /\ where \in Places
    /\ allowed \subseteq Senders /\ botPolicy \in Policies
    /\ policyCache \in [raw : Policies \union {"unread"}, parsed : Parsed]
    /\ \A m \in SentOnes :
           /\ handling[m].at \in Steps /\ handling[m].thread \in Sessions
           /\ handling[m].text \in Texts /\ handling[m].by \in Senders
    /\ arrived \in 0..MaxSent /\ again \in 0..MaxOdd
    /\ marked \subseteq SentOnes
    /\ ToSet(known) \subseteq Sessions /\ Len(known) <= SessionCap
    /\ named \in [Sessions -> Names]
    /\ effects \in [SentOnes -> 0..(MaxOdd + 1)]
    /\ edits \in 0..MaxOdd
    /\ spoiled \subseteq Sessions

DispatchInit ==
    /\ where \in Places
    /\ allowed = Senders /\ botPolicy = "rules"
    /\ policyCache = [raw |-> "unread", parsed |-> "no policy"]
    /\ handling = [m \in SentOnes |-> NoEvent] /\ arrived = 0 /\ again = 0
    /\ marked = {} /\ known = <<>> /\ named = [s \in Sessions |-> "none"]
    /\ dispatched = <<>> /\ effects = [m \in SentOnes |-> 0]
    /\ edits = 0 /\ spoiled = {}

GoesOn(m, at) == handling' = [handling EXCEPT ![m].at = at]
Takes(m) == effects' = [effects EXCEPT ![m] = @ + 1]

Config == <<where, allowed, botPolicy, edits>>
Tables == <<known, named>>
Seen == <<arrived, again>>

Underway(m) == handling[m].at \notin {"idle", "done"}
-----------------------------------------------------------------------------
(* The sessions in memory.                                                 *)

\* _forget_session: everything held for the session goes.
Evicts(s) == Append(Picked(known, Sessions \ {s}), s)
KeptSessions(s) == IF Len(Evicts(s)) > SessionCap THEN Tail(Evicts(s)) ELSE Evicts(s)
Forgotten(s) == ToSet(Evicts(s)) \ ToSet(KeptSessions(s))

\* _remember_session: the thread is the most recently active, evicting past the cap.
Remembers(s) ==
    /\ known' = KeptSessions(s)
    /\ named' = [k \in Sessions |-> IF k \in Forgotten(s) THEN "none" ELSE named[k]]
    /\ spoiled' = spoiled \union Forgotten(s) \union {s}
-----------------------------------------------------------------------------
(* An event arrives.                                                       *)

EntersAt(text) == IF text \in {"/skill", "picker"} THEN "choosing" ELSE "opening"

\* _ingest_event: a copy of what is being handled or was marked goes no further.
Arrives(m, sent) ==
    /\ m = arrived + 1 /\ arrived' = m
    /\ sent.text = "/skill" => \A n \in SentOnes : handling[n].thread # sent.thread
    /\ handling' = [handling EXCEPT ![m] =
           [NoEvent EXCEPT !.at = EntersAt(sent.text), !.thread = sent.thread,
                           !.text = sent.text, !.by = sent.by, !.mid = sent.mid]]
    /\ UNCHANGED <<Config, policyCache, again, marked, Tables, dispatched, effects, spoiled>>

\* Slack delivers it again, catch-up reads it, or the store of failed events replays it.
Again(m) == ~Underway(m) /\ m \notin marked

Redelivered(m) ==
    /\ m <= arrived /\ again + edits < MaxOdd /\ again' = again + 1
    /\ handling[m].text \notin {"/skill", "picker"}
    /\ IF Again(m) THEN GoesOn(m, "opening") ELSE UNCHANGED handling
    /\ UNCHANGED <<Config, policyCache, arrived, marked, Tables, dispatched, effects, spoiled>>

\* _parse_bot_policy, _bot_rules: a policy that cannot be read is no policy.
Parse(raw) == CASE raw = "drop" -> "drop" [] raw = "rules" -> "rules" [] OTHER -> "no policy"

\* _bot_policy: parsed again only when the configured text has changed.
PolicyReadOnce == IF policyCache.raw = "unread"
                  THEN [raw |-> botPolicy, parsed |-> Parse(botPolicy)] ELSE policyCache
PolicyRead == IF policyCache.raw = botPolicy
              THEN policyCache ELSE [raw |-> botPolicy, parsed |-> Parse(botPolicy)]

\* The events that a bot's policy, the lists of senders or a missing tag drop.  A rule
\* of a policy may match or not.
DropsBot(m, matches) ==
    /\ handling[m].by = "bot"
    /\ \/ PolicyRead.parsed = "drop"
       \/ PolicyRead.parsed = "rules" /\ ~matches

\* Refused: by the lists before anything is marked, by its policy with a mark.
TurnedAway(m, matches) ==
    /\ handling[m].at = "opening"
    /\ \/ /\ handling[m].by \notin allowed
          /\ UNCHANGED <<policyCache, marked>>
       \/ /\ handling[m].by \in allowed /\ DropsBot(m, matches)
          /\ policyCache' = PolicyRead /\ marked' = marked \union {m}
    /\ GoesOn(m, "done")
    /\ UNCHANGED <<Config, Seen, Tables, dispatched, effects, spoiled>>

\* Under a bot token a DM is looked up before a person's message in it is acted on.
NeedsDmCheck(m) == where # "channel" /\ handling[m].by = "person"

\* Ghost: the lists and the policy that were read are those of the configuration now.
ClearedNow(m) == handling[m].by \in allowed
                 /\ (handling[m].by = "bot" => PolicyRead.parsed = Parse(botPolicy))

Accepts(m, matches) ==
    /\ handling[m].at = "opening"
    /\ handling[m].by \in allowed /\ ~DropsBot(m, matches)
    /\ policyCache' = (IF handling[m].by = "bot" THEN PolicyRead ELSE policyCache)
    /\ handling' = [handling EXCEPT ![m].at = "dm check", ![m].cleared = ClearedNow(m)]
    /\ UNCHANGED <<Config, Seen, marked, Tables, dispatched, effects, spoiled>>

\* _is_bot_conversation: a failed lookup, and one that is remembered as not ours for a
\* minute, drop the message.
NotOurs(m) ==
    /\ handling[m].at = "dm check" /\ NeedsDmCheck(m)
    /\ GoesOn(m, "done")
    /\ UNCHANGED <<Config, policyCache, Seen, marked, Tables, dispatched, effects,
                   spoiled>>

-----------------------------------------------------------------------------
(* The session is looked up, and the text decides.                         *)

\* The session was new before it was remembered.
IsNewAfter(s) == s \notin ToSet(KeptSessions(s))
IsNew(s) == s \notin ToSet(known)

\* Commands that are answered at once: marked first, then done.
Commands(m) ==
    /\ handling[m].text = "$command"
    /\ GoesOn(m, "done") /\ marked' = marked \union {m} /\ Takes(m)
    /\ spoiled' = spoiled \union Forgotten(handling[m].thread) \union {handling[m].thread}

\* A compaction is marked, and goes on to find its workspace.
Compacts(m) ==
    /\ handling[m].text = "$compact"
    /\ GoesOn(m, "naming") /\ marked' = marked \union {m}
    /\ spoiled' = spoiled \union Forgotten(handling[m].thread) \union {handling[m].thread}
    /\ UNCHANGED effects

\* The first message seen of a thread that was there already fetches what was said.
BecomesTurn(m) ==
    /\ handling[m].text \in {"words", "empty"}
    /\ handling' = [handling EXCEPT
           ![m].fresh = IsNew(handling[m].thread),
           ![m].at = IF IsNew(handling[m].thread) /\ handling[m].mid
                     THEN "context" ELSE "naming",
           ![m].context = FALSE]
    /\ spoiled' = spoiled \union Forgotten(handling[m].thread)
    /\ UNCHANGED <<marked, effects>>

EntersSession(m) ==
    /\ handling[m].at = "dm check"
    /\ known' = KeptSessions(handling[m].thread)
    /\ named' = [k \in Sessions |->
                    IF k \in Forgotten(handling[m].thread) THEN "none" ELSE named[k]]
    /\ Commands(m) \/ Compacts(m) \/ BecomesTurn(m)
    /\ UNCHANGED <<Config, policyCache, Seen, dispatched>>

\* _fetch_thread_context: empty where Slack does not say.
Fetches(m, found) ==
    /\ handling[m].at = "context"
    /\ handling' = [handling EXCEPT ![m].at = "naming", ![m].context = found]
    /\ spoiled' = IF found THEN spoiled ELSE spoiled \union {handling[m].thread}
    /\ UNCHANGED <<Config, policyCache, Seen, marked, Tables, dispatched, effects>>

\* _identify_session: the sender first; then the workspace, if the session has none.
\* The files of the message are saved before it is handed over.
Names1(m) ==
    /\ handling[m].at = "naming"
    /\ LET s == handling[m].thread IN
       IF named[s] # "none" THEN GoesOn(m, "handing") /\ UNCHANGED named
       ELSE IF where = "im" /\ handling[m].typed
       THEN GoesOn(m, "handing") /\ named' = [named EXCEPT ![s] = "conversation"]
       ELSE GoesOn(m, "lookup") /\ UNCHANGED named
    /\ UNCHANGED <<Config, policyCache, Seen, marked, known, dispatched, effects,
                   spoiled>>

\* conversations_info: a channel has one name either way; a group DM that could not be
\* looked up, and a DM whose kind is not known, is taken for a channel.
NamedBy(answered) ==
    IF where = "channel" \/ (where = "mpim" /\ answered) THEN "conversation" ELSE "by channel"

LooksUp(m, answered) ==
    /\ handling[m].at = "lookup"
    /\ named' = [named EXCEPT ![handling[m].thread] = NamedBy(answered)]
    /\ GoesOn(m, "handing")
    /\ spoiled' = IF named[handling[m].thread] \in {"none", NamedBy(answered)}
                  THEN spoiled ELSE spoiled \union {handling[m].thread}
    /\ UNCHANGED <<Config, policyCache, Seen, marked, known, dispatched, effects>>

\* A message that comes to nothing is left unmarked.
ComesToNothing(m) ==
    /\ handling[m].at = "handing" /\ handling[m].text = "empty"
    /\ GoesOn(m, "done")
    /\ spoiled' = spoiled \union {handling[m].thread}
    /\ UNCHANGED <<Config, policyCache, Seen, marked, Tables, dispatched, effects>>

\* What the orchestrator is handed: where it runs, and what it knows of the thread.
Turn(m) == [event |-> m, thread |-> handling[m].thread, context |-> handling[m].context,
            name |-> named[handling[m].thread], mid |-> handling[m].mid,
            routable |-> handling[m].thread \in ToSet(known)]

\* The turn is built: marked, charged and handed over without a pause.
MarkingNever(m) == marked
Marking(m) == marked \union {m}

HandsOver(m) ==
    /\ handling[m].at = "handing" /\ handling[m].text # "empty"
    /\ GoesOn(m, "done") /\ Takes(m)
    /\ marked' = (IF handling[m].text \in {"/skill", "picker"} THEN marked ELSE Marking(m))
    /\ dispatched' = IF handling[m].text = "$compact" THEN dispatched
                     ELSE Append(dispatched, Turn(m))
    /\ UNCHANGED <<Config, policyCache, Seen, Tables, spoiled>>

\* A handler raises: kept for a retry unless it was marked; what it found is gone.
Raises(m) ==
    /\ handling[m].at \in {"context", "naming", "lookup", "handing"}
    /\ GoesOn(m, "done")
    /\ spoiled' = spoiled \union {handling[m].thread}
    /\ UNCHANGED <<Config, policyCache, Seen, marked, Tables, dispatched, effects>>
-----------------------------------------------------------------------------
(* Slash commands and the skill picker.                                    *)

\* _handle_slash_command: allowed or told so; a bare one opens the picker.
\* _handle_picker_submit: the person may have been taken off the list since.
MayRunAnyway(m) == TRUE
MayRun(m) == handling[m].by \in allowed

\* Where an allowed choice goes on; the picker lies open until it is submitted.
ChoiceLeads(m, at) ==
    /\ handling' = [handling EXCEPT
           ![m].at = IF MayRun(m) THEN at ELSE "done",
           ![m].cleared = handling[m].by \in allowed]
    /\ UNCHANGED <<Config, policyCache, Seen, marked, Tables, dispatched, effects,
                   spoiled>>

ChoiceMade(m) ==
    /\ handling[m].at = "choosing"
    /\ ChoiceLeads(m, IF handling[m].text = "picker" THEN "picking" ELSE "anchoring")

Submitted(m) == handling[m].at = "picking" /\ ChoiceLeads(m, "anchoring")

\* _anchor_run, _enter_command_session: a thread of its own under an anchor, the root
\* where the anchor could not be posted.  The kind of the conversation may not be known.
Anchors(m, posted, typed) ==
    /\ handling[m].at = "anchoring"
    /\ LET s == IF posted THEN handling[m].thread ELSE Root IN
       /\ handling' = [handling EXCEPT ![m].at = "naming", ![m].thread = s,
                                      ![m].typed = typed]
       /\ Remembers(s)
    /\ UNCHANGED <<Config, policyCache, Seen, marked, dispatched, effects>>
-----------------------------------------------------------------------------
(* The configuration is edited.  An edit is seen by what reads it next, so *)
(* only the ones before such a step are told apart.                        *)

ConfigEdited(a, p) ==
    /\ again + edits < MaxOdd /\ edits' = edits + 1
    /\ \E m \in SentOnes : handling[m].at \in {"opening", "choosing", "picking"}
    /\ <<a, p>> # <<allowed, botPolicy>> /\ (a = allowed \/ p = botPolicy)
    /\ allowed' = a /\ botPolicy' = p
    /\ UNCHANGED <<where, policyCache, handling, arrived, again, marked, Tables, dispatched,
                   effects, spoiled>>

DispatchNext ==
    \/ \E m \in SentOnes :
           \/ \E sent \in Sendable : Arrives(m, sent)
           \/ Redelivered(m)
           \/ \E matches \in BOOLEAN : TurnedAway(m, matches) \/ Accepts(m, matches)
           \/ NotOurs(m) \/ EntersSession(m)
           \/ \E b \in BOOLEAN : Fetches(m, b) \/ LooksUp(m, b)
           \/ Names1(m) \/ ComesToNothing(m) \/ HandsOver(m) \/ Raises(m)
           \/ ChoiceMade(m) \/ Submitted(m)
           \/ \E posted, typed \in BOOLEAN : Anchors(m, posted, typed)
    \/ \E a \in {Senders, {"bot"}}, p \in Policies : ConfigEdited(a, p)

-----------------------------------------------------------------------------
\* However often it is delivered, and wherever its handler is then, a message takes
\* effect at most once, and only as the lists and the policy read for it allowed; a
\* choice from the picker is judged again when it is submitted.
ActsOnceAsAllowed ==
    \A m \in SentOnes : effects[m] <= 1 /\ (effects[m] > 0 => handling[m].cleared)

FirstOf(s) == CHOOSE i \in DOMAIN dispatched :
                  /\ dispatched[i].thread = s
                  /\ \A j \in DOMAIN dispatched : dispatched[j].thread = s => i <= j
HasTurn(s) == \E i \in DOMAIN dispatched : dispatched[i].thread = s

\* The first turn of a thread that was under way knows what was said in it, unless the
\* message that was to bring it was overtaken, raised, came to nothing or was a command,
\* Slack did not say, or the session was evicted.
KnowsTheThread ==
    \A s \in Threads : HasTurn(s) =>
        LET t == dispatched[FirstOf(s)] IN
        t.mid => \/ t.context
                 \/ s \in spoiled
                 \/ \E n \in SentOnes \ {t.event} : handling[n].thread = s /\ handling[n].fresh

\* A turn runs where its conversation does and its answer finds the way back: turns of
\* one session share a workspace, and none is without one or without its session,
\* unless it was evicted while it was handled or two lookups of it disagreed.
RunsInItsPlace ==
    \A i, j \in DOMAIN dispatched :
        dispatched[i].thread = dispatched[j].thread =>
            \/ dispatched[i].thread \in spoiled
            \/ /\ dispatched[i].name = dispatched[j].name
               /\ dispatched[i].name # "none" /\ dispatched[i].routable

\* In a channel every session has the workspace of the channel, whatever was answered.
ChannelIsOnePlace == where = "channel" => \A s \in Sessions : named[s] # "by channel"

\* What a message becomes is decided once and well.
DispatchKeeps ==
    ActsOnceAsAllowed /\ KnowsTheThread /\ RunsInItsPlace /\ ChannelIsOnePlace

DispatchSpec == DispatchInit /\ [][DispatchNext]_dispatchVars
=============================================================================
