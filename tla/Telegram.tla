----------------------------- MODULE Telegram -----------------------------
(***************************************************************************)
(* The Telegram frontend (telegram.py) around one conversation: the token  *)
(* that /new pins, in memory, in its file and with the orchestrator, and   *)
(* what a restart makes of it while pending turns are replayed             *)
(* (orchestrator.py); the files of an album, gathered and flushed as one   *)
(* message; the suggestion buttons under a reply; approval cards.  The     *)
(* library hands over one update at a time, so a handler of an update is   *)
(* interleaved with flushes, cards and turns but not with another update.  *)
(***************************************************************************)
EXTENDS Naturals, Sequences, FiniteSets, SequencesExt

CONSTANTS
    MaxActs,   \* bound on what the person, the agent and the system do
    MaxFiles,  \* bound on the files of the album
    LabelCap,  \* SUGGESTION_LABEL_CAP
    SpentCap   \* SUGGESTION_SPENT_CAP

ASSUME TelegramAssumption ==
    MaxActs \in Nat /\ MaxFiles \in Nat /\ LabelCap \in Nat /\ SpentCap \in Nat

VARIABLES
    acts,
    botIs,       \* "up", "down", or "replaying" the pending turns
    token,       \* _session_tokens: 0 is the base session
    savedToken,  \* SESSIONS_FILE, "torn" when a write of it was cut
    counter,     \* the orchestrator's _session_counters
    minted,      \* the last token /new made; tokens are numbered as they are made
    journaled,   \* pending turns, in order: the session each was journaled with
    toReplay,    \* those of them the resume has still to queue
    album,       \* files of the open group
    flushes,     \* groups popped by a flush that saves its files: all, and how many are saved
    menus,       \* menus posted: message ids are numbered per chat
    unkept,      \* menus whose send has not come back yet
    labels,      \* _suggestion_labels, oldest first
    spent,       \* _spent_menus, oldest first
    press,       \* the tap whose handler is under way
    tgCard,      \* the approval card: what its caller awaits, what it shows
    ranIn,       \* ghost: of each turn that ran, where it was asked and where it ran
    handedOver,  \* ghost: the files of each album message, in order
    sentBy,      \* ghost: per message sent by a tap, the menu and the menu its label is of
    tgFaults     \* ghost: faults that the properties allow for

telegramVars == <<acts, botIs, token, savedToken, counter, minted, journaled, toReplay, album,
                  flushes, menus, unkept, labels, spent, press, tgCard, ranIn, handedOver,
                  sentBy, tgFaults>>
sessionVars == <<token, savedToken, counter, minted, journaled, toReplay, ranIn>>
albumVars == <<album, flushes, handedOver>>
menuVars == <<menus, unkept, labels, spent, press, sentBy>>

TgChats == {"dm", "group"}
Torn == MaxActs + 1
NoPress == [at |-> "none"]
NoCard == [at |-> "none", shows |-> "none", tapped |-> <<"nobody", "none">>, answer |-> "none"]

TelegramInit ==
    /\ acts = 0 /\ botIs = "up" /\ token = 0 /\ savedToken = 0 /\ counter = 0 /\ minted = 0
    /\ journaled = <<>> /\ toReplay = <<>> /\ album = {} /\ flushes = {}
    /\ menus = {} /\ unkept = {}
    /\ labels = <<>> /\ spent = <<>> /\ press = NoPress /\ tgCard = NoCard
    /\ ranIn = {} /\ handedOver = {} /\ sentBy = <<>> /\ tgFaults = {}

\* The file of the tokens is not what the last /new made: "unsaved" until it is written again,
\* "lapsed" for good.
Unsaved == {"unsaved", "lapsed"}

TgAct == acts < MaxActs /\ acts' = acts + 1
NoAct == UNCHANGED acts
\* An update is handled while no other one is.
Handles == botIs = "up" /\ press = NoPress

-----------------------------------------------------------------------------
(* Sessions.                                                               *)

\* _on_update, _journal_turn: the turn's record has the session and the route of this moment.
TextArrives ==
    /\ TgAct /\ Handles /\ Len(journaled) < 2
    /\ journaled' = Append(journaled, counter)
    /\ UNCHANGED <<botIs, token, savedToken, counter, minted, toReplay, ranIn, tgFaults,
                   tgCard>>
    /\ UNCHANGED albumVars /\ UNCHANGED menuVars

\* _process: the turn takes the session the chat is in when it runs.
TurnRuns ==
    /\ NoAct /\ botIs # "down" /\ Len(journaled) > Len(toReplay)
    /\ journaled' = Tail(journaled)
    /\ ranIn' = ranIn \union {<<Head(journaled), counter>>}
    /\ UNCHANGED <<botIs, token, savedToken, counter, minted, toReplay, tgFaults, tgCard>>
    /\ UNCHANGED albumVars /\ UNCHANGED menuVars

\* _cmd_new, _mint_session_token: two in one second get one token.  The file may not be
\* written.
New(fresh, written) ==
    /\ TgAct /\ Handles /\ (~fresh => minted > 0)
    /\ minted' = IF fresh THEN minted + 1 ELSE minted
    /\ token' = minted' /\ counter' = minted'
    /\ savedToken' = IF written THEN minted' ELSE savedToken
    /\ tgFaults' = IF written THEN tgFaults \ {"unsaved"} ELSE tgFaults \union Unsaved
    /\ UNCHANGED <<botIs, journaled, toReplay, ranIn, tgCard>>
    /\ UNCHANGED albumVars /\ UNCHANGED menuVars

-----------------------------------------------------------------------------
(* The process.                                                            *)

\* A write of the file that is cut leaves it empty.
Killed(tearing) ==
    /\ TgAct /\ botIs # "down" /\ botIs' = "down"
    /\ savedToken' = IF tearing THEN Torn ELSE savedToken
    /\ tgFaults' = tgFaults \union (IF tearing THEN Unsaved ELSE {})
    /\ token' = 0 /\ counter' = 0 /\ toReplay' = journaled
    /\ album' = {} /\ flushes' = {}
    /\ unkept' = {} /\ labels' = <<>> /\ spent' = <<>> /\ press' = NoPress
    /\ tgCard' = IF tgCard.at = "none" THEN tgCard
               ELSE [tgCard EXCEPT !.at = "none", !.answer = "none"]
    /\ UNCHANGED <<minted, journaled, ranIn, handedOver, menus, sentBy>>

Restarted ==
    /\ NoAct /\ botIs = "down" /\ botIs' = "replaying"
    /\ UNCHANGED <<tgFaults, tgCard>> /\ UNCHANGED sessionVars
    /\ UNCHANGED albumVars /\ UNCHANGED menuVars

\* _restore_chat: the record's route and session are put back, and the turn is queued.
Replays ==
    /\ NoAct /\ botIs = "replaying" /\ toReplay # <<>>
    /\ toReplay' = Tail(toReplay)
    /\ LET s == Head(toReplay)
       IN  IF s = 0 THEN UNCHANGED <<token, counter>> ELSE token' = s /\ counter' = s
    /\ UNCHANGED <<botIs, savedToken, minted, journaled, ranIn, tgFaults, tgCard>>
    /\ UNCHANGED albumVars /\ UNCHANGED menuVars

\* Mutant: the file only fills in for a chat that has no token.
LoadedIfUnset == IF savedToken \in {0, Torn} \/ token # 0 THEN token ELSE savedToken
\* _load_sessions: what the file has replaces what the replays put back.
Loaded == IF savedToken \in {0, Torn} THEN token ELSE savedToken

\* start, once the pending turns are queued.
StartsPolling ==
    /\ NoAct /\ botIs = "replaying" /\ toReplay = <<>> /\ botIs' = "up"
    /\ token' = Loaded /\ counter' = IF savedToken \in {0, Torn} THEN counter ELSE Loaded
    /\ UNCHANGED <<savedToken, minted, journaled, toReplay, ranIn, tgFaults, tgCard>>
    /\ UNCHANGED albumVars /\ UNCHANGED menuVars

-----------------------------------------------------------------------------
(* An album.                                                               *)

Arrived == album \union (UNION {f.all : f \in flushes}) \union (UNION handedOver)

\* _enqueue_media_group: the first file of a group starts its flush.
AlbumFile(f) ==
    /\ TgAct /\ Handles /\ f \in 1..MaxFiles /\ f \notin Arrived
    /\ album' = album \union {f}
    /\ UNCHANGED <<botIs, flushes, handedOver, tgFaults, tgCard>>
    /\ UNCHANGED sessionVars /\ UNCHANGED menuVars

\* Mutant: the group stays where new files are added to it while its files are saved.
GroupKept == album
\* _flush_media_group pops the group before it awaits anything else.
GroupLeft == {}

FlushBegins ==
    /\ NoAct /\ botIs = "up" /\ album # {}
    /\ flushes' = flushes \union {[all |-> album, saved |-> 0]} /\ album' = GroupLeft
    /\ UNCHANGED <<botIs, handedOver, tgFaults, tgCard>>
    /\ UNCHANGED sessionVars /\ UNCHANGED menuVars

\* _save_file of the next file; one that fails takes the album with it.
FlushSaves(f, works) ==
    /\ NoAct /\ f \in flushes /\ f.saved < Cardinality(f.all)
    /\ flushes' = (flushes \ {f}) \union
                     (IF works THEN {[f EXCEPT !.saved = @ + 1]} ELSE {})
    /\ UNCHANGED <<botIs, album, handedOver, tgFaults, tgCard>>
    /\ UNCHANGED sessionVars /\ UNCHANGED menuVars

FlushHandsOver(f) ==
    /\ NoAct /\ f \in flushes /\ f.saved = Cardinality(f.all)
    /\ flushes' = flushes \ {f} /\ handedOver' = handedOver \union {f.all}
    /\ UNCHANGED <<botIs, album, tgFaults, tgCard>>
    /\ UNCHANGED sessionVars /\ UNCHANGED menuVars

-----------------------------------------------------------------------------
(* Suggestion buttons.                                                     *)

NextId(c) == 1 + Cardinality({m \in menus : m[1] = c})

\* Mutant: by the message's id alone, which another chat has as well.
LabelsByMessage(key) == {m \in ToSet(labels) : m[2] = key[2]}
\* The labels of a menu are found by its chat and its message.
LabelsOf(key) == {m \in ToSet(labels) : m = key}

\* send: the reply is posted, with its buttons below the last chunk ...
PostsMenu(c) ==
    /\ TgAct /\ botIs = "up" /\ NextId(c) < 3
    /\ menus' = menus \union {<<c, NextId(c)>>}
    /\ unkept' = unkept \union {<<c, NextId(c)>>}
    /\ UNCHANGED <<botIs, labels, spent, press, sentBy, tgFaults, tgCard>>
    /\ UNCHANGED sessionVars /\ UNCHANGED albumVars

NewestOf(s, cap) == IF Len(s) > cap THEN Tail(s) ELSE s

\* ... and its labels are kept when the post returns; the oldest make room.
KeepsLabels(m) ==
    /\ NoAct /\ m \in unkept /\ unkept' = unkept \ {m}
    /\ labels' = NewestOf(Append(labels, m), LabelCap)
    /\ UNCHANGED <<botIs, menus, spent, press, sentBy, tgFaults, tgCard>>
    /\ UNCHANGED sessionVars /\ UNCHANGED albumVars

\* _on_suggestion_tap up to its answer: no labels, or a spent menu, and it is dropped.
Press(m) ==
    /\ TgAct /\ Handles /\ m \in menus /\ ~Contains(spent, m)
    /\ spent' = NewestOf(Append(spent, m), SpentCap)
    /\ \E l \in LabelsOf(m) : press' = [at |-> "answering", menu |-> m, label |-> l]
    /\ UNCHANGED <<botIs, menus, unkept, labels, sentBy, tgFaults, tgCard>>
    /\ UNCHANGED sessionVars /\ UNCHANGED albumVars

\* The toast; an error of it ends the handler, and the menu is spent without a message.
PressAnswered(works) ==
    /\ NoAct /\ press.at = "answering"
    /\ press' = IF works THEN [press EXCEPT !.at = "retiring"] ELSE NoPress
    /\ tgFaults' = IF works THEN tgFaults ELSE tgFaults \union {"unanswered"}
    /\ UNCHANGED <<botIs, menus, unkept, labels, spent, sentBy, tgCard>>
    /\ UNCHANGED sessionVars /\ UNCHANGED albumVars

WithoutMenu(s, m) ==
    IF Contains(s, m) THEN RemoveAt(s, CHOOSE i \in 1..Len(s) : s[i] = m) ELSE s

\* The keyboard is edited, or not; the labels go in either case, and the label is sent.
PressSends ==
    /\ NoAct /\ press.at = "retiring"
    /\ labels' = WithoutMenu(labels, press.menu)
    /\ sentBy' = Append(sentBy, <<press.menu, press.label>>)
    /\ press' = NoPress
    /\ UNCHANGED <<botIs, menus, unkept, spent, tgFaults, tgCard>>
    /\ UNCHANGED sessionVars /\ UNCHANGED albumVars

-----------------------------------------------------------------------------
(* An approval card.                                                       *)

CardOnly ==
    UNCHANGED botIs /\ UNCHANGED sessionVars /\ UNCHANGED albumVars /\ UNCHANGED menuVars

\* ask_approval: its nonce is known before its card is posted.
AsksOnCard ==
    /\ TgAct /\ botIs = "up" /\ tgCard = NoCard
    /\ tgCard' = [NoCard EXCEPT !.at = "posting"] /\ UNCHANGED tgFaults /\ CardOnly

CardPosted ==
    /\ NoAct /\ tgCard.at = "posting"
    /\ tgCard' = [tgCard EXCEPT !.at = "waiting", !.shows = "buttons"]
    /\ UNCHANGED tgFaults /\ CardOnly

\* Mutant: whoever can see the card may answer it.
AnyoneTaps(who) == TRUE
\* _on_approval_tap: only the configured operator may answer.
TapCounts(who) == who = "operator"

\* A card whose future is done, or whose nonce is gone, takes no answer.
CardTapped(who, verdict) ==
    /\ TgAct /\ Handles /\ tgCard.at \in {"waiting", "retiring"} /\ tgCard.shows = "buttons"
    /\ tgCard' = IF TapCounts(who) /\ tgCard.at = "waiting"
               THEN [tgCard EXCEPT !.at = "settled", !.tapped = <<who, verdict>>]
               ELSE tgCard
    /\ UNCHANGED tgFaults /\ CardOnly

Granted == tgCard.tapped[2] = "grant"

\* The caller wakes, or its time is over; the card is stamped before it returns.
CardWakes(inTime) ==
    /\ NoAct /\ tgCard.at \in {"settled"} \union IF inTime THEN {} ELSE {"posting", "waiting"}
    /\ tgCard' =
         IF tgCard.at = "posting" THEN [tgCard EXCEPT !.at = "over", !.answer = "no"]
         ELSE [tgCard EXCEPT !.at = "retiring",
                                !.answer = IF inTime /\ Granted THEN "yes"
                                           ELSE "no"]
    /\ UNCHANGED tgFaults /\ CardOnly

\* The time is over when the card is up and the post has not returned: nobody will stamp it.
CardForsaken ==
    /\ NoAct /\ tgCard.at = "posting"
    /\ tgCard' = [tgCard EXCEPT !.at = "over", !.shows = "buttons", !.answer = "no"]
    /\ tgFaults' = tgFaults \union {"cutPost"} /\ CardOnly

Verdict == IF tgCard.answer = "yes" THEN "APPROVED" ELSE "DENIED"

\* _retire_approval works, or its edit fails, or the time is over in it.
CardStamped(works, inTime) ==
    /\ NoAct /\ tgCard.at = "retiring"
    /\ tgCard' = [tgCard EXCEPT !.at = "over",
                            !.shows = IF works THEN Verdict ELSE @,
                            !.answer = IF inTime THEN @ ELSE "no"]
    /\ tgFaults' = IF works THEN tgFaults ELSE tgFaults \union {"cutEdit"}
    /\ CardOnly

TelegramNext ==
    \/ TextArrives \/ TurnRuns \/ Restarted \/ Replays \/ StartsPolling \/ FlushBegins
    \/ PressSends \/ AsksOnCard \/ CardPosted \/ CardForsaken
    \/ \E b \in BOOLEAN :
         \/ Killed(b) \/ PressAnswered(b) \/ CardWakes(b)
         \/ \E w \in BOOLEAN : New(b, w) \/ CardStamped(b, w)
         \/ \E f \in flushes : FlushSaves(f, b)
    \/ \E f \in 1..MaxFiles : AlbumFile(f)
    \/ \E f \in flushes : FlushHandsOver(f)
    \/ \E c \in TgChats : PostsMenu(c)
    \/ \E m \in menus : KeepsLabels(m) \/ Press(m)
    \/ \E who \in {"operator", "other"}, v \in {"grant", "deny"} : CardTapped(who, v)

TelegramSpec == TelegramInit /\ [][TelegramNext]_telegramVars

-----------------------------------------------------------------------------
\* The types of the variables.
TelegramTypeOK ==
    /\ acts \in 0..MaxActs /\ botIs \in {"up", "down", "replaying"}
    /\ {token, counter, minted} \subseteq 0..MaxActs /\ savedToken \in 0..MaxActs \union {Torn}
    /\ Len(journaled) <= 2 /\ Len(toReplay) <= Len(journaled) /\ album \subseteq 1..MaxFiles
    /\ Len(labels) <= LabelCap /\ Len(spent) <= SpentCap
    /\ tgCard.at \in {"none", "posting", "waiting", "settled", "retiring", "over"}
    /\ tgCard.shows \in {"none", "buttons", "APPROVED", "DENIED"}
    /\ tgFaults \subseteq Unsaved \union {"unanswered", "cutPost", "cutEdit"}

\* A chat is in the session its last /new made, also after a restart that replayed turns of
\* earlier ones, unless the file of the tokens could not be written, or its write was cut;
\* and, if that never happened, no turn ran in an earlier session than the one it was asked
\* in.  (A /new that is saved ends the first, but the turns still pending keep their order.)
StaysInSession ==
    /\ "unsaved" \notin tgFaults /\ botIs = "up" => token = minted /\ counter = minted
    /\ "lapsed" \notin tgFaults => \A r \in ranIn : r[1] <= r[2]

\* A file of an album is in one message.
AlbumsAreWhole == \A a, b \in handedOver : a = b \/ a \cap b = {}

\* A menu sends at most one message, and it is one of its own labels.
OneMessagePerMenu ==
    /\ \A i \in DOMAIN sentBy : sentBy[i][1] = sentBy[i][2]
    /\ \A i, j \in DOMAIN sentBy : i # j => sentBy[i][1] # sentBy[j][1]

\* The agent is given leave only by an operator's tap on a card that was still asking, and
\* no card says so of one that was not; a card that is over has lost its buttons, unless
\* its edit failed, or its time was over before its post returned.
CardsAreHonest ==
    /\ tgCard.answer = "yes" \/ tgCard.shows = "APPROVED" =>
           tgCard.tapped = <<"operator", "grant">>
    /\ tgCard.at = "over" /\ tgFaults \cap {"cutEdit", "cutPost"} = {} =>
           tgCard.shows # "buttons"

TelegramKeeps == StaysInSession /\ AlbumsAreWhole /\ OneMessagePerMenu /\ CardsAreHonest
=============================================================================
