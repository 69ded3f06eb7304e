------------------------------ MODULE Approvals ------------------------------
(***************************************************************************)
(* One session's permission questions (approvals.py) and the Slack card    *)
(* each of them is asked on (slack.py).  A call asks for a key: a standing *)
(* grant, a recent "no" or too many questions answers at once; otherwise   *)
(* the first caller posts a card and later callers of the key join it.     *)
(* The time limit of asyncio.wait_for is around the whole of ask_approval: *)
(* the post, the wait for a click and the edit that retires the card.      *)
(***************************************************************************)
EXTENDS Naturals, FiniteSets

CONSTANTS
    Calls,       \* the tool calls of a session, each asks once
    GrantKeys,   \* what may be granted
    RateLimit,   \* ApprovalPolicy.rate_limit, questions in a window
    RateWindow,  \* ApprovalPolicy.window_seconds
    Cooldown,    \* deny_cooldown_seconds
    GrantTtl,    \* ApprovalRequest.ttl_seconds
    AnswerTime,  \* timeout_seconds
    MaxTime,     \* bound on the clock
    Aborts       \* bound: turns are aborted

ASSUME ApprovalsAssumption ==
    "none" \notin Calls /\ MaxTime \in Nat \ {0}
    /\ Cooldown \in Nat /\ GrantTtl \in Nat /\ AnswerTime \in Nat

VARIABLES
    time,         \* the monotonic clock
    grantedTill,  \* GrantStore._expiry, 0 for no grant
    deniedTill,   \* _denied_until, 0 for none
    asks,         \* when each call asked its question (_recent), 0 for never
    wants,        \* the key of each call
    callAt,       \* where each call is
    verdict,      \* what check returned to each call
    inFlight,     \* _in_flight: the call asking for each key, or NoCall
    nonce,        \* the future of each card in _pending_approvals
    card,         \* what the thread shows of each card
    click,        \* ghost: the operator's click on each card
    clickedAt,    \* ghost: when
    cutOff        \* ghost: calls whose answer came and was not returned

approvalVars == <<time, grantedTill, deniedTill, asks, wants, callAt, verdict, inFlight,
                  nonce, card, click, clickedAt, cutOff>>

NoCall == "none"
Asking == {"posting", "waiting", "retiring", "closing"}

ApprovalsInit ==
    /\ time = 1
    /\ grantedTill = [k \in GrantKeys |-> 0] /\ deniedTill = [k \in GrantKeys |-> 0]
    /\ asks = [c \in Calls |-> 0]
    /\ wants \in [Calls -> GrantKeys]
    /\ callAt = [c \in Calls |-> "new"] /\ verdict = [c \in Calls |-> "none"]
    /\ inFlight = [k \in GrantKeys |-> NoCall]
    /\ nonce = [c \in Calls |-> "none"] /\ card = [c \in Calls |-> "none"]
    /\ click = [c \in Calls |-> "none"] /\ clickedAt = [c \in Calls |-> 0]
    /\ cutOff = {}

-----------------------------------------------------------------------------
(* check: what can be answered without a question.                         *)

\* Mutant: a grant outlives its time.
AllowsForever(k) == grantedTill[k] > 0
Allows(k) == time < grantedTill[k]

\* Mutant: a "no" is not remembered.
CoolsNever(k) == FALSE
InCooldown(k) == time < deniedTill[k]

RateLimited == Cardinality({c \in Calls : asks[c] > 0 /\ asks[c] + RateWindow >= time})
               >= RateLimit

AnswerAtOnce(c) ==
    /\ callAt[c] = "new"
    /\ Allows(wants[c]) \/ InCooldown(wants[c]) \/ RateLimited
    /\ callAt' = [callAt EXCEPT ![c] = "done"]
    /\ verdict' = [verdict EXCEPT ![c] = IF Allows(wants[c]) THEN "allowed" ELSE "denied"]
    /\ UNCHANGED <<time, grantedTill, deniedTill, asks, wants, inFlight, nonce, card,
                   click, clickedAt, cutOff>>

\* _ask_once: the key is in question already, or this call asks.
MayAsk(c) == callAt[c] = "new" /\ ~Allows(wants[c]) /\ ~InCooldown(wants[c]) /\ ~RateLimited

Join(c) ==
    /\ MayAsk(c) /\ inFlight[wants[c]] # NoCall
    /\ callAt' = [callAt EXCEPT ![c] = "joined"]
    /\ UNCHANGED <<time, grantedTill, deniedTill, asks, wants, verdict, inFlight, nonce,
                   card, click, clickedAt, cutOff>>

\* Mutant: callers of one key each ask.
AskAlways(c) ==
    /\ MayAsk(c)
    /\ callAt' = [callAt EXCEPT ![c] = "posting"]
    /\ asks' = [asks EXCEPT ![c] = time]
    /\ inFlight' = [inFlight EXCEPT ![wants[c]] = c]
    /\ nonce' = [nonce EXCEPT ![c] = "pending"]
    /\ UNCHANGED <<time, grantedTill, deniedTill, wants, verdict, card, click,
                   clickedAt, cutOff>>
Ask(c) ==
    /\ MayAsk(c) /\ inFlight[wants[c]] = NoCall
    /\ callAt' = [callAt EXCEPT ![c] = "posting"]
    /\ asks' = [asks EXCEPT ![c] = time]
    /\ inFlight' = [inFlight EXCEPT ![wants[c]] = c]
    /\ nonce' = [nonce EXCEPT ![c] = "pending"]
    /\ UNCHANGED <<time, grantedTill, deniedTill, wants, verdict, card, click,
                   clickedAt, cutOff>>

-----------------------------------------------------------------------------
(* The card.                                                               *)

\* chat_postMessage takes effect, and then it returns.
CardShown(c) ==
    /\ callAt[c] = "posting" /\ card[c] = "none"
    /\ card' = [card EXCEPT ![c] = "live"]
    /\ UNCHANGED <<time, grantedTill, deniedTill, asks, wants, callAt, verdict, inFlight,
                   nonce, click, clickedAt, cutOff>>

PostReturns(c) ==
    /\ callAt[c] = "posting" /\ card[c] = "live"
    /\ callAt' = [callAt EXCEPT ![c] = "waiting"]
    /\ UNCHANGED <<time, grantedTill, deniedTill, asks, wants, verdict, inFlight, nonce,
                   card, click, clickedAt, cutOff>>

\* _on_approval_action, of a sender who may answer: the first click on a card
\* whose future is pending settles it.
Click(c, yes) ==
    /\ card[c] = "live" /\ nonce[c] = "pending"
    /\ nonce' = [nonce EXCEPT ![c] = IF yes THEN "yes" ELSE "no"]
    /\ click' = [click EXCEPT ![c] = IF yes THEN "yes" ELSE "no"]
    /\ clickedAt' = [clickedAt EXCEPT ![c] = time]
    /\ cutOff' = IF callAt[c] = "done" THEN cutOff \cup {c} ELSE cutOff
    /\ UNCHANGED <<time, grantedTill, deniedTill, asks, wants, callAt, verdict, inFlight,
                   card>>

\* The asker goes on with the answer: the nonce is dropped and the card edited.
Answered(c) ==
    /\ callAt[c] = "waiting" /\ nonce[c] \in {"yes", "no"}
    /\ callAt' = [callAt EXCEPT ![c] = "retiring"]
    /\ nonce' = [nonce EXCEPT ![c] = "none"]
    /\ UNCHANGED <<time, grantedTill, deniedTill, asks, wants, verdict, inFlight, card,
                   click, clickedAt, cutOff>>

CardRetired(c) ==
    /\ callAt[c] = "retiring" /\ card[c] = "live"
    /\ card' = [card EXCEPT ![c] = IF click[c] = "yes" THEN "approved" ELSE "denied"]
    /\ UNCHANGED <<time, grantedTill, deniedTill, asks, wants, callAt, verdict, inFlight,
                   nonce, click, clickedAt, cutOff>>

-----------------------------------------------------------------------------
(* The end of a question: _invoke_gate returns, and the finally of         *)
(* _ask_once settles every call that joined.                               *)

JoinsAsk(c) == {d \in Calls : callAt[d] = "joined" /\ wants[d] = wants[c]}

\* Mutant: joined calls are settled only by an answer.
SettleOnAnswer(c, granted, answered) ==
    LET told == {c} \cup (IF answered THEN JoinsAsk(c) ELSE {})
    IN  /\ callAt' = [d \in Calls |-> IF d \in told THEN "done" ELSE callAt[d]]
        /\ verdict' = [d \in Calls |-> IF d \notin told THEN verdict[d]
                                      ELSE IF granted THEN "allowed" ELSE "denied"]
        /\ inFlight' = [inFlight EXCEPT ![wants[c]] = NoCall]
Settle(c, granted, answered) ==
    LET told == {c} \cup JoinsAsk(c)
    IN  /\ callAt' = [d \in Calls |-> IF d \in told THEN "done" ELSE callAt[d]]
        /\ verdict' = [d \in Calls |-> IF d \notin told THEN verdict[d]
                                      ELSE IF granted THEN "allowed" ELSE "denied"]
        /\ inFlight' = [inFlight EXCEPT ![wants[c]] = NoCall]

\* The edit returns (or fails, which is logged): a grant, or a "no" to remember.
Returns(c) ==
    /\ callAt[c] = "retiring"
    /\ Settle(c, click[c] = "yes", TRUE)
    /\ IF click[c] = "yes"
       THEN /\ grantedTill' = [grantedTill EXCEPT ![wants[c]] = time + GrantTtl]
            /\ UNCHANGED deniedTill
       ELSE /\ deniedTill' = [deniedTill EXCEPT ![wants[c]] = time + Cooldown]
            /\ UNCHANGED grantedTill
    /\ UNCHANGED <<time, asks, wants, nonce, card, click, clickedAt, cutOff>>

\* The post raises: its nonce is popped, the request denied and nothing remembered.
PostRaises(c) ==
    /\ callAt[c] = "posting"
    /\ nonce' = [nonce EXCEPT ![c] = "none"]
    /\ cutOff' = IF click[c] = "none" THEN cutOff ELSE cutOff \cup {c}
    /\ Settle(c, FALSE, FALSE)
    /\ UNCHANGED <<time, grantedTill, deniedTill, asks, wants, card, click, clickedAt>>

\* wait_for runs out, or the turn is aborted: CancelledError in the await the
\* call is in.  In the post nothing pops the nonce, in the edit the answer is
\* dropped; in the wait the nonce goes and the card is retired as denied first.
Cut(c) ==
    /\ callAt[c] \in {"posting", "waiting", "retiring"}
    /\ cutOff' = IF click[c] = "none" THEN cutOff ELSE cutOff \cup {c}
    /\ IF callAt[c] = "waiting"
       THEN /\ callAt' = [callAt EXCEPT ![c] = "closing"]
            /\ nonce' = [nonce EXCEPT ![c] = "none"]
            /\ UNCHANGED <<verdict, inFlight>>
       ELSE Settle(c, FALSE, FALSE) /\ UNCHANGED nonce
    /\ UNCHANGED <<time, grantedTill, deniedTill, asks, wants, card, click, clickedAt>>

TimeOut(c) == time >= asks[c] + AnswerTime /\ Cut(c)
Abort(c) == Aborts /\ time < asks[c] + AnswerTime /\ Cut(c)

Closed(c) ==
    /\ callAt[c] = "closing"
    /\ \E shown \in {"live", "denied"} : card' = [card EXCEPT ![c] = shown]
    /\ Settle(c, FALSE, FALSE)
    /\ UNCHANGED <<time, grantedTill, deniedTill, asks, wants, nonce, click, clickedAt,
                   cutOff>>

\* A joined call is aborted: its shield leaves the question alone.
AbortJoined(c) ==
    /\ Aborts /\ callAt[c] = "joined"
    /\ callAt' = [callAt EXCEPT ![c] = "done"] /\ verdict' = [verdict EXCEPT ![c] = "denied"]
    /\ UNCHANGED <<time, grantedTill, deniedTill, asks, wants, inFlight, nonce, card,
                   click, clickedAt, cutOff>>

\* A question does not outlast its time limit.
TimeGoes ==
    /\ time < MaxTime
    /\ \A c \in Calls : callAt[c] \in Asking \ {"closing"} => time < asks[c] + AnswerTime
    /\ time' = time + 1
    /\ UNCHANGED <<grantedTill, deniedTill, asks, wants, callAt, verdict, inFlight, nonce,
                   card, click, clickedAt, cutOff>>

ApprovalsNext ==
    \/ \E c \in Calls :
          \/ AnswerAtOnce(c) \/ Join(c) \/ Ask(c) \/ CardShown(c) \/ PostReturns(c)
          \/ \E yes \in BOOLEAN : Click(c, yes)
          \/ Answered(c) \/ CardRetired(c) \/ Returns(c) \/ PostRaises(c)
          \/ TimeOut(c) \/ Abort(c) \/ Closed(c) \/ AbortJoined(c)
    \/ TimeGoes

ApprovalsSpec == ApprovalsInit /\ [][ApprovalsNext]_approvalVars

-----------------------------------------------------------------------------
(* Properties.                                                             *)

ApprovalsTypeOK ==
    /\ time \in 1..MaxTime
    /\ grantedTill \in [GrantKeys -> 0..(MaxTime + GrantTtl)]
    /\ deniedTill \in [GrantKeys -> 0..(MaxTime + Cooldown)]
    /\ asks \in [Calls -> 0..MaxTime] /\ clickedAt \in [Calls -> 0..MaxTime]
    /\ wants \in [Calls -> GrantKeys] /\ cutOff \subseteq Calls
    /\ callAt \in [Calls -> Asking \cup {"new", "joined", "done"}]
    /\ verdict \in [Calls -> {"none", "allowed", "denied"}]
    /\ inFlight \in [GrantKeys -> Calls \cup {NoCall}]
    /\ nonce \in [Calls -> {"none", "pending", "yes", "no"}]
    /\ card \in [Calls -> {"none", "live", "approved", "denied"}]
    /\ click \in [Calls -> {"none", "yes", "no"}]

\* "Fail closed" (approvals.py:129-132): a call goes ahead only if the operator
\* clicked Approve on a card for its key, no longer ago than a grant and the
\* edit of the card last.
OnlyApprovedGoAhead ==
    \A c \in Calls : callAt[c] = "done" /\ verdict[c] = "allowed" =>
        \E d \in Calls : wants[d] = wants[c] /\ click[d] = "yes"
AllowsOnlyFresh ==
    \A k \in GrantKeys : Allows(k) =>
        \E d \in Calls : /\ wants[d] = k /\ click[d] = "yes" /\ d \notin cutOff
                         /\ time < clickedAt[d] + AnswerTime + GrantTtl
ApprovedByTheOperator == OnlyApprovedGoAhead /\ AllowsOnlyFresh

\* "Concurrent requests for the same subject collapse onto one question"
\* (approvals.py:226), every joined call waits for a question in flight, and
\* after a "no" that was returned the key is not asked about for the cooldown.
OneQuestion ==
    \A c, d \in Calls :
        callAt[c] \in Asking /\ callAt[d] \in Asking /\ wants[c] = wants[d] => c = d
JoinersHaveAnAsker ==
    \A c \in Calls : callAt[c] = "joined" =>
        \E d \in Calls : callAt[d] \in Asking /\ wants[d] = wants[c]
NoIsRemembered ==
    \A c, d \in Calls \ cutOff :
        wants[c] = wants[d] /\ click[c] = "no" /\ callAt[c] = "done" /\ asks[d] > clickedAt[c]
        => asks[d] >= clickedAt[c] + Cooldown
AskedOnce == OneQuestion /\ JoinersHaveAnAsker /\ NoIsRemembered

\* "Never let a cosmetic edit change the answer" (slack.py:2121): a call whose
\* asker went on with the operator's Approve is allowed.
EditKeepsTheAnswer ==
    \A c \in Calls : callAt[c] = "done" /\ card[c] = "approved" => verdict[c] = "allowed"

\* ApprovalBroker.check as its callers see it: only the operator lets a call pass, and
\* is asked once for what is already being asked, granted or refused.
AnswerDecides == ApprovedByTheOperator /\ AskedOnce
=============================================================================
