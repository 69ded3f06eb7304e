----------------------------- MODULE CodexLogin -----------------------------
(***************************************************************************)
(* The brokered ChatGPT login (codex_auth.py, and Broker._handle): daemons *)
(* that send requests with the token in auth.json and refresh it, one at a *)
(* time, under a lock of their own and a lock they share.  A refresh token *)
(* is good for one refresh.  The operator's own codex refreshes too, and   *)
(* takes neither lock.  Tokens are numbered as the endpoint issues them.   *)
(***************************************************************************)
EXTENDS Naturals, FiniteSets

CONSTANTS
    Brokers,   \* the daemons that broker the login
    Requests,  \* the requests of their agents
    MaxToken,  \* bound on the tokens issued
    MaxDeaths  \* bound on the daemons that die

VARIABLES
    live,         \* the endpoint: the token whose refresh part is unspent
    refusedUpTo,  \* the endpoint: access tokens up to this one are refused
    agedToken,    \* tokens up to this one are due for a refresh
    authFile,     \* auth.json: its token
    midWrite,     \* the operator's codex is rewriting it
    handToken,    \* the token that codex was given and has not written yet, or 0
    cached,       \* per daemon: the token of _cached, or 0
    pinned,       \* per daemon: _cached stands in for a file that could not be written
    failedToken,  \* per daemon: _failed_token
    guardHolder,  \* per daemon: the request in _guard, or NoRequest
    flock,        \* the daemon that holds the lock file, or NoBroker
    servedBy,     \* the daemon of each request
    reqAt,        \* where each request is
    sentAgain,    \* the requests that are followed up after a 401
    reqToken,     \* the token each request read, sent or was given
    spentTried,   \* ghost: a refresh was refused: its token was spent
    outside,      \* ghost: the operator's codex refreshed
    unsaved,      \* ghost: an answer of the endpoint was not saved
    lostAnswer,   \* ghost: the endpoint accepted a token, and its answer did not arrive
    turnedDown,   \* ghost: the tokens the endpoint answered with an error status
    deaths

endpointVars == <<live, refusedUpTo, agedToken>>
fileVars     == <<authFile, midWrite, handToken>>
daemonVars   == <<cached, pinned, failedToken>>
lockVars     == <<guardHolder, flock>>
requestVars  == <<reqAt, sentAgain, reqToken>>
toldVars     == <<spentTried, outside, unsaved, lostAnswer, turnedDown, deaths>>
loginVars    == <<endpointVars, fileVars, daemonVars, lockVars, servedBy, requestVars,
                  toldVars>>

NoRequest == "norequest"
NoBroker == "nodaemon"

ASSUME LoginAssumption ==
    /\ NoRequest \notin Requests /\ NoBroker \notin Brokers
    /\ MaxToken \in Nat \ {0} /\ MaxDeaths \in Nat

\* The daemons checked the login before they served it.
LoginInit ==
    /\ live = 1 /\ refusedUpTo = 0 /\ agedToken = 0
    /\ authFile = 1 /\ midWrite = FALSE /\ handToken = 0
    /\ cached = [d \in Brokers |-> 1] /\ pinned = [d \in Brokers |-> FALSE]
    /\ failedToken = [d \in Brokers |-> 0] /\ guardHolder = [d \in Brokers |-> NoRequest]
    /\ flock = NoBroker /\ servedBy \in [Requests -> Brokers]
    /\ reqAt = [q \in Requests |-> "new"] /\ sentAgain = {}
    /\ reqToken = [q \in Requests |-> 0]
    /\ spentTried = FALSE /\ outside = FALSE /\ unsaved = FALSE /\ lostAnswer = FALSE
    /\ turnedDown = {} /\ deaths = 0

\* _read: the file, or the last good copy while it does not parse; 0 when there is none.
Reading(d) == IF pinned[d] \/ midWrite THEN cached[d] ELSE authFile
Caches(d) == cached' = [cached EXCEPT ![d] = Reading(d)]

-----------------------------------------------------------------------------
(* The endpoint and the operator.                                          *)

\* Seven days pass, or the access token is about to expire; then it expires.
TokensAge ==
    /\ agedToken # live /\ agedToken' = live
    /\ UNCHANGED <<live, refusedUpTo, fileVars, daemonVars, lockVars, servedBy, requestVars,
                   toldVars>>

ExpiresToken ==
    /\ refusedUpTo < agedToken /\ refusedUpTo' = agedToken
    /\ UNCHANGED <<live, agedToken, fileVars, daemonVars, lockVars, servedBy, requestVars,
                   toldVars>>

HandPosts ==
    /\ handToken = 0 /\ authFile = live /\ live < MaxToken
    /\ live' = live + 1 /\ handToken' = live + 1 /\ outside' = TRUE
    /\ UNCHANGED <<refusedUpTo, agedToken, authFile, midWrite, daemonVars, lockVars, servedBy,
                   requestVars, spentTried, unsaved, lostAnswer, turnedDown, deaths>>

HandRewrites ==
    /\ handToken # 0
    /\ IF midWrite THEN authFile' = handToken /\ handToken' = 0
       ELSE UNCHANGED <<authFile, handToken>>
    /\ midWrite' = ~midWrite /\ pinned' = [d \in Brokers |-> FALSE]
    /\ UNCHANGED <<endpointVars, cached, failedToken, lockVars, servedBy, requestVars,
                   toldVars>>

-----------------------------------------------------------------------------
(* A request.                                                              *)

\* headers, or recover after a 401: the daemon's own lock first.
Guards(q) ==
    LET d == servedBy[q] IN
    /\ reqAt[q] \in {"new", "refused"} /\ guardHolder[d] = NoRequest
    /\ guardHolder' = [guardHolder EXCEPT ![d] = q]
    /\ reqAt' = [reqAt EXCEPT ![q] = IF @ = "new" THEN "checking" ELSE "rechecking"]
    /\ UNCHANGED <<endpointVars, fileVars, daemonVars, flock, servedBy, sentAgain, reqToken,
                   toldVars>>

\* What the refresh is needed for: refresh_due, or refused (the token sent is current).
NeedsRefresh(q, token) ==
    /\ token # failedToken[servedBy[q]]
    /\ IF reqAt[q] = "checking" THEN token <= agedToken ELSE token = reqToken[q]

\* Both locks are left, and the request goes on with what the file holds now: headers sends,
\* and recover has it sent again when that is another token.
LeavesLocks(q, token) ==
    LET again == reqAt[q] \in {"rechecking", "reposting", "resaving"} IN
    /\ flock' = NoBroker /\ guardHolder' = [guardHolder EXCEPT ![servedBy[q]] = NoRequest]
    /\ reqAt' = [reqAt EXCEPT ![q] = IF ~again THEN "ready"
                                     ELSE IF token = reqToken[q] THEN "over" ELSE "new"]
    /\ sentAgain' = IF again THEN sentAgain \union {q} ELSE sentAgain

AtTheLock(q) == reqAt[q] \in {"checking", "rechecking"} /\ flock = NoBroker

Refreshes(q, token) ==
    /\ flock' = servedBy[q] /\ reqToken' = [reqToken EXCEPT ![q] = token]
    /\ reqAt' = [reqAt EXCEPT ![q] = IF @ = "checking" THEN "posting" ELSE "reposting"]
    /\ UNCHANGED <<guardHolder, sentAgain>>

\* Mutant: what the caller had read is not read again under the lock.
EntersWithOldRead(q) ==
    LET held == cached[servedBy[q]] IN
    /\ AtTheLock(q) /\ held # 0
    /\ IF NeedsRefresh(q, held) THEN Refreshes(q, held)
       ELSE LeavesLocks(q, held) /\ UNCHANGED reqToken
    /\ UNCHANGED <<endpointVars, fileVars, daemonVars, servedBy, toldVars>>

\* _refresh_if under the shared lock: read again, and leave it when nothing is needed.
Enters(q) ==
    LET token == Reading(servedBy[q]) IN
    /\ AtTheLock(q) /\ token # 0 /\ Caches(servedBy[q])
    /\ IF NeedsRefresh(q, token) THEN Refreshes(q, token)
       ELSE LeavesLocks(q, token) /\ UNCHANGED reqToken
    /\ UNCHANGED <<endpointVars, fileVars, pinned, failedToken, servedBy, toldVars>>

Posting(q) == reqAt[q] \in {"posting", "reposting"}
Saving(q) == reqAt[q] \in {"saving", "resaving"}

\* The endpoint accepts the refresh token: from here on the old one is spent.
Posts(q) ==
    /\ Posting(q) /\ reqToken[q] = live /\ live < MaxToken /\ live' = live + 1
    /\ reqAt' = [reqAt EXCEPT ![q] = IF @ = "posting" THEN "saving" ELSE "resaving"]
    /\ UNCHANGED <<refusedUpTo, agedToken, fileVars, daemonVars, lockVars, servedBy, sentAgain,
                   reqToken, toldVars>>

\* _write, in place; the daemon's next read takes it from the file.
Saves(q) ==
    LET d == servedBy[q] IN
    /\ Saving(q) /\ authFile' = reqToken[q] + 1 /\ pinned' = [e \in Brokers |-> FALSE]
    /\ cached' = [cached EXCEPT ![d] = 0] /\ failedToken' = [failedToken EXCEPT ![d] = 0]
    /\ LeavesLocks(q, reqToken[q] + 1)
    /\ UNCHANGED <<endpointVars, midWrite, handToken, servedBy, reqToken, toldVars>>

\* The file cannot be written: this daemon keeps the new token in memory.
SavesInMemory(q) ==
    LET d == servedBy[q] IN
    /\ Saving(q) /\ unsaved' = TRUE /\ pinned' = [pinned EXCEPT ![d] = TRUE]
    /\ cached' = [cached EXCEPT ![d] = reqToken[q] + 1] /\ LeavesLocks(q, reqToken[q] + 1)
    /\ UNCHANGED <<endpointVars, fileVars, failedToken, servedBy, reqToken, spentTried,
                   outside, lostAnswer, turnedDown, deaths>>

\* The endpoint answers with an error status: the token is spent, or the endpoint is busy,
\* failing or refuses for now.
TurnsDown(q) ==
    /\ Posting(q) /\ turnedDown' = turnedDown \union {reqToken[q]}
    /\ spentTried' = (spentTried \/ reqToken[q] < live)

\* _rejected, whatever the status: the file is read again, for a token another process has
\* written by now, and if there is none the login is given up.
Rejected(q) ==
    LET d == servedBy[q] IN
    /\ TurnsDown(q) /\ ~midWrite
    /\ cached' = [cached EXCEPT ![d] = authFile] /\ pinned' = [pinned EXCEPT ![d] = FALSE]
    /\ failedToken' = IF authFile = reqToken[q] THEN [failedToken EXCEPT ![d] = authFile]
                      ELSE failedToken
    /\ LeavesLocks(q, authFile)
    /\ UNCHANGED <<endpointVars, fileVars, servedBy, reqToken, outside, unsaved, lostAnswer,
                   deaths>>

\* The request fails, and leaves the locks it holds.
FailsRequest(q) ==
    /\ reqAt' = [reqAt EXCEPT ![q] = "over"]
    /\ guardHolder' = [guardHolder EXCEPT ![servedBy[q]] = IF @ = q THEN NoRequest ELSE @]
    /\ flock' = IF Posting(q) THEN NoBroker ELSE flock

\* No answer that can be read: taken for transient, the request goes ahead with what the file
\* holds; what neither handler catches (an answer cut short, or no object) fails it.
Unanswered(q) ==
    /\ Posting(q)
    /\ \/ Caches(servedBy[q]) /\ LeavesLocks(q, Reading(servedBy[q]))
       \/ FailsRequest(q) /\ UNCHANGED <<cached, sentAgain>>
    /\ UNCHANGED <<refusedUpTo, agedToken, fileVars, pinned, failedToken, servedBy, reqToken,
                   spentTried, outside, unsaved, turnedDown, deaths>>

\* The endpoint did not take the token.
PostFails(q) == Unanswered(q) /\ UNCHANGED <<live, lostAnswer>>

\* It did, and the answer timed out or came malformed: the new token is nowhere.
AnswerLost(q) ==
    /\ Unanswered(q) /\ reqToken[q] = live /\ live < MaxToken
    /\ live' = live + 1 /\ lostAnswer' = TRUE

\* No copy answers a read in mid-write: the request fails.
Unreadable(q) ==
    LET d == servedBy[q] IN
    /\ \/ /\ AtTheLock(q) \/ reqAt[q] = "ready"
          /\ Reading(d) = 0 /\ UNCHANGED <<spentTried, turnedDown>>
       \/ TurnsDown(q) /\ midWrite
    /\ cached' = [cached EXCEPT ![d] = 0] /\ FailsRequest(q)
    /\ UNCHANGED <<endpointVars, fileVars, pinned, failedToken, servedBy, sentAgain, reqToken,
                   outside, unsaved, lostAnswer, deaths>>

\* _send: what the file holds now is sent; a 401 is followed up once.
SendsOn(q) ==
    LET token == Reading(servedBy[q]) IN
    /\ reqAt[q] = "ready" /\ token # 0 /\ Caches(servedBy[q])
    /\ reqToken' = [reqToken EXCEPT ![q] = token]
    /\ reqAt' = [reqAt EXCEPT ![q] = IF token <= refusedUpTo /\ q \notin sentAgain
                                     THEN "refused" ELSE "over"]
    /\ UNCHANGED <<endpointVars, fileVars, pinned, failedToken, lockVars, servedBy, sentAgain,
                   toldVars>>

\* A daemon dies: its locks are free, and what it had not written is lost.
DaemonDies(d) ==
    LET mine == {q \in Requests : servedBy[q] = d} IN
    /\ deaths < MaxDeaths /\ deaths' = deaths + 1
    /\ unsaved' = (unsaved \/ pinned[d] \/ \E q \in mine : Saving(q))
    /\ reqAt' = [q \in Requests |-> IF q \in mine THEN "over" ELSE reqAt[q]]
    /\ cached' = [cached EXCEPT ![d] = 0] /\ pinned' = [pinned EXCEPT ![d] = FALSE]
    /\ failedToken' = [failedToken EXCEPT ![d] = 0]
    /\ guardHolder' = [guardHolder EXCEPT ![d] = NoRequest]
    /\ flock' = IF flock = d THEN NoBroker ELSE flock
    /\ UNCHANGED <<endpointVars, fileVars, servedBy, sentAgain, reqToken, spentTried, outside,
                   lostAnswer, turnedDown>>

LoginNext ==
    \/ TokensAge \/ ExpiresToken \/ HandPosts \/ HandRewrites
    \/ \E d \in Brokers : DaemonDies(d)
    \/ \E q \in Requests :
         \/ Guards(q) \/ Enters(q) \/ Posts(q) \/ Saves(q) \/ SavesInMemory(q)
         \/ Rejected(q) \/ PostFails(q) \/ AnswerLost(q) \/ Unreadable(q) \/ SendsOn(q)

LoginSpec == LoginInit /\ [][LoginNext]_loginVars

-----------------------------------------------------------------------------
\* The types of the variables.
LoginTypeOK ==
    /\ {live, authFile} \subseteq 1..MaxToken
    /\ {refusedUpTo, agedToken, handToken} \subseteq 0..MaxToken
    /\ {cached, failedToken} \subseteq [Brokers -> 0..MaxToken]
    /\ {midWrite, spentTried, outside, unsaved, lostAnswer} \subseteq BOOLEAN
    /\ turnedDown \subseteq 0..MaxToken
    /\ pinned \in [Brokers -> BOOLEAN] /\ flock \in Brokers \union {NoBroker}
    /\ guardHolder \in [Brokers -> Requests \union {NoRequest}]
    /\ reqToken \in [Requests -> 0..MaxToken] /\ sentAgain \subseteq Requests
    /\ deaths \in 0..MaxDeaths
    /\ reqAt \in [Requests -> {"new", "checking", "posting", "saving", "ready", "refused",
                               "rechecking", "reposting", "resaving", "over"}]

\* What may lose the login: the operator's codex took its token, or an answer with the next
\* one was not written, or did not arrive.
Broken == outside \/ unsaved \/ lostAnswer

\* The daemons never spend a refresh token twice among themselves: a spent one is tried only
\* after the operator's codex refreshed, or an answer was lost.
SpendsOnce == spentTried => Broken

\* The file holds the login's unspent token, but while an answer is being written.
LoginIsKept == authFile = live \/ (\E q \in Requests : Saving(q)) \/ Broken

\* One daemon at a time refreshes, and one request of it.
OneRefresh == Cardinality({q \in Requests : Posting(q) \/ Saving(q)}) <= 1

\* What is given up was itself turned down, and is not what another process wrote meanwhile.
GivenUpWasTurnedDown == \A d \in Brokers : failedToken[d] \in turnedDown \union {0}

\* What is given up is not tried again.
GivenUpIsNotTried ==
    \A q \in Requests : Posting(q) => reqToken[q] # failedToken[servedBy[q]]

\* The daemons that share a login refresh it one at a time, each refresh token once, keep the
\* answer while they get one, and give up no login but one that was turned down.
LoginIsShared ==
    SpendsOnce /\ LoginIsKept /\ OneRefresh /\ GivenUpWasTurnedDown /\ GivenUpIsNotTried

\* "The refresh token a permanent failure was for" (codex_auth.py:227): what is given up until
\* the file changes is spent.  The code does not keep this: any error status gives up.
GivenUpIsSpent == \A d \in Brokers : failedToken[d] < live

\* "Transient: ... the next one tries again" (codex_auth.py:321): with a token that is good,
\* but for what the operator's codex did and what could not be written.  The code does not
\* keep this: the endpoint may have taken the token.
TriesAgainWithAGoodToken ==
    \A q \in Requests : Posting(q) => reqToken[q] = live \/ outside \/ unsaved
=============================================================================
