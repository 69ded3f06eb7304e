------------------------------- MODULE HostedRun -------------------------------
(***************************************************************************)
(* The codex runs of one conversation, in its tmux pane or as a plain      *)
(* child (backends/codex.py, _run_codex_exec and the two arms below it;    *)
(* tmux.py).  The interactive codex of a pane never exits: its end is read *)
(* from the rollout, and the pane is killed.  The pane is a child of a     *)
(* shared tmux server, so it outlives a daemon that dies; a tmux command   *)
(* that is not answered in time counts as a failed one, and is not         *)
(* repeated.                                                               *)
(*                                                                         *)
(* The thread of the conversation is known here: how a first turn finds    *)
(* its rollout is CodexRollouts, what its tools leave AccountFallback.     *)
(***************************************************************************)
EXTENDS Naturals, FiniteSets, Sequences

CONSTANTS MaxPaneRuns,   \* runs of codex in all
          BusyRetries,   \* len(CAPACITY_RETRY_DELAYS)
          MaxMishaps     \* deaths, unanswered tmux commands, failed writes, crashes

ASSUME HostedAssumption ==
    MaxPaneRuns \in Nat \ {0} /\ BusyRetries \in Nat /\ MaxMishaps \in Nat

PaneRuns == 1..MaxPaneRuns
\* What codex records last of a run.
Closings == {"reply", "silent", "overloaded", "refused", "aborted"}

VARIABLES
    daemonAt,       \* where the daemon is with the turn
    inPaneEnv,      \* the turn was given a pane
    run,            \* the run under way, counted over all turns
    busyTries,      \* capacity retries of this prompt
    asksAgain,      \* the nudge was sent
    firstOfTurn,    \* the first run of the turn
    trusts,         \* config.toml records the workspace as trusted
    turnFiles,      \* the turn's files under the panes root
    pane,           \* the session of the conversation's name on the server
    paneRun,        \* the run whose prompt its script holds, 0 for none
    wakes,          \* the start channel was signalled with nobody waiting
    exec,           \* the plain codex
    record,         \* the rollout: what each codex closed with
    readTo,         \* how much of it was there when the run began
    completedSeen,  \* turn_completed
    code,           \* what the arm returned
    turnWas,        \* how the last turn ended, whose reply it was, what was written by then
    troubles,       \* mishaps so far
    carriedBy,      \* ghost: the codexes that were given each run's prompt
    unwaited,       \* ghost: runs whose pane did not wait for its release
    survivors,      \* ghost: runs whose codex outlived its turn
    misread,        \* ghost: runs whose end was read while a stray wrote
    filesLeft       \* ghost: a killed daemon or a torn write left files

hostedVars == <<daemonAt, inPaneEnv, run, busyTries, asksAgain, firstOfTurn, trusts, turnFiles,
                pane, paneRun, wakes, exec, record, readTo, completedSeen, code, turnWas,
                troubles, carriedBy, unwaited, survivors, misread, filesLeft>>

DaemonSteps == {"idle", "down", "beginning", "creating", "probing", "releasing", "polling",
                "plain", "waiting", "parsing", "ended"}
Endings == {"none", "answered", "nothing", "failed", "deadline", "overflow", "stopped",
            "killed"}

TurnTyped ==
    /\ daemonAt \in DaemonSteps /\ run \in 0..MaxPaneRuns /\ firstOfTurn \in 0..MaxPaneRuns
    /\ busyTries \in 0..BusyRetries /\ turnFiles \subseteq {"env", "tornEnv", "sh", "out"}
    /\ exec \in {"none", "working", "done"} /\ code \in {"zero", "nonzero"}
    /\ pane \in {"none", "blocked", "parked", "working", "atPrompt"}
    /\ paneRun \in 0..MaxPaneRuns /\ troubles \in 0..MaxMishaps
FlagsTyped ==
    {inPaneEnv, asksAgain, trusts, wakes, completedSeen, filesLeft} \subseteq BOOLEAN
RolloutTyped ==
    /\ record \in Seq([of : PaneRuns, as : Closings]) /\ readTo \in 0..Len(record)
    /\ turnWas \in [how : Endings, from : 0..MaxPaneRuns, upto : 0..Len(record)]
GhostsTyped ==
    /\ carriedBy \in [PaneRuns -> SUBSET {"pane", "child"}]
    /\ unwaited \union survivors \union misread \subseteq PaneRuns
HostedTypeOK == TurnTyped /\ FlagsTyped /\ RolloutTyped /\ GhostsTyped

HostedInit ==
    /\ daemonAt = "idle" /\ inPaneEnv = FALSE /\ run = 0 /\ busyTries = 0 /\ asksAgain = FALSE
    /\ firstOfTurn = 0 /\ trusts = FALSE /\ turnFiles = {} /\ pane = "none" /\ paneRun = 0
    /\ wakes = FALSE /\ exec = "none" /\ record = <<>> /\ readTo = 0
    /\ completedSeen = FALSE /\ code = "zero"
    /\ turnWas = [how |-> "none", from |-> 0, upto |-> 0]
    /\ troubles = 0 /\ carriedBy = [r \in PaneRuns |-> {}] /\ unwaited = {}
    /\ survivors = {} /\ misread = {} /\ filesLeft = FALSE

ThisTurn == <<inPaneEnv, firstOfTurn, asksAgain, busyTries>>
Server == <<pane, paneRun, wakes>>
Outlived == <<survivors, misread>>
HostedGhosts == <<carriedBy, unwaited, Outlived, filesLeft>>
Log == <<record, readTo, completedSeen>>

Mishap(happens) == troubles' = troubles + (IF happens THEN 1 ELSE 0) /\ troubles' <= MaxMishaps
PaneUp == pane # "none"
\* The runs whose codex may be at work when another's turn has come.
Strays == survivors \union unwaited \union misread

\* _run: a tmux command that is not answered in time is not sent again.
Awaits(answered) == Mishap(~answered)
-----------------------------------------------------------------------------
(* A run begins.                                                           *)

\* The mutant: the rollout is read from its top.
BeginsAtTop ==
    /\ run < MaxPaneRuns /\ run' = run + 1 /\ daemonAt' = "beginning"
    /\ readTo' = 0 /\ completedSeen' = FALSE /\ UNCHANGED record
\* Where a run starts: the rollout as it is belongs to earlier turns.
BeginsRun ==
    /\ run < MaxPaneRuns /\ run' = run + 1 /\ daemonAt' = "beginning"
    /\ readTo' = Len(record) /\ completedSeen' = FALSE /\ UNCHANGED record

\* pane_for: a pane if the settings, tmux and the length of the socket's path allow one.
GetsPane(hosted) == inPaneEnv' = hosted

\* _process_turn: the pane bears the name of the conversation.
TurnStarts(hosted) ==
    /\ daemonAt = "idle" /\ BeginsRun /\ GetsPane(hosted)
    /\ firstOfTurn' = run + 1 /\ asksAgain' = FALSE /\ busyTries' = 0
    /\ UNCHANGED <<trusts, turnFiles, Server, exec, code, turnWas, troubles, HostedGhosts>>

\* _ensure_workspace_trusted: an unwritable config.toml leaves codex at a dialog.
Trusts(kept) == trusts' = (trusts \/ kept)

\* _pane_env_file, _write_pane_script: a write that fails half-way leaves what it wrote.
Staged(envKept, scriptKept) ==
    (turnFiles \ {"env", "tornEnv"}) \union {"sh"}
        \union (IF envKept THEN {"env"} ELSE {"tornEnv"})
        \union (IF scriptKept THEN {"out"} ELSE {})

\* pane_from_env: the variables of the run's environment tell codex to be hosted.
ToBeHosted == inPaneEnv

\* The workspace is trusted and the turn's files are written.  A script that cannot be
\* staged costs the pane, an environment that cannot only its values.
Stages(trustKept, envKept, scriptKept) ==
    /\ daemonAt = "beginning"
    /\ IF ToBeHosted
       THEN /\ Trusts(trustKept) /\ Mishap(~(trustKept /\ envKept /\ scriptKept))
            /\ daemonAt' = IF scriptKept THEN "creating" ELSE "plain"
            /\ turnFiles' = Staged(envKept, scriptKept) \ (IF scriptKept THEN {} ELSE {"env"})
            /\ filesLeft' = (filesLeft \/ ~scriptKept)
       ELSE /\ trustKept /\ envKept /\ scriptKept /\ daemonAt' = "plain"
            /\ UNCHANGED <<trusts, turnFiles, filesLeft, troubles>>
    /\ UNCHANGED <<ThisTurn, run, Server, exec, Log, code, turnWas, carriedBy, unwaited,
                   Outlived>>

\* Mutant: the script alone goes.
UnlinksScriptOnly == turnFiles' = turnFiles \ {"sh"} /\ filesLeft' = FALSE
\* The finally of _run_codex_in_pane: the files that were staged go.
Unlinks ==
    /\ turnFiles' = turnFiles \intersect {"tornEnv"}
    /\ filesLeft' = ("tornEnv" \in turnFiles)

\* _PaneUnavailable: the plain arm takes over.
Unhosted == daemonAt' = "plain" /\ Unlinks

\* The pane's codex is given the prompt its script holds.
GivenTo(r) ==
    /\ pane' = IF trusts THEN "working" ELSE "parked"
    /\ carriedBy' = [carriedBy EXCEPT ![r] = @ \union {"pane"}]

\* tmux new-session refuses a name that is taken, and may refuse any other.
Creates(accepted) ==
    /\ daemonAt = "creating" /\ (PaneUp => ~accepted)
    /\ IF accepted
       THEN /\ daemonAt' = "probing" /\ paneRun' = run /\ wakes' = FALSE
            /\ IF wakes
               THEN GivenTo(run) /\ unwaited' = unwaited \union {run}
               ELSE pane' = "blocked" /\ UNCHANGED <<carriedBy, unwaited>>
            /\ UNCHANGED <<turnFiles, filesLeft, troubles>>
       ELSE /\ Mishap(~PaneUp) /\ Unhosted
            /\ UNCHANGED <<Server, carriedBy, unwaited>>
    /\ UNCHANGED <<ThisTurn, run, trusts, exec, Log, code, turnWas, Outlived>>

\* tmux.alive, before the release: what was created elsewhere, or cannot be seen, is not
\* used.
Probes(answered) ==
    /\ daemonAt = "probing" /\ Awaits(answered)
    /\ IF PaneUp /\ answered
       THEN daemonAt' = "releasing" /\ UNCHANGED <<turnFiles, filesLeft>>
       ELSE Unhosted
    /\ UNCHANGED <<ThisTurn, run, trusts, Server, exec, Log, code, turnWas, carriedBy,
                   unwaited, Outlived>>

\* pipe-pane and wait-for -S.  A tap that fails costs the details of a failure only.
ReleasesPane ==
    /\ daemonAt = "releasing" /\ daemonAt' = "polling"
    /\ IF pane = "blocked"
       THEN GivenTo(paneRun) /\ UNCHANGED wakes
       ELSE wakes' = TRUE /\ UNCHANGED <<pane, carriedBy>>
    /\ UNCHANGED <<ThisTurn, run, trusts, turnFiles, paneRun, exec, Log, code, turnWas,
                   troubles, unwaited, Outlived, filesLeft>>

\* _run_codex_plain: stdin is closed, the child has a process group of its own.
SpawnsChild ==
    /\ daemonAt = "plain" /\ daemonAt' = "waiting" /\ exec' = "working"
    /\ carriedBy' = [carriedBy EXCEPT ![run] = @ \union {"child"}]
    /\ UNCHANGED <<ThisTurn, run, trusts, turnFiles, Server, Log, code, turnWas, troubles,
                   unwaited, Outlived, filesLeft>>
-----------------------------------------------------------------------------
(* The agent, in the pane or as a child.                                   *)

ClosesWith(as, r) == record' = Append(record, [of |-> r, as |-> as])

\* The interactive codex closes its turn and returns to its prompt.
PaneWorks(as) ==
    /\ pane = "working" /\ ClosesWith(as, paneRun) /\ pane' = "atPrompt"
    /\ UNCHANGED <<daemonAt, ThisTurn, run, trusts, turnFiles, paneRun, wakes, exec, readTo,
                   completedSeen, code, turnWas, troubles, HostedGhosts>>

\* codex exec closes its turn; it exits later, or hangs until it is killed.
ChildWorks(as) ==
    /\ exec = "working" /\ ClosesWith(as, run) /\ exec' = "done"
    /\ UNCHANGED <<daemonAt, ThisTurn, run, trusts, turnFiles, Server, readTo, completedSeen,
                   code, turnWas, troubles, HostedGhosts>>

\* The pane dies: a crash of what runs in it, or an operator who ends it.
PaneDies ==
    /\ PaneUp /\ pane' = "none" /\ Mishap(TRUE)
    /\ UNCHANGED <<daemonAt, ThisTurn, run, trusts, turnFiles, paneRun, wakes, exec, Log, code,
                   turnWas, HostedGhosts>>
-----------------------------------------------------------------------------
(* The run is awaited.                                                     *)

\* The records of this run: everything written since it began.
Since == {record[i] : i \in (readTo + 1)..Len(record)}
Completed == \E r \in Since : r.as # "aborted"

\* _follow: what was written is read, some time later.
Follows ==
    /\ daemonAt \in {"polling", "waiting"} /\ Completed /\ ~completedSeen
    /\ completedSeen' = TRUE
    /\ UNCHANGED <<daemonAt, ThisTurn, run, trusts, turnFiles, Server, exec, record, readTo,
                   code, turnWas, troubles, HostedGhosts>>

\* tmux.kill: once, and unanswered it leaves the session up.
Kills(answered) ==
    /\ pane' = (IF answered THEN "none" ELSE pane) /\ UNCHANGED <<paneRun, wakes>>

\* The turn is complete: its pane goes, so that a retry can have the name.
PaneFinished(answered) ==
    /\ daemonAt = "polling" /\ completedSeen
    /\ (PaneUp \/ answered) /\ Awaits(answered) /\ Kills(answered)
    /\ daemonAt' = "parsing" /\ code' = "zero" /\ Unlinks
    /\ misread' = misread \union (IF \E r \in Since : r.of \in Strays THEN {run} ELSE {})
    /\ UNCHANGED <<ThisTurn, run, trusts, exec, Log, turnWas, carriedBy, unwaited, survivors>>

\* Out of sight through the grace, dead or unanswered: the rollout is read once more, then
\* the pane is given up, and left as it is.
PaneMissing(answered) ==
    /\ daemonAt = "polling" /\ ~completedSeen
    /\ ~(PaneUp /\ answered) /\ Mishap(PaneUp)
    /\ IF Completed
       THEN completedSeen' = TRUE /\ UNCHANGED <<daemonAt, code, turnFiles, filesLeft>>
       ELSE /\ daemonAt' = "parsing" /\ code' = "nonzero" /\ Unlinks
            /\ UNCHANGED completedSeen
    /\ UNCHANGED <<ThisTurn, run, trusts, Server, exec, record, readTo, turnWas, carriedBy,
                   unwaited, Outlived>>

\* The child exits or dies; done and quiet, it is killed.
PlainExits(with) ==
    /\ daemonAt = "waiting" /\ Mishap(exec = "working")
    /\ (with = "zero" => exec = "done")
    /\ exec' = "none" /\ daemonAt' = "parsing" /\ code' = with
    /\ UNCHANGED <<ThisTurn, run, trusts, turnFiles, Server, Log, turnWas, HostedGhosts>>

TurnIs(how, from) ==
    /\ daemonAt' = "ended"
    /\ turnWas' = [how |-> how, from |-> from, upto |-> Len(record)]

\* The deadline, a stop, or a reply over the cap: the child is killed, a pane is left to
\* the orchestrator, and nothing is read any more.
Interrupted(how) ==
    /\ \/ how = "stopped" /\ daemonAt \notin {"idle", "down", "ended", "parsing"}
       \/ how = "deadline" /\ daemonAt = "polling" /\ ~completedSeen
       \/ how = "deadline" /\ daemonAt = "waiting"
       \/ how = "overflow" /\ daemonAt = "waiting"
    /\ Mishap(TRUE) /\ TurnIs(how, 0) /\ exec' = "none"
    /\ IF daemonAt \in {"creating", "probing", "releasing", "polling"}
       THEN Unlinks ELSE UNCHANGED <<turnFiles, filesLeft>>
    /\ UNCHANGED <<ThisTurn, run, trusts, Server, Log, code, carriedBy, unwaited, Outlived>>
-----------------------------------------------------------------------------
(* What came of it.                                                        *)

\* parse_codex_rollout: an error anywhere outweighs a reply; the last of each counts.
Unread == (readTo + 1)..Len(record)
ErrorKinds == {"overloaded", "refused", "aborted"}
LastIs(i, kinds) ==
    /\ i \in Unread /\ record[i].as \in kinds
    /\ \A j \in Unread : record[j].as \in kinds => j <= i
Failing == \E i \in Unread : record[i].as \in ErrorKinds
WasBusy == \E i \in Unread : LastIs(i, ErrorKinds) /\ record[i].as = "overloaded"
Replied == \E i \in Unread : record[i].as = "reply"

\* _run_with_capacity_retry: the thread is resumed, a few times.
ResumesBusy ==
    /\ daemonAt = "parsing" /\ WasBusy /\ busyTries < BusyRetries
    /\ BeginsRun /\ busyTries' = busyTries + 1
    /\ UNCHANGED <<inPaneEnv, firstOfTurn, asksAgain, trusts, turnFiles, Server, exec, code,
                   turnWas, troubles, HostedGhosts>>

\* run: no words at all, and no error: asked once more, with retries of its own.
SaidNothing == ~Failing /\ ~Replied /\ code = "zero"

AsksAgain ==
    /\ daemonAt = "parsing" /\ SaidNothing /\ ~asksAgain
    /\ BeginsRun /\ asksAgain' = TRUE /\ busyTries' = 0
    /\ UNCHANGED <<inPaneEnv, firstOfTurn, trusts, turnFiles, Server, exec, code, turnWas,
                   troubles, HostedGhosts>>

\* Mutant: the exit decides.
FailsByExit == code = "nonzero"
\* A reply is delivered whatever the exit, which counts only without one.
FailsWithoutReply == code = "nonzero" /\ ~Replied

\* An error fails the turn, an overload once its retries or its time are used up.
Unsuccessful == Failing \/ FailsWithoutReply

Parses ==
    /\ daemonAt = "parsing"
    /\ \/ Unsuccessful /\ TurnIs("failed", 0)
       \/ ~Unsuccessful
          /\ \E i \in Unread : LastIs(i, {"reply"}) /\ TurnIs("answered", record[i].of)
       \/ SaidNothing /\ asksAgain /\ TurnIs("nothing", 0)
    /\ UNCHANGED <<ThisTurn, run, trusts, turnFiles, Server, exec, Log, code, troubles,
                   HostedGhosts>>

\* _process_turn, last: the pane is killed, if the turn was given one.
TurnEnds(answered) ==
    /\ daemonAt = "ended" /\ daemonAt' = "idle"
    /\ (inPaneEnv /\ PaneUp) \/ answered
    /\ Awaits(answered)
    /\ IF inPaneEnv THEN Kills(answered) ELSE UNCHANGED Server
    /\ survivors' = survivors \union (IF pane' = "none" THEN {} ELSE {paneRun})
    /\ UNCHANGED <<ThisTurn, run, trusts, turnFiles, exec, Log, code, turnWas, carriedBy,
                   unwaited, misread, filesLeft>>

\* The daemon is killed; its panes and their codexes live on, and so do the files.
Crashes ==
    /\ daemonAt # "down" /\ daemonAt' = "down" /\ Mishap(TRUE)
    /\ turnWas' = [how |-> "killed", from |-> 0, upto |-> 0]
    /\ filesLeft' = (turnFiles # {})
    /\ UNCHANGED <<ThisTurn, run, trusts, turnFiles, Server, exec, Log, code, carriedBy,
                   unwaited, Outlived>>

\* Mutant: panes are not swept.
SweptNever(answered) == pane' = pane
\* run: the ledger's sweep reaps the child, tmux.sweep the panes of this daemon's prefix.
Swept(answered) == pane' = IF answered THEN "none" ELSE pane

Restarts(answered) ==
    /\ daemonAt = "down" /\ daemonAt' = "idle" /\ exec' = "none"
    /\ (PaneUp \/ answered) /\ Awaits(answered) /\ Swept(answered)
    /\ survivors' = survivors \union (IF PaneUp /\ ~answered THEN {paneRun} ELSE {})
    /\ UNCHANGED <<ThisTurn, run, trusts, turnFiles, paneRun, wakes, Log, code, turnWas,
                   carriedBy, unwaited, misread, filesLeft>>

HostedNext ==
    \/ \E b \in BOOLEAN :
           \/ TurnStarts(b) \/ Creates(b) \/ Probes(b) \/ PaneFinished(b)
           \/ PaneMissing(b) \/ TurnEnds(b) \/ Restarts(b)
    \/ \E trustKept, envKept, scriptKept \in BOOLEAN : Stages(trustKept, envKept, scriptKept)
    \/ ReleasesPane \/ SpawnsChild \/ PaneDies \/ Follows
    \/ \E as \in Closings : PaneWorks(as) \/ ChildWorks(as)
    \/ \E with \in {"zero", "nonzero"} : PlainExits(with)
    \/ \E how \in {"stopped", "deadline", "overflow"} : Interrupted(how)
    \/ ResumesBusy \/ AsksAgain \/ Parses \/ Crashes

HostedSpec == HostedInit /\ [][HostedNext]_hostedVars
-----------------------------------------------------------------------------
\* A prompt is carried out by one codex, of the pane or of the arm that replaces it, unless
\* the pane did not wait because an earlier one had died before its release.
CarriedOnce ==
    \A r \in PaneRuns : Cardinality(carriedBy[r]) <= 1 \/ r \in unwaited

\* Two codexes never work in the conversation's thread at once, unless the pane's is a stray:
\* a tmux that did not answer left it when its turn was over, it did not wait for its release,
\* or what another stray wrote was taken for its end.
OneAtATime == ~(pane = "working" /\ exec = "working") \/ paneRun \in Strays

\* A turn is answered with what it was asked, never with what an earlier turn left to be
\* written, unless a codex outlived its turn.
AnswersWhatWasAsked ==
    daemonAt = "ended" /\ turnWas.how = "answered"
        => turnWas.from >= firstOfTurn \/ turnWas.from \in survivors

\* Work that codex had closed with a reply, and nothing else, when the turn was judged is
\* not reported as a failure, nor as no reply.
ReplyIsDelivered ==
    daemonAt = "ended" /\ turnWas.how \in {"failed", "nothing"} /\ turnWas.upto > readTo
        => \E i \in (readTo + 1)..turnWas.upto : record[i].as # "reply"

\* No file of a turn, with its token and its prompt, outlives its run, unless the daemon was
\* killed or a write failed half-way, and then only until the next hosted run is over.
FilesGo == daemonAt \in {"idle", "ended", "parsing"} => turnFiles = {} \/ filesLeft

\* Run in a pane or not, a turn is carried out once and told as it went.
HostedKeeps ==
    /\ CarriedOnce /\ OneAtATime /\ AnswersWhatWasAsked /\ ReplyIsDelivered /\ FilesGo
=============================================================================
