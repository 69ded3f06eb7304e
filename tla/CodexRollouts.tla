--------------------------- MODULE CodexRollouts ---------------------------
(***************************************************************************)
(* How a first codex turn finds the file its codex writes (_RolloutFollower*)
(* and _FirstTurnGate in backends/codex.py).  Codex tells nobody its thread*)
(* id before the turn is over, so the follower takes the freshest rollout  *)
(* of its directory that was not there when the turn started, and a lock   *)
(* per directory keeps a second first turn out until the first has found   *)
(* its own.  A turn hosted in a tmux pane outlives the call that ran it:   *)
(* its pane is killed by the orchestrator, later.                          *)
(***************************************************************************)
EXTENDS Naturals, FiniteSets

CONSTANT FirstTurns    \* the first turns of threads

\* A turn is not what a call returns without one.
ASSUME RolloutAssumption == FirstTurns \cap {"nofile", "nothing", "failed", "none"} = {}

VARIABLES
    place,        \* the directory of each
    runAt,        \* of each turn: "queued", "running", "leaving", "over"
    hosted,       \* it runs in a pane
    locked,       \* the directories whose lock is taken: asyncio.Lock has no owner
    holdsGate,    \* _FirstTurnGate._held
    knownFiles,   \* _known_rollouts
    codex,        \* its codex: "none", "alive", "gone"
    rollout,      \* the file its codex writes: "none", "open", "complete"
    since,        \* of each file, the files that were written after it was
    path,         \* _RolloutFollower._path: the turn that wrote it, or NoFile
    sawComplete,  \* turn_completed
    reply,        \* what the turn returned: a turn's answer, "nothing", "failed", "none"
    abandoned     \* ghost: turns whose call ended while their codex ran on, unfound

rolloutVars == <<place, runAt, hosted, locked, holdsGate, knownFiles, codex, rollout, since,
                 path, sawComplete, reply, abandoned>>

NoFile == "nofile"
Directory(t) == place[t]
Directories == {"shared", "other"}

RolloutInit ==
    /\ place \in [FirstTurns -> Directories]
    /\ runAt = [t \in FirstTurns |-> "queued"] /\ hosted = [t \in FirstTurns |-> FALSE]
    /\ locked = {} /\ holdsGate = [t \in FirstTurns |-> FALSE]
    /\ knownFiles = [t \in FirstTurns |-> {}] /\ codex = [t \in FirstTurns |-> "none"]
    /\ rollout = [t \in FirstTurns |-> "none"] /\ since = [t \in FirstTurns |-> {}]
    /\ path = [t \in FirstTurns |-> NoFile] /\ sawComplete = [t \in FirstTurns |-> FALSE]
    /\ reply = [t \in FirstTurns |-> "none"] /\ abandoned = {}

Files == {t \in FirstTurns : rollout[t] # "none"}

\* _FirstTurnGate.__aenter__, the snapshot under it, and the spawn.
Starts(t, inPane) ==
    /\ runAt[t] = "queued" /\ Directory(t) \notin locked
    /\ runAt' = [runAt EXCEPT ![t] = "running"] /\ hosted' = [hosted EXCEPT ![t] = inPane]
    /\ locked' = locked \union {Directory(t)} /\ holdsGate' = [holdsGate EXCEPT ![t] = TRUE]
    /\ knownFiles' = [knownFiles EXCEPT ![t] = Files]
    /\ codex' = [codex EXCEPT ![t] = "alive"]
    /\ UNCHANGED <<place, rollout, since, path, sawComplete, reply, abandoned>>

\* Codex creates its file, goes on writing it, or completes its task.
Writes(t, state) ==
    /\ codex[t] = "alive" /\ rollout[t] # "complete" /\ state \in {"open", "complete"}
    /\ state = "complete" => rollout[t] = "open"
    /\ rollout' = [rollout EXCEPT ![t] = state]
    /\ since' = [f \in FirstTurns |-> IF f = t THEN {} ELSE since[f] \union {t}]
    /\ UNCHANGED <<place, runAt, hosted, locked, holdsGate, knownFiles, codex, path,
                   sawComplete, reply, abandoned>>

\* It exits, or is killed once quiet after its task; the interactive one only dies.
Exits(t) ==
    /\ codex[t] = "alive" /\ codex' = [codex EXCEPT ![t] = "gone"]
    /\ UNCHANGED <<place, runAt, hosted, locked, holdsGate, knownFiles, rollout, since, path,
                   sawComplete, reply, abandoned>>

\* _find_codex_rollout_by_cwd: the freshest of the new files, if it is of this directory.
NewFiles(t) == Files \ knownFiles[t]
Freshest(t) == {f \in NewFiles(t) : since[f] \cap NewFiles(t) = {}}
FreshestHere(t) ==
    LET here == {f \in Freshest(t) : Directory(f) = Directory(t)}
    IN  IF here = {} THEN NoFile ELSE CHOOSE f \in here : TRUE

\* _resolve
Located(t) == IF path[t] = NoFile THEN FreshestHere(t) ELSE path[t]
TaskComplete(file) == file # NoFile /\ rollout[file] = "complete"

\* Mutant: a second release frees the lock of whoever took it next.
ReleasesAlways(t) ==
    locked' = locked \ {Directory(t)} /\ holdsGate' = [holdsGate EXCEPT ![t] = FALSE]
\* _FirstTurnGate.release
Releases(t) ==
    /\ locked' = IF holdsGate[t] THEN locked \ {Directory(t)} ELSE locked
    /\ holdsGate' = [holdsGate EXCEPT ![t] = FALSE]

\* _drain, of the follower's poll: the gate opens once the file is found.
Polls(t) ==
    /\ runAt[t] = "running" /\ path' = [path EXCEPT ![t] = Located(t)]
    /\ sawComplete' = [sawComplete EXCEPT ![t] = @ \/ TaskComplete(Located(t))]
    /\ IF path[t] = NoFile /\ Located(t) # NoFile
       THEN Releases(t) ELSE UNCHANGED <<place, locked, holdsGate>>
    /\ UNCHANGED <<place, runAt, hosted, knownFiles, codex, rollout, since, reply,
                   abandoned>>

\* The run is over, with a last drain (aclose): an exit, or a pane whose task is complete.
RunReturns(t) ==
    /\ runAt[t] = "running" /\ IF hosted[t] THEN sawComplete[t] ELSE codex[t] = "gone"
    /\ runAt' = [runAt EXCEPT ![t] = "over"] /\ codex' = [codex EXCEPT ![t] = "gone"]
    /\ path' = [path EXCEPT ![t] = Located(t)] /\ Releases(t)
    /\ reply' = [reply EXCEPT ![t] = IF Located(t) = NoFile THEN "nothing"
                                     ELSE IF TaskComplete(Located(t)) THEN Located(t)
                                     ELSE "failed"]
    /\ UNCHANGED <<place, hosted, knownFiles, rollout, since, sawComplete, abandoned>>

\* A stop, the deadline, or a pane given up for lost: a child is killed at once, a pane is
\* left to the orchestrator.
Leaves(t) ==
    /\ runAt[t] = "running" /\ reply' = [reply EXCEPT ![t] = "failed"] /\ Releases(t)
    /\ IF hosted[t]
       THEN /\ runAt' = [runAt EXCEPT ![t] = "leaving"] /\ codex' = codex
            /\ abandoned' = IF path[t] = NoFile /\ codex[t] = "alive"
                            THEN abandoned \union {t} ELSE abandoned
       ELSE /\ runAt' = [runAt EXCEPT ![t] = "over"] /\ codex' = [codex EXCEPT ![t] = "gone"]
            /\ abandoned' = abandoned
    /\ UNCHANGED <<place, hosted, knownFiles, rollout, since, path, sawComplete>>

\* _process, after the progress message: tmux.kill.
PaneKilled(t) ==
    /\ runAt[t] = "leaving" /\ runAt' = [runAt EXCEPT ![t] = "over"]
    /\ codex' = [codex EXCEPT ![t] = "gone"]
    /\ UNCHANGED <<place, hosted, locked, holdsGate, knownFiles, rollout, since, path,
                   sawComplete, reply, abandoned>>

RolloutNext ==
    \E t \in FirstTurns :
        \/ \E inPane \in BOOLEAN : Starts(t, inPane)
        \/ \E state \in {"open", "complete"} : Writes(t, state)
        \/ Exits(t) \/ Polls(t) \/ RunReturns(t) \/ Leaves(t) \/ PaneKilled(t)

RolloutSpec == RolloutInit /\ [][RolloutNext]_rolloutVars

-----------------------------------------------------------------------------
\* The types of the variables.
RolloutTypeOK ==
    /\ place \in [FirstTurns -> Directories]
    /\ runAt \in [FirstTurns -> {"queued", "running", "leaving", "over"}]
    /\ {hosted, holdsGate, sawComplete} \subseteq [FirstTurns -> BOOLEAN]
    /\ locked \subseteq Directories /\ Files \union abandoned \subseteq FirstTurns
    /\ {knownFiles, since} \subseteq [FirstTurns -> SUBSET FirstTurns]
    /\ codex \in [FirstTurns -> {"none", "alive", "gone"}]
    /\ rollout \in [FirstTurns -> {"none", "open", "complete"}]
    /\ path \in [FirstTurns -> FirstTurns \union {NoFile}]
    /\ reply \in [FirstTurns -> FirstTurns \union {"nothing", "failed", "none"}]

Strayed == {t \in FirstTurns : path[t] \notin {NoFile, t}}

\* A first turn reads the rollout of its own codex ("the loser delivers the winner's reply
\* ... the race the gate exists to stop").
ReadsItsOwnRollout == Strayed = {}

\* It does whenever no turn hosted in a pane was left while its codex was still to write.
\* After that, a turn may read the file of the one abandoned, another then that turn's own,
\* and so on: whose file is read by mistake was abandoned, or reads another's itself.
ReadsItsOwnUnlessAbandoned ==
    /\ abandoned = {} => Strayed = {}
    /\ \A t \in Strayed : path[t] \in abandoned \union Strayed

\* Work that codex completed in the time of the turn is answered, unless the turns of
\* another directory wrote later: only the freshest file is looked at.
CompletedIsAnswered ==
    \A t \in FirstTurns : reply[t] = "nothing" /\ rollout[t] = "complete"
                          => t \notin Freshest(t)

\* The lock of a directory is free once every turn that took it has found its file or ended.
GateOpens ==
    \A d \in Directories :
        d \in locked <=> Cardinality({t \in FirstTurns : holdsGate[t] /\ Directory(t) = d}) = 1

FindsItsRollout == ReadsItsOwnUnlessAbandoned /\ CompletedIsAnswered /\ GateOpens
=============================================================================
