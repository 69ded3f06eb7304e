----------------------------- MODULE AgentTurn -----------------------------
(***************************************************************************)
(* One turn's agent process, from Orchestrator._process: the egress,       *)
(* command token and relay it is given, the CLI and what it leaves running *)
(* in its process group, the prompt fed to it while its two streams are    *)
(* read (agent._exec, _consume), the timeout, the nudge retry              *)
(* (ClaudeBackend.run), and the teardown, with a stop that may come at any *)
(* point where the turn waits.  A cancellation is delivered where the turn *)
(* waits when the stop comes.                                              *)
(***************************************************************************)
EXTENDS Naturals, FiniteSets

CONSTANTS
    PromptUnits,  \* the prompt, in units of a pipe
    PipeRoom,     \* what one pipe holds
    MaxOutput,    \* bound on what the CLI writes to each stream
    MaxTurnStops  \* bound on $stop and on the daemon's own stop

ASSUME AgentAssumption ==
    /\ {PromptUnits, MaxOutput, MaxTurnStops} \subseteq Nat
    /\ PipeRoom \in Nat \ {0}

Pipes == {"out", "err"}

VARIABLES
    turnAt,                \* where _process waits: "setup", "relay", "reading", "errors",
                           \* "waiting", "reaping", "sending", "labelling", "closing", "over"
    attempt,               \* 1, or 2 for the nudge
    agentVerdict,          \* of the attempt: "none", "answer", "empty", "error", "stopped"
    agentCli,              \* "none", "running", "exited", "killed"
    exitWith,              \* what its output folds to once it has exited
    helper,                \* pipes a process it left in its group holds open
    unfed, stdinHas,       \* units of the prompt not yet written, and in the pipe
    wroteTo, pipeHas,      \* per stream: written in all, and not yet read
    errReader,             \* stderr_task: "none", "reading", "done"
    bounded, turnExpired,  \* whether the run has a timeout, and whether it is spent
    turnStops,             \* stops so far
    opened,            \* what the turn opened: "pane", "token", "relay"
    stray,                 \* a relay nothing refers to any more
    answerPosted,          \* what send was called with: "none", "answer", "error"
    slips                  \* ghost: cancellations that went astray, and where

agentVars == <<turnAt, attempt, agentVerdict, agentCli, exitWith, helper, unfed, stdinHas,
               wroteTo, pipeHas, errReader, bounded, turnExpired, turnStops, opened, stray,
               answerPosted, slips>>

AgentInit ==
    /\ turnAt = "setup" /\ attempt = 1 /\ agentVerdict = "none"
    /\ agentCli = "none" /\ exitWith = "none" /\ helper = {}
    /\ unfed = 0 /\ stdinHas = 0
    /\ wroteTo = [p \in Pipes |-> 0] /\ pipeHas = [p \in Pipes |-> 0]
    /\ errReader = "none" /\ bounded \in BOOLEAN /\ turnExpired = FALSE
    /\ turnStops = 0 /\ opened = {"pane"} /\ stray = FALSE
    /\ answerPosted = "none" /\ slips = {}

cliVars == <<agentCli, exitWith, helper, unfed, stdinHas, wroteTo, pipeHas>>
roomVars == <<bounded, turnStops, opened, stray, slips>>

-----------------------------------------------------------------------------
(* Setting up.                                                             *)

\* The session's egress and approvals are there; the turn's command token is minted.
Prepared ==
    /\ turnAt = "setup" /\ turnAt' = "relay" /\ opened' = opened \union {"token"}
    /\ UNCHANGED <<attempt, agentVerdict, cliVars, errReader, bounded, turnExpired, turnStops,
                   stray, answerPosted, slips>>

\* A proxy or a relay that does not start is the turn's own failure.
AgentSetupFails ==
    /\ turnAt \in {"setup", "relay"} /\ turnAt' = "sending" /\ agentVerdict' = "error"
    /\ UNCHANGED <<attempt, cliVars, errReader, roomVars, turnExpired, answerPosted>>

\* _exec: the CLI leads a process group of its own, the prompt goes in by a task of
\* its own, and stderr is drained from the start.
Spawned ==
    /\ agentCli' = "running" /\ exitWith' = "none" /\ helper' = {}
    /\ unfed' = PromptUnits /\ stdinHas' = 0
    /\ wroteTo' = [p \in Pipes |-> 0] /\ pipeHas' = [p \in Pipes |-> 0]
    /\ errReader' = "reading" /\ turnExpired' = FALSE
    /\ turnAt' = "reading" /\ agentVerdict' = "none"

RelayOpens ==
    /\ turnAt = "relay" /\ opened' = opened \union {"relay"} /\ Spawned
    /\ UNCHANGED <<attempt, bounded, turnStops, stray, answerPosted, slips>>

-----------------------------------------------------------------------------
(* The CLI, and the tasks that feed and drain it.                          *)

besides == <<turnAt, attempt, agentVerdict, bounded, turnExpired, turnStops, opened, stray,
             answerPosted, slips>>

CliReads ==
    /\ agentCli = "running" /\ stdinHas > 0 /\ stdinHas' = stdinHas - 1
    /\ UNCHANGED <<besides, agentCli, exitWith, helper, unfed, wroteTo, pipeHas, errReader>>
CliWrites(p) ==
    /\ agentCli = "running" /\ wroteTo[p] < MaxOutput /\ pipeHas[p] < PipeRoom
    /\ wroteTo' = [wroteTo EXCEPT ![p] = @ + 1] /\ pipeHas' = [pipeHas EXCEPT ![p] = @ + 1]
    /\ UNCHANGED <<besides, agentCli, exitWith, helper, unfed, stdinHas, errReader>>

\* A tool of the agent's leaves something running that inherited its pipes.
CliLeavesHelper(pipes) ==
    /\ agentCli = "running" /\ helper = {} /\ helper' = pipes
    /\ UNCHANGED <<besides, agentCli, exitWith, unfed, stdinHas, wroteTo, pipeHas, errReader>>
HelperEnds ==
    /\ helper # {} /\ helper' = {}
    /\ UNCHANGED <<besides, agentCli, exitWith, unfed, stdinHas, wroteTo, pipeHas, errReader>>
CliExits(with) ==
    /\ agentCli = "running" /\ agentCli' = "exited" /\ exitWith' = with
    /\ UNCHANGED <<besides, helper, unfed, stdinHas, wroteTo, pipeHas, errReader>>

\* _feed_stdin.
Feeds ==
    /\ unfed > 0 /\ stdinHas < PipeRoom /\ agentCli = "running"
    /\ unfed' = unfed - 1 /\ stdinHas' = stdinHas + 1
    /\ UNCHANGED <<besides, agentCli, exitWith, helper, wroteTo, pipeHas, errReader>>

AtEof(p) == agentCli # "running" /\ p \notin helper /\ pipeHas[p] = 0

\* Mutant: the output is read once the prompt has been handed over.
OutIsReadOnceFed == turnAt = "reading" /\ unfed = 0 /\ pipeHas["out"] > 0
\* _consume reads whenever there is something to read.
OutIsRead == turnAt = "reading" /\ pipeHas["out"] > 0
ReadsOut ==
    /\ OutIsRead /\ pipeHas' = [pipeHas EXCEPT !["out"] = @ - 1]
    /\ UNCHANGED <<besides, agentCli, exitWith, helper, unfed, stdinHas, wroteTo, errReader>>
ReadsErr ==
    /\ errReader = "reading" /\ pipeHas["err"] > 0
    /\ pipeHas' = [pipeHas EXCEPT !["err"] = @ - 1]
    /\ UNCHANGED <<besides, agentCli, exitWith, helper, unfed, stdinHas, wroteTo, errReader>>
ErrEof ==
    /\ errReader = "reading" /\ AtEof("err") /\ errReader' = "done"
    /\ UNCHANGED <<besides, cliVars>>

-----------------------------------------------------------------------------
(* The run, up to the end of its process group.                            *)

OutEof ==
    /\ turnAt = "reading" /\ AtEof("out") /\ turnAt' = "errors"
    /\ UNCHANGED <<attempt, agentVerdict, cliVars, errReader, roomVars, turnExpired,
                   answerPosted>>
ErrJoined ==
    /\ turnAt = "errors" /\ errReader = "done" /\ turnAt' = "waiting"
    /\ UNCHANGED <<attempt, agentVerdict, cliVars, errReader, roomVars, turnExpired,
                   answerPosted>>
Waited ==
    /\ turnAt = "waiting" /\ agentCli = "exited"
    /\ agentVerdict' = exitWith /\ turnAt' = "reaping"
    /\ UNCHANGED <<attempt, cliVars, errReader, roomVars, turnExpired, answerPosted>>

\* More output than a turn may have.
TooMuch ==
    /\ turnAt = "reading" /\ pipeHas["out"] > 0
    /\ agentVerdict' = "error" /\ turnAt' = "reaping" /\ errReader' = "done"
    /\ UNCHANGED <<attempt, cliVars, roomVars, turnExpired, answerPosted>>

\* A cancellation inside _consume, the stop's or the timeout's.  One that arrives
\* while stderr is joined is taken for the reader's own end, and the run goes on.
CancelledRun(as) ==
    /\ errReader' = "done"
    /\ IF turnAt = "errors"
       THEN /\ turnAt' = "waiting" /\ agentVerdict' = agentVerdict
            /\ slips' = slips \union {"swallowed"}
       ELSE turnAt' = "reaping" /\ agentVerdict' = as /\ slips' = slips

Expires ==
    /\ bounded /\ ~turnExpired /\ turnExpired' = TRUE
    /\ turnAt \in {"reading", "errors", "waiting"} /\ CancelledRun("error")
    /\ UNCHANGED <<attempt, cliVars, bounded, turnStops, opened, stray, answerPosted>>

\* kill_process_group: the whole group, whether or not its leader has exited.
GroupKilled ==
    /\ agentCli' = (IF agentCli = "running" THEN "killed" ELSE agentCli)
    /\ helper' = {} /\ pipeHas' = [p \in Pipes |-> 0]
    /\ unfed' = 0 /\ stdinHas' = 0 /\ UNCHANGED <<exitWith, wroteTo>>

\* What follows: the answer, an error's text, or the finally alone.
Reaps ==
    /\ turnAt = "reaping" /\ ~(agentVerdict = "empty" /\ attempt = 1) /\ GroupKilled
    /\ turnAt' = IF agentVerdict = "stopped" THEN "labelling" ELSE "sending"
    /\ UNCHANGED <<attempt, agentVerdict, errReader, roomVars, turnExpired, answerPosted>>

\* An empty reply is asked for again, once, in a process and a timeout of its own.
Nudges ==
    /\ turnAt = "reaping" /\ agentVerdict = "empty" /\ attempt = 1
    /\ attempt' = 2 /\ Spawned
    /\ UNCHANGED <<roomVars, answerPosted>>

-----------------------------------------------------------------------------
(* The reply, the teardown, and a stop.                                    *)

Sends ==
    /\ turnAt = "sending" /\ turnAt' = "labelling"
    /\ answerPosted' = IF agentVerdict = "error" THEN "error" ELSE "answer"
    /\ UNCHANGED <<attempt, agentVerdict, cliVars, errReader, roomVars, turnExpired>>

\* end_progress returns, the pane is killed, and the relay is closed.
Labelled ==
    /\ turnAt = "labelling" /\ turnAt' = "closing" /\ opened' = opened \ {"pane"}
    /\ UNCHANGED <<attempt, agentVerdict, cliVars, errReader, bounded, turnExpired, turnStops,
                   stray, answerPosted, slips>>
Closes ==
    /\ turnAt = "closing" /\ turnAt' = "over" /\ opened' = opened \ {"relay", "token"}
    /\ UNCHANGED <<attempt, agentVerdict, cliVars, errReader, bounded, turnExpired, turnStops,
                   stray, answerPosted, slips>>

\* Mutant: the reaper forgets the cancellation it deferred.
StopReapingForgets ==
    /\ turnAt = "reaping" /\ UNCHANGED <<turnAt, agentVerdict, errReader, stray, slips>>

\* kill_process_group waits for the group first and raises the cancellation after.
StopReaping ==
    /\ turnAt = "reaping" /\ agentVerdict' = "stopped"
    /\ UNCHANGED <<turnAt, errReader, stray, slips>>

StopRun ==
    /\ turnAt \in {"reading", "errors", "waiting"} /\ CancelledRun("stopped")
    /\ UNCHANGED stray

\* Before the agent, and while the reply or the error goes out.  A relay whose
\* opening is cut keeps its sockets, and nothing refers to it.
StopElsewhere ==
    /\ turnAt \in {"setup", "relay", "sending"}
    /\ turnAt' = "labelling" /\ agentVerdict' = "stopped"
    /\ stray' = (turnAt = "relay") /\ UNCHANGED <<errReader, slips>>

\* A second stop, inside the finally, ends the finally where it waits.
StopTeardown ==
    /\ turnAt \in {"labelling", "closing"} /\ turnAt' = "over"
    /\ slips' = slips \union {"teardown"}
    /\ UNCHANGED <<agentVerdict, errReader, stray>>

\* abort and shutdown cancel the task that drains the chat.
Stop ==
    /\ turnAt # "over" /\ turnStops < MaxTurnStops /\ turnStops' = turnStops + 1
    /\ StopReaping \/ StopRun \/ StopElsewhere \/ StopTeardown
    /\ UNCHANGED <<attempt, cliVars, bounded, turnExpired, opened, answerPosted>>

AgentNext ==
    \/ Prepared \/ AgentSetupFails \/ RelayOpens
    \/ CliReads \/ (\E p \in Pipes : CliWrites(p)) \/ HelperEnds
    \/ \E pipes \in SUBSET Pipes \ {{}} : CliLeavesHelper(pipes)
    \/ \E with \in {"answer", "empty", "error"} : CliExits(with)
    \/ Feeds \/ ReadsOut \/ ReadsErr \/ ErrEof
    \/ OutEof \/ ErrJoined \/ Waited \/ TooMuch \/ Expires \/ Reaps \/ Nudges
    \/ Sends \/ Labelled \/ Closes \/ Stop

AgentSpec == AgentInit /\ [][AgentNext]_agentVars

-----------------------------------------------------------------------------
(* Properties.                                                             *)

AgentTypeOK ==
    /\ turnAt \in {"setup", "relay", "reading", "errors", "waiting", "reaping", "sending",
                   "labelling", "closing", "over"}
    /\ attempt \in {1, 2} /\ {bounded, turnExpired, stray} \subseteq BOOLEAN
    /\ agentVerdict \in {"none", "answer", "empty", "error", "stopped"}
    /\ agentCli \in {"none", "running", "exited", "killed"}
    /\ exitWith \in {"none", "answer", "empty", "error"}
    /\ helper \subseteq Pipes /\ opened \subseteq {"pane", "token", "relay"}
    /\ unfed \in 0..PromptUnits /\ stdinHas \in 0..PipeRoom
    /\ \A p \in Pipes : pipeHas[p] \in 0..PipeRoom /\ wroteTo[p] \in 0..MaxOutput
    /\ errReader \in {"none", "reading", "done"}
    /\ answerPosted \in {"none", "answer", "error"} /\ turnStops \in 0..MaxTurnStops

\* The CLI and the turn are never each waiting for the other: until its group is reaped, a
\* CLI that runs is held up by no full pipe that nobody reads, whether or not the prompt
\* has gone in.
BothSidesMove ==
    agentCli = "running" /\ turnAt # "reaping" =>
        /\ pipeHas["out"] = PipeRoom => OutIsRead
        /\ pipeHas["err"] = PipeRoom => errReader = "reading"

\* A turn that was stopped answers nothing after it: neither the run's result nor a
\* nudge's, unless the stop was taken for the end of stderr.
StoppedTurnIsSilent ==
    (turnStops > 0 /\ turnAt \in {"sending", "labelling", "closing", "over"}
        /\ slips \intersect {"swallowed", "teardown"} = {})
        => (agentVerdict = "stopped" \/ answerPosted # "none")

\* When a turn is over, nothing of its process group runs and nothing it was given
\* is still open, unless a second stop cut its teardown.
NothingOutlivesTheTurn ==
    (turnAt = "over") =>
        /\ agentCli # "running" /\ helper = {}
        /\ "teardown" \notin slips => opened = {}

TurnEndsWell == BothSidesMove /\ StoppedTurnIsSilent /\ NothingOutlivesTheTurn
=============================================================================
