-------------------------- MODULE AgentRunsProofs ----------------------------
(***************************************************************************)
(* The turns of agents keep their promises, for every value of the         *)
(* constants: the process of a turn, what a claude turn reports, codex in  *)
(* a pane or as a child, first codex turns and their rollouts, what the    *)
(* turns of a chat remember, the jail around a turn, and compactions.      *)
(* Each has an invariant of its own and a theorem about it; AgentsProofs   *)
(* puts them together with what serves them, as MCAgents explores them.    *)
(***************************************************************************)
EXTENDS AgentTurn, ClaudeTurn, HostedRun, CodexRollouts, SessionMemory, JailMounts,
        Compaction, FiniteSetTheorems, FunctionTheorems, TLAPS

-----------------------------------------------------------------------------
(* AgentTurn.                                                              *)

\* Until the agent runs there is no process, and once it is reaped there is none; while it
\* runs, both of its streams are read until it is reaped.
NoneOutsideTheRun ==
    /\ turnAt \in {"setup", "relay", "sending", "labelling", "closing", "over"} =>
          agentCli # "running" /\ helper = {}
    /\ agentCli = "running" =>
          turnAt = "reaping" \/ (turnAt = "reading" /\ errReader = "reading")
    /\ turnAt = "closing" => "pane" \notin opened
    /\ turnAt = "over" /\ "teardown" \notin slips => opened = {}

\* A stop that was not taken for another ending is on its way through the teardown.
StopIsUnderWay ==
    turnStops > 0 /\ slips \intersect {"swallowed", "teardown"} = {} =>
        /\ turnAt \in {"reaping", "labelling", "closing", "over"}
        /\ agentVerdict = "stopped" \/ answerPosted # "none"
        /\ turnAt = "reaping" => agentVerdict = "stopped"

PipesFit ==
    /\ wroteTo \in [Pipes -> 0..MaxOutput] /\ pipeHas \in [Pipes -> 0..PipeRoom]
    /\ slips \subseteq {"swallowed", "teardown"}

AgentInv == AgentTypeOK /\ PipesFit /\ NoneOutsideTheRun /\ StopIsUnderWay

LEMMA AgentInvStarts == AgentInit => AgentInv
  <1>1. SUFFICES ASSUME AgentInit PROVE AgentInv
    OBVIOUS
  <1>2. {bounded, turnExpired, stray} \subseteq BOOLEAN
    BY <1>1, Zenon DEF AgentInit
  <1>3. QED
    BY <1>1, <1>2, AgentAssumption DEF AgentInit, AgentInv, AgentTypeOK, PipesFit,
       NoneOutsideTheRun, StopIsUnderWay, Pipes

LEMMA PreparedKeeps ==
  ASSUME AgentInv, Prepared PROVE AgentInv'
  <1>1. {bounded, turnExpired, stray}' \subseteq BOOLEAN
    BY Zenon DEF AgentInv, AgentTypeOK, Prepared, cliVars
  <1>2. AgentTypeOK' /\ PipesFit'
    BY <1>1, AgentAssumption DEF AgentInv, AgentTypeOK, PipesFit, Pipes, Prepared, cliVars
  <1>3. NoneOutsideTheRun' /\ StopIsUnderWay'
    BY AgentAssumption DEF AgentInv, AgentTypeOK, PipesFit, NoneOutsideTheRun,
       StopIsUnderWay, Prepared, cliVars
  <1>4. QED
    BY <1>2, <1>3 DEF AgentInv

LEMMA AgentSetupFailsKeeps ==
  ASSUME AgentInv, AgentSetupFails PROVE AgentInv'
  <1>1. {bounded, turnExpired, stray}' \subseteq BOOLEAN
    BY Zenon DEF AgentInv, AgentTypeOK, AgentSetupFails, roomVars, cliVars
  <1>2. AgentTypeOK' /\ PipesFit'
    BY <1>1, AgentAssumption DEF AgentInv, AgentTypeOK, PipesFit, Pipes, AgentSetupFails,
       roomVars, cliVars
  <1>3. NoneOutsideTheRun' /\ StopIsUnderWay'
    BY AgentAssumption DEF AgentInv, AgentTypeOK, PipesFit, NoneOutsideTheRun,
       StopIsUnderWay, AgentSetupFails, roomVars, cliVars
  <1>4. QED
    BY <1>2, <1>3 DEF AgentInv

LEMMA RelayOpensKeeps ==
  ASSUME AgentInv, RelayOpens PROVE AgentInv'
  <1>1. {bounded, turnExpired, stray}' \subseteq BOOLEAN
    BY Zenon DEF AgentInv, AgentTypeOK, RelayOpens, Spawned
  <1>2. AgentTypeOK' /\ PipesFit'
    BY <1>1, AgentAssumption DEF AgentInv, AgentTypeOK, PipesFit, Pipes, RelayOpens, Spawned
  <1>3. NoneOutsideTheRun' /\ StopIsUnderWay'
    BY AgentAssumption DEF AgentInv, AgentTypeOK, PipesFit, NoneOutsideTheRun,
       StopIsUnderWay, RelayOpens, Spawned
  <1>4. QED
    BY <1>2, <1>3 DEF AgentInv

LEMMA CliReadsKeeps ==
  ASSUME AgentInv, CliReads PROVE AgentInv'
  <1>1. {bounded, turnExpired, stray}' \subseteq BOOLEAN
    BY Zenon DEF AgentInv, AgentTypeOK, CliReads, besides
  <1>2. AgentTypeOK' /\ PipesFit'
    BY <1>1, AgentAssumption DEF AgentInv, AgentTypeOK, PipesFit, Pipes, CliReads, besides
  <1>3. NoneOutsideTheRun' /\ StopIsUnderWay'
    BY AgentAssumption DEF AgentInv, AgentTypeOK, PipesFit, NoneOutsideTheRun,
       StopIsUnderWay, CliReads, besides
  <1>4. QED
    BY <1>2, <1>3 DEF AgentInv

LEMMA CliWritesKeeps ==
  ASSUME AgentInv, NEW p \in Pipes, CliWrites(p) PROVE AgentInv'
  <1>1. {bounded, turnExpired, stray}' \subseteq BOOLEAN
    BY Zenon DEF AgentInv, AgentTypeOK, CliWrites, besides
  <1>2. AgentTypeOK' /\ PipesFit'
    BY <1>1, AgentAssumption DEF AgentInv, AgentTypeOK, PipesFit, Pipes, CliWrites, besides
  <1>3. NoneOutsideTheRun' /\ StopIsUnderWay'
    BY AgentAssumption DEF AgentInv, AgentTypeOK, PipesFit, NoneOutsideTheRun,
       StopIsUnderWay, CliWrites, besides
  <1>4. QED
    BY <1>2, <1>3 DEF AgentInv

LEMMA CliLeavesHelperKeeps ==
  ASSUME AgentInv, NEW pipes \in SUBSET Pipes \ {{}}, CliLeavesHelper(pipes) PROVE AgentInv'
  <1>1. {bounded, turnExpired, stray}' \subseteq BOOLEAN
    BY Zenon DEF AgentInv, AgentTypeOK, CliLeavesHelper, besides
  <1>2. AgentTypeOK' /\ PipesFit'
    BY <1>1, AgentAssumption DEF AgentInv, AgentTypeOK, PipesFit, Pipes, CliLeavesHelper,
       besides
  <1>3. NoneOutsideTheRun' /\ StopIsUnderWay'
    BY AgentAssumption DEF AgentInv, AgentTypeOK, PipesFit, NoneOutsideTheRun,
       StopIsUnderWay, CliLeavesHelper, besides
  <1>4. QED
    BY <1>2, <1>3 DEF AgentInv

LEMMA HelperEndsKeeps ==
  ASSUME AgentInv, HelperEnds PROVE AgentInv'
  <1>1. {bounded, turnExpired, stray}' \subseteq BOOLEAN
    BY Zenon DEF AgentInv, AgentTypeOK, HelperEnds, besides
  <1>2. AgentTypeOK' /\ PipesFit'
    BY <1>1, AgentAssumption DEF AgentInv, AgentTypeOK, PipesFit, Pipes, HelperEnds, besides
  <1>3. NoneOutsideTheRun' /\ StopIsUnderWay'
    BY AgentAssumption DEF AgentInv, AgentTypeOK, PipesFit, NoneOutsideTheRun,
       StopIsUnderWay, HelperEnds, besides
  <1>4. QED
    BY <1>2, <1>3 DEF AgentInv

LEMMA CliExitsKeeps ==
  ASSUME AgentInv, NEW with \in {"answer", "empty", "error"}, CliExits(with) PROVE AgentInv'
  <1>1. {bounded, turnExpired, stray}' \subseteq BOOLEAN
    BY Zenon DEF AgentInv, AgentTypeOK, CliExits, besides
  <1>2. AgentTypeOK' /\ PipesFit'
    BY <1>1, AgentAssumption DEF AgentInv, AgentTypeOK, PipesFit, Pipes, CliExits, besides
  <1>3. NoneOutsideTheRun' /\ StopIsUnderWay'
    BY AgentAssumption DEF AgentInv, AgentTypeOK, PipesFit, NoneOutsideTheRun,
       StopIsUnderWay, CliExits, besides
  <1>4. QED
    BY <1>2, <1>3 DEF AgentInv

LEMMA FeedsKeeps ==
  ASSUME AgentInv, Feeds PROVE AgentInv'
  <1>1. {bounded, turnExpired, stray}' \subseteq BOOLEAN
    BY Zenon DEF AgentInv, AgentTypeOK, Feeds, besides
  <1>2. AgentTypeOK' /\ PipesFit'
    BY <1>1, AgentAssumption DEF AgentInv, AgentTypeOK, PipesFit, Pipes, Feeds, besides
  <1>3. NoneOutsideTheRun' /\ StopIsUnderWay'
    BY AgentAssumption DEF AgentInv, AgentTypeOK, PipesFit, NoneOutsideTheRun,
       StopIsUnderWay, Feeds, besides
  <1>4. QED
    BY <1>2, <1>3 DEF AgentInv

LEMMA ReadsOutKeeps ==
  ASSUME AgentInv, ReadsOut PROVE AgentInv'
  <1>1. {bounded, turnExpired, stray}' \subseteq BOOLEAN
    BY Zenon DEF AgentInv, AgentTypeOK, ReadsOut, OutIsRead, besides
  <1>2. AgentTypeOK' /\ PipesFit'
    BY <1>1, AgentAssumption DEF AgentInv, AgentTypeOK, PipesFit, Pipes, ReadsOut,
       OutIsRead, besides
  <1>3. NoneOutsideTheRun' /\ StopIsUnderWay'
    BY AgentAssumption DEF AgentInv, AgentTypeOK, PipesFit, NoneOutsideTheRun,
       StopIsUnderWay, ReadsOut, OutIsRead, besides
  <1>4. QED
    BY <1>2, <1>3 DEF AgentInv

LEMMA ReadsErrKeeps ==
  ASSUME AgentInv, ReadsErr PROVE AgentInv'
  <1>1. {bounded, turnExpired, stray}' \subseteq BOOLEAN
    BY Zenon DEF AgentInv, AgentTypeOK, ReadsErr, besides
  <1>2. AgentTypeOK' /\ PipesFit'
    BY <1>1, AgentAssumption DEF AgentInv, AgentTypeOK, PipesFit, Pipes, ReadsErr, besides
  <1>3. NoneOutsideTheRun' /\ StopIsUnderWay'
    BY AgentAssumption DEF AgentInv, AgentTypeOK, PipesFit, NoneOutsideTheRun,
       StopIsUnderWay, ReadsErr, besides
  <1>4. QED
    BY <1>2, <1>3 DEF AgentInv

LEMMA ErrEofKeeps ==
  ASSUME AgentInv, ErrEof PROVE AgentInv'
  <1>1. {bounded, turnExpired, stray}' \subseteq BOOLEAN
    BY Zenon DEF AgentInv, AgentTypeOK, ErrEof, besides, cliVars
  <1>2. AgentTypeOK' /\ PipesFit'
    BY <1>1, AgentAssumption DEF AgentInv, AgentTypeOK, PipesFit, Pipes, ErrEof, besides,
       cliVars
  <1>3. NoneOutsideTheRun' /\ StopIsUnderWay'
    BY AgentAssumption DEF AgentInv, AgentTypeOK, PipesFit, NoneOutsideTheRun,
       StopIsUnderWay, ErrEof, AtEof, besides, cliVars
  <1>4. QED
    BY <1>2, <1>3 DEF AgentInv

LEMMA OutEofKeeps ==
  ASSUME AgentInv, OutEof PROVE AgentInv'
  <1>1. {bounded, turnExpired, stray}' \subseteq BOOLEAN
    BY Zenon DEF AgentInv, AgentTypeOK, OutEof, roomVars, cliVars
  <1>2. AgentTypeOK' /\ PipesFit'
    BY <1>1, AgentAssumption DEF AgentInv, AgentTypeOK, PipesFit, Pipes, OutEof, roomVars,
       cliVars
  <1>3. NoneOutsideTheRun' /\ StopIsUnderWay'
    BY AgentAssumption DEF AgentInv, AgentTypeOK, PipesFit, NoneOutsideTheRun,
       StopIsUnderWay, OutEof, AtEof, roomVars, cliVars
  <1>4. QED
    BY <1>2, <1>3 DEF AgentInv

LEMMA ErrJoinedKeeps ==
  ASSUME AgentInv, ErrJoined PROVE AgentInv'
  <1>1. {bounded, turnExpired, stray}' \subseteq BOOLEAN
    BY Zenon DEF AgentInv, AgentTypeOK, ErrJoined, roomVars, cliVars
  <1>2. AgentTypeOK' /\ PipesFit'
    BY <1>1, AgentAssumption DEF AgentInv, AgentTypeOK, PipesFit, Pipes, ErrJoined,
       roomVars, cliVars
  <1>3. NoneOutsideTheRun' /\ StopIsUnderWay'
    BY AgentAssumption DEF AgentInv, AgentTypeOK, PipesFit, NoneOutsideTheRun,
       StopIsUnderWay, ErrJoined, roomVars, cliVars
  <1>4. QED
    BY <1>2, <1>3 DEF AgentInv

LEMMA WaitedKeeps ==
  ASSUME AgentInv, Waited PROVE AgentInv'
  <1>1. {bounded, turnExpired, stray}' \subseteq BOOLEAN
    BY Zenon DEF AgentInv, AgentTypeOK, Waited, roomVars, cliVars
  <1>2. AgentTypeOK' /\ PipesFit'
    BY <1>1, AgentAssumption DEF AgentInv, AgentTypeOK, PipesFit, Pipes, Waited, roomVars,
       cliVars
  <1>3. NoneOutsideTheRun' /\ StopIsUnderWay'
    BY AgentAssumption DEF AgentInv, AgentTypeOK, PipesFit, NoneOutsideTheRun,
       StopIsUnderWay, Waited, roomVars, cliVars
  <1>4. QED
    BY <1>2, <1>3 DEF AgentInv

LEMMA TooMuchKeeps ==
  ASSUME AgentInv, TooMuch PROVE AgentInv'
  <1>1. {bounded, turnExpired, stray}' \subseteq BOOLEAN
    BY Zenon DEF AgentInv, AgentTypeOK, TooMuch, roomVars, cliVars
  <1>2. AgentTypeOK' /\ PipesFit'
    BY <1>1, AgentAssumption DEF AgentInv, AgentTypeOK, PipesFit, Pipes, TooMuch, roomVars,
       cliVars
  <1>3. NoneOutsideTheRun' /\ StopIsUnderWay'
    BY AgentAssumption DEF AgentInv, AgentTypeOK, PipesFit, NoneOutsideTheRun,
       StopIsUnderWay, TooMuch, roomVars, cliVars
  <1>4. QED
    BY <1>2, <1>3 DEF AgentInv

LEMMA ExpiresKeeps ==
  ASSUME AgentInv, Expires PROVE AgentInv'
  <1>1. {bounded, turnExpired, stray}' \subseteq BOOLEAN
    BY Zenon DEF AgentInv, AgentTypeOK, Expires, CancelledRun, cliVars
  <1>2. AgentTypeOK' /\ PipesFit'
    BY <1>1, AgentAssumption DEF AgentInv, AgentTypeOK, PipesFit, Pipes, Expires,
       CancelledRun, cliVars
  <1>3. NoneOutsideTheRun' /\ StopIsUnderWay'
    BY AgentAssumption DEF AgentInv, AgentTypeOK, PipesFit, NoneOutsideTheRun,
       StopIsUnderWay, Expires, CancelledRun, cliVars
  <1>4. QED
    BY <1>2, <1>3 DEF AgentInv

LEMMA ReapsKeeps ==
  ASSUME AgentInv, Reaps PROVE AgentInv'
  <1>1. {bounded, turnExpired, stray}' \subseteq BOOLEAN
    BY Zenon DEF AgentInv, AgentTypeOK, Reaps, GroupKilled, roomVars
  <1>2. AgentTypeOK' /\ PipesFit'
    BY <1>1, AgentAssumption DEF AgentInv, AgentTypeOK, PipesFit, Pipes, Reaps, GroupKilled,
       roomVars
  <1>3. NoneOutsideTheRun' /\ StopIsUnderWay'
    BY AgentAssumption DEF AgentInv, AgentTypeOK, PipesFit, NoneOutsideTheRun,
       StopIsUnderWay, Reaps, GroupKilled, roomVars
  <1>4. QED
    BY <1>2, <1>3 DEF AgentInv

LEMMA NudgesKeeps ==
  ASSUME AgentInv, Nudges PROVE AgentInv'
  <1>1. {bounded, turnExpired, stray}' \subseteq BOOLEAN
    BY Zenon DEF AgentInv, AgentTypeOK, Nudges, Spawned, roomVars
  <1>2. AgentTypeOK' /\ PipesFit'
    BY <1>1, AgentAssumption DEF AgentInv, AgentTypeOK, PipesFit, Pipes, Nudges, Spawned,
       roomVars
  <1>3. NoneOutsideTheRun' /\ StopIsUnderWay'
    BY AgentAssumption DEF AgentInv, AgentTypeOK, PipesFit, NoneOutsideTheRun,
       StopIsUnderWay, Nudges, Spawned, roomVars
  <1>4. QED
    BY <1>2, <1>3 DEF AgentInv

LEMMA SendsKeeps ==
  ASSUME AgentInv, Sends PROVE AgentInv'
  <1>1. {bounded, turnExpired, stray}' \subseteq BOOLEAN
    BY Zenon DEF AgentInv, AgentTypeOK, Sends, roomVars, cliVars
  <1>2. AgentTypeOK' /\ PipesFit'
    BY <1>1, AgentAssumption DEF AgentInv, AgentTypeOK, PipesFit, Pipes, Sends, roomVars,
       cliVars
  <1>3. NoneOutsideTheRun' /\ StopIsUnderWay'
    BY AgentAssumption DEF AgentInv, AgentTypeOK, PipesFit, NoneOutsideTheRun,
       StopIsUnderWay, Sends, roomVars, cliVars
  <1>4. QED
    BY <1>2, <1>3 DEF AgentInv

LEMMA LabelledKeeps ==
  ASSUME AgentInv, Labelled PROVE AgentInv'
  <1>1. {bounded, turnExpired, stray}' \subseteq BOOLEAN
    BY Zenon DEF AgentInv, AgentTypeOK, Labelled, cliVars
  <1>2. AgentTypeOK' /\ PipesFit'
    BY <1>1, AgentAssumption DEF AgentInv, AgentTypeOK, PipesFit, Pipes, Labelled, cliVars
  <1>3. NoneOutsideTheRun' /\ StopIsUnderWay'
    BY AgentAssumption DEF AgentInv, AgentTypeOK, PipesFit, NoneOutsideTheRun,
       StopIsUnderWay, Labelled, cliVars
  <1>4. QED
    BY <1>2, <1>3 DEF AgentInv

LEMMA ClosesKeeps ==
  ASSUME AgentInv, Closes PROVE AgentInv'
  <1>1. {bounded, turnExpired, stray}' \subseteq BOOLEAN
    BY Zenon DEF AgentInv, AgentTypeOK, Closes, cliVars
  <1>2. AgentTypeOK' /\ PipesFit'
    BY <1>1, AgentAssumption DEF AgentInv, AgentTypeOK, PipesFit, Pipes, Closes, cliVars
  <1>3. NoneOutsideTheRun' /\ StopIsUnderWay'
    BY AgentAssumption DEF AgentInv, AgentTypeOK, PipesFit, NoneOutsideTheRun,
       StopIsUnderWay, Closes, cliVars
  <1>4. QED
    BY <1>2, <1>3 DEF AgentInv

LEMMA TurnStopKeeps ==
  ASSUME AgentInv, Stop PROVE AgentInv'
  <1>1. {bounded, turnExpired, stray}' \subseteq BOOLEAN
    BY Zenon DEF AgentInv, AgentTypeOK, Stop, StopReaping, StopRun, StopElsewhere, StopTeardown
  <1>2. turnStops' \in 1..MaxTurnStops /\ slips \subseteq slips'
    BY AgentAssumption DEF AgentInv, AgentTypeOK, Stop, StopReaping, StopRun, StopElsewhere,
       StopTeardown, CancelledRun
  <1> USE <1>1, <1>2 DEF AgentInv, AgentTypeOK, PipesFit, NoneOutsideTheRun, StopIsUnderWay,
                         Stop, cliVars
  <1>3. CASE StopReaping
    BY <1>3 DEF StopReaping
  <1>4. CASE StopRun
    BY <1>4 DEF StopRun, CancelledRun
  <1>5. CASE StopElsewhere
    BY <1>5 DEF StopElsewhere
  <1>6. CASE StopTeardown
    BY <1>6 DEF StopTeardown
  <1>7. QED
    BY <1>3, <1>4, <1>5, <1>6

LEMMA AgentInvKept == AgentInv /\ [AgentNext]_agentVars => AgentInv'
  <1>1. SUFFICES ASSUME AgentInv, [AgentNext]_agentVars PROVE AgentInv'
    OBVIOUS
  <1>2. CASE AgentNext
    BY <1>1, <1>2, PreparedKeeps, AgentSetupFailsKeeps, RelayOpensKeeps, CliReadsKeeps,
       CliWritesKeeps, CliLeavesHelperKeeps, HelperEndsKeeps, CliExitsKeeps, FeedsKeeps,
       ReadsOutKeeps, ReadsErrKeeps, ErrEofKeeps, OutEofKeeps, ErrJoinedKeeps, WaitedKeeps,
       TooMuchKeeps, ExpiresKeeps, ReapsKeeps, NudgesKeeps, SendsKeeps, LabelledKeeps,
       ClosesKeeps, TurnStopKeeps DEF AgentNext
  <1>3. CASE UNCHANGED agentVars
    <2>1. {bounded, turnExpired, stray}' \subseteq BOOLEAN
      BY <1>1, <1>3, Zenon DEF AgentInv, AgentTypeOK, agentVars
    <2>2. QED
      BY <1>1, <1>3, <2>1 DEF AgentInv, AgentTypeOK, PipesFit, NoneOutsideTheRun,
         StopIsUnderWay, agentVars
  <1>4. QED
    BY <1>1, <1>2, <1>3

LEMMA AgentInvEnds == AgentInv => TurnEndsWell
  <1>1. SUFFICES ASSUME AgentInv PROVE TurnEndsWell
    OBVIOUS
  <1>2. BothSidesMove
    BY <1>1, AgentAssumption DEF AgentInv, BothSidesMove, OutIsRead, NoneOutsideTheRun
  <1>3. StoppedTurnIsSilent
    BY <1>1 DEF AgentInv, StopIsUnderWay, StoppedTurnIsSilent
  <1>4. NothingOutlivesTheTurn
    BY <1>1 DEF AgentInv, NoneOutsideTheRun, NothingOutlivesTheTurn
  <1>5. QED
    BY <1>2, <1>3, <1>4 DEF TurnEndsWell

\* A turn ends as what its agent did: its streams are read to their ends, nothing it opened
\* is left behind, and a stop that was not swallowed is told (agent.py).
THEOREM TurnsEndWell == AgentSpec => []TurnEndsWell
  <1>1. AgentInit => AgentInv
    BY AgentInvStarts
  <1>2. AgentInv /\ [AgentNext]_agentVars => AgentInv'
    BY AgentInvKept
  <1>3. AgentInv => TurnEndsWell
    BY AgentInvEnds
  <1>4. QED
    BY <1>1, <1>2, <1>3, PTL DEF AgentSpec

-----------------------------------------------------------------------------
(* ClaudeTurn.                                                             *)

\* A call has the tally of its stage: the second one has the first behind it.
StageFits ==
    /\ callStage \in {"spawning", "gate"} =>
          /\ tally = NoTally
          /\ (callsMade = 0 /\ firstOut = NoTally) \/ callsMade = 1
    /\ callStage = "running" => (callsMade = 1 /\ firstOut = NoTally) \/ callsMade = 2
    /\ callStage # "idle" => answer = NoAnswer /\ turnsBegun > 0
    /\ firstOut.compact = "none"

\* What the turn used is what its calls found, and what the session logged past the offset.
SumsFit ==
    /\ usedUp.read = firstOut.read + tally.read
    /\ usedUp.written = firstOut.written + tally.written
    /\ logged = offset + Messages /\ Messages <= MaxMessages
    /\ loggedResults <= loggedCalls /\ loggedCalls <= Messages
    /\ handed <= turnsBegun
    /\ tally.last <= talk /\ (tally.last > 0 => tally.read + tally.written > 0)

\* The turns so far leave room for this one's messages.
RoomFits == (turnsBegun = 0 /\ logged = 0) \/ offset + MaxMessages <= turnsBegun * MaxMessages

\* The stream names the model of the last message, and tells of every tool.
StreamTells ==
    Stream => lastBy = (IF tally.model # "none" THEN tally.model ELSE firstOut.model)
ToolsAreSeen ==
    callStage # "idle" /\ toolsRan =>
        prompting # "compact" /\ (Stream => tally.tools \/ firstOut.tools)

\* A session that is resumed has content; one that is not has its prompt staged until the
\* first call has read it.
WaysFit ==
    /\ sessionFile = "content" => prompted
    /\ callStage # "idle" /\ prompting # "compact" =>
          /\ way = "resume" => sessionFile = "content"
          /\ Carries(way) /\ claudeMode # "pty"
             /\ (callsMade = 0 \/ (callsMade = 1 /\ callStage = "running")) => stagedPrompt
    /\ callStage # "idle" /\ prompting = "compact" /\ claudeMode = "pty" => hooked
    /\ stagedPrompt => callStage # "idle" /\ firstOut = NoTally

ClaudeInv ==
    /\ ClaudeTypeOK /\ StageFits /\ SumsFit /\ RoomFits /\ StreamTells /\ ToolsAreSeen
    /\ WaysFit /\ FiguresAreTheTurns /\ ActsAreTold

LEMMA ProductOfSum == \A a, b, c \in Nat : (a + b) * c = a * c + b * c
  OBVIOUS

LEMMA MessagesFit ==
  /\ MaxLogged \in Nat /\ MaxMessages \in Nat \ {0} /\ MaxClaudeTurns \in Nat \ {0}
  /\ \A t \in 0..MaxClaudeTurns :
        /\ t * MaxMessages \in Nat /\ t * MaxMessages <= MaxLogged
        /\ (t + 1) * MaxMessages = t * MaxMessages + MaxMessages
  <1>1. MaxMessages \in Nat \ {0} /\ MaxClaudeTurns \in Nat \ {0}
    BY ClaudeTurnAssumption
  <1>2. ASSUME NEW t \in 0..MaxClaudeTurns
        PROVE  /\ t * MaxMessages \in Nat /\ t * MaxMessages <= MaxClaudeTurns * MaxMessages
               /\ (t + 1) * MaxMessages = t * MaxMessages + MaxMessages
    <2>1. PICK d \in Nat : d = MaxClaudeTurns - t
      BY <1>1
    <2>2. d * MaxMessages \in Nat /\ t * MaxMessages \in Nat
      BY <1>1, <2>1
    <2>3. (t + d) * MaxMessages = t * MaxMessages + d * MaxMessages
      BY <1>1, <2>1, ProductOfSum
    <2>4. (t + 1) * MaxMessages = t * MaxMessages + MaxMessages
      <3>1. (t + 1) * MaxMessages = t * MaxMessages + 1 * MaxMessages
        BY <1>1, ProductOfSum
      <3>2. QED
        BY <1>1, <2>2, <3>1
    <2>5. QED
      BY <1>1, <2>1, <2>2, <2>3, <2>4
  <1>3. MaxClaudeTurns * MaxMessages \in Nat
    BY <1>1
  <1>4. QED
    BY <1>1, <1>2, <1>3 DEF MaxLogged

LEMMA ClaudeRecords ==
  /\ NoTally \in Tallies /\ NoAnswer \in Tellings
  /\ NoSpending \in [read : 0..MaxMessages, written : 0..MaxMessages]
  BY MessagesFit DEF NoTally, NoAnswer, NoSpending, Tallies, Tellings, Models, Bodies,
     CompactOutcomes

LEMMA ClaudeInvStarts == ClaudeInit => ClaudeInv
  <1>1. SUFFICES ASSUME ClaudeInit PROVE ClaudeInv
    OBVIOUS
  <1>2. 0 <= MaxMessages /\ 0 <= MaxLogged /\ 0 <= MaxLogged + 1
    BY MessagesFit
  <1>3. {hooked, delegated} \subseteq BOOLEAN
    BY <1>1 DEF ClaudeInit
  <1>4. ClaudeTypeOK
    <2>1. {hooked, delegated, prompted, stagedPrompt, toolsRan} \subseteq BOOLEAN
      BY <1>1, <1>3, Zenon DEF ClaudeInit
    <2>2. tally \in Tallies /\ firstOut \in Tallies /\ answer \in Tellings
          /\ usedUp \in [read : 0..MaxMessages, written : 0..MaxMessages]
      BY <1>1, ClaudeRecords, Zenon DEF ClaudeInit
    <2>3. QED
      BY <1>1, <1>2, <2>1, <2>2, MessagesFit
       DEF ClaudeInit, ClaudeTypeOK, SessionFiles, Ways, Models
  <1>5. StageFits /\ SumsFit /\ RoomFits /\ StreamTells /\ ToolsAreSeen /\ WaysFit
    BY <1>1, <1>2, MessagesFit DEF ClaudeInit, StageFits, SumsFit, RoomFits, StreamTells,
       ToolsAreSeen, WaysFit, Messages, NoTally, NoAnswer, NoSpending, Stream, Carries
  <1>6. FiguresAreTheTurns /\ ActsAreTold
    BY <1>1 DEF ClaudeInit, FiguresAreTheTurns, ActsAreTold, NoAnswer
  <1>7. QED
    BY <1>4, <1>5, <1>6 DEF ClaudeInv

LEMMA ClaudeAsksKeeps ==
  ASSUME ClaudeInv, NEW what \in {"text", "typed"}, Asks(what) PROVE ClaudeInv'
  <1>1. {hooked, delegated, prompted, stagedPrompt, toolsRan}' \subseteq BOOLEAN
    BY Zenon DEF ClaudeInv, ClaudeTypeOK, Asks, setup
  <1>2. /\ tally' \in Tallies /\ firstOut' \in Tallies /\ answer' \in Tellings
        /\ usedUp' \in [read : 0..MaxMessages, written : 0..MaxMessages]
    BY ClaudeRecords DEF ClaudeInv, ClaudeTypeOK, Asks, setup
  <1>3. ClaudeTypeOK'
    BY <1>1, <1>2, MessagesFit, ClaudeRecords DEF ClaudeInv, ClaudeTypeOK, StageFits,
       SumsFit, SessionFiles, Ways, Models, Asks, setup, WayIn
  <1>4. SumsFit' /\ RoomFits'
    BY MessagesFit, ClaudeRecords DEF ClaudeInv, ClaudeTypeOK, StageFits, SumsFit, RoomFits,
       Messages, Tallies, Asks, setup, NoTally, NoSpending
  <1>5. StageFits'
    BY MessagesFit, ClaudeRecords DEF ClaudeInv, ClaudeTypeOK, StageFits, Asks, setup,
       NoTally
  <1>6. StreamTells' /\ ToolsAreSeen'
    BY MessagesFit, ClaudeRecords DEF ClaudeInv, ClaudeTypeOK, StageFits, StreamTells,
       ToolsAreSeen, Stream, Asks, setup, NoTally
  <1>7. WaysFit'
    BY MessagesFit, ClaudeRecords DEF ClaudeInv, ClaudeTypeOK, StageFits, WaysFit, Carries,
       Asks, setup, WayIn, SessionFiles
  <1>8. FiguresAreTheTurns' /\ ActsAreTold'
    BY MessagesFit, ClaudeRecords DEF ClaudeInv, ClaudeTypeOK, StageFits,
       FiguresAreTheTurns, ActsAreTold, Messages, CostIsPartial, Asks, setup, NoAnswer,
       NoTally
  <1>9. QED
    BY <1>3, <1>4, <1>5, <1>6, <1>7, <1>8 DEF ClaudeInv

LEMMA CompactKeeps ==
  ASSUME ClaudeInv, Compact PROVE ClaudeInv'
  <1>1. {hooked, delegated, prompted, stagedPrompt, toolsRan}' \subseteq BOOLEAN
    BY Zenon DEF ClaudeInv, ClaudeTypeOK, Compact, setup
  <1>2. /\ tally' \in Tallies /\ firstOut' \in Tallies /\ answer' \in Tellings
        /\ usedUp' \in [read : 0..MaxMessages, written : 0..MaxMessages]
    BY ClaudeRecords DEF ClaudeInv, ClaudeTypeOK, Compact, setup, Tellings
  <1>3. ClaudeTypeOK'
    BY <1>1, <1>2, MessagesFit, ClaudeRecords DEF ClaudeInv, ClaudeTypeOK, StageFits,
       SumsFit, SessionFiles, Ways, Models, Compact, setup
  <1>4. SumsFit' /\ RoomFits'
    BY MessagesFit, ClaudeRecords DEF ClaudeInv, ClaudeTypeOK, StageFits, SumsFit, RoomFits,
       Messages, Tallies, Compact, setup, NoTally, NoSpending
  <1>5. StageFits'
    BY MessagesFit, ClaudeRecords DEF ClaudeInv, ClaudeTypeOK, StageFits, Compact, setup,
       NoTally
  <1>6. StreamTells' /\ ToolsAreSeen'
    BY MessagesFit, ClaudeRecords DEF ClaudeInv, ClaudeTypeOK, StageFits, StreamTells,
       ToolsAreSeen, Stream, Compact, setup, NoTally
  <1>7. WaysFit'
    BY MessagesFit, ClaudeRecords DEF ClaudeInv, ClaudeTypeOK, StageFits, WaysFit, Carries,
       Compact, setup, WayIn, SessionFiles, NoCompact
  <1>8. FiguresAreTheTurns' /\ ActsAreTold'
    BY MessagesFit, ClaudeRecords DEF ClaudeInv, ClaudeTypeOK, StageFits,
       FiguresAreTheTurns, ActsAreTold, Messages, CostIsPartial, Compact, setup, NoAnswer,
       NoTally
  <1>9. QED
    BY <1>3, <1>4, <1>5, <1>6, <1>7, <1>8 DEF ClaudeInv

LEMMA SpawnsCallKeeps ==
  ASSUME ClaudeInv, SpawnsCall PROVE ClaudeInv'
  <1>1. {hooked, delegated, prompted, stagedPrompt, toolsRan}' \subseteq BOOLEAN
    BY Zenon DEF ClaudeInv, ClaudeTypeOK, SpawnsCall, setup, sessionState, turnGhosts
  <1>2. /\ tally' \in Tallies /\ firstOut' \in Tallies /\ answer' \in Tellings
        /\ usedUp' \in [read : 0..MaxMessages, written : 0..MaxMessages]
    BY ClaudeRecords DEF ClaudeInv, ClaudeTypeOK, SpawnsCall, setup, sessionState,
       turnGhosts
  <1>3. ClaudeTypeOK'
    BY <1>1, <1>2, MessagesFit, ClaudeRecords DEF ClaudeInv, ClaudeTypeOK, StageFits,
       SumsFit, SessionFiles, Ways, Models, SpawnsCall, setup, sessionState, turnGhosts
  <1>4. SumsFit' /\ RoomFits'
    BY MessagesFit, ClaudeRecords DEF ClaudeInv, ClaudeTypeOK, StageFits, SumsFit, RoomFits,
       Messages, Tallies, SpawnsCall, setup, sessionState, turnGhosts, NoTally
  <1>5. StageFits'
    BY MessagesFit, ClaudeRecords DEF ClaudeInv, ClaudeTypeOK, StageFits, SpawnsCall, setup,
       sessionState, turnGhosts, NoTally
  <1>6. StreamTells' /\ ToolsAreSeen'
    BY MessagesFit, ClaudeRecords DEF ClaudeInv, ClaudeTypeOK, StageFits, StreamTells,
       ToolsAreSeen, Stream, SpawnsCall, setup, sessionState, turnGhosts
  <1>7. WaysFit'
    BY MessagesFit, ClaudeRecords DEF ClaudeInv, ClaudeTypeOK, StageFits, WaysFit, Carries,
       SpawnsCall, setup, sessionState, turnGhosts
  <1>8. FiguresAreTheTurns' /\ ActsAreTold'
    BY MessagesFit, ClaudeRecords DEF ClaudeInv, ClaudeTypeOK, StageFits,
       FiguresAreTheTurns, ActsAreTold, Messages, CostIsPartial, SpawnsCall, setup,
       sessionState, turnGhosts
  <1>9. QED
    BY <1>3, <1>4, <1>5, <1>6, <1>7, <1>8 DEF ClaudeInv

LEMMA TakesGateKeeps ==
  ASSUME ClaudeInv, TakesGate PROVE ClaudeInv'
  <1>1. {hooked, delegated, prompted, stagedPrompt, toolsRan}' \subseteq BOOLEAN
    BY Zenon DEF ClaudeInv, ClaudeTypeOK, TakesGate, setup, sessionState, turnGhosts
  <1>2. /\ tally' \in Tallies /\ firstOut' \in Tallies /\ answer' \in Tellings
        /\ usedUp' \in [read : 0..MaxMessages, written : 0..MaxMessages]
    BY ClaudeRecords DEF ClaudeInv, ClaudeTypeOK, TakesGate, setup, sessionState, turnGhosts
  <1>3. ClaudeTypeOK'
    BY <1>1, <1>2, MessagesFit, ClaudeRecords DEF ClaudeInv, ClaudeTypeOK, StageFits,
       SumsFit, SessionFiles, Ways, Models, TakesGate, setup, sessionState, turnGhosts
  <1>4. SumsFit' /\ RoomFits'
    BY MessagesFit, ClaudeRecords DEF ClaudeInv, ClaudeTypeOK, StageFits, SumsFit, RoomFits,
       Messages, Tallies, TakesGate, setup, sessionState, turnGhosts, NoTally
  <1>5. StageFits'
    BY MessagesFit, ClaudeRecords DEF ClaudeInv, ClaudeTypeOK, StageFits, TakesGate, setup,
       sessionState, turnGhosts, NoTally
  <1>6. StreamTells' /\ ToolsAreSeen'
    BY MessagesFit, ClaudeRecords DEF ClaudeInv, ClaudeTypeOK, StageFits, StreamTells,
       ToolsAreSeen, Stream, TakesGate, setup, sessionState, turnGhosts
  <1>7. WaysFit'
    BY MessagesFit, ClaudeRecords DEF ClaudeInv, ClaudeTypeOK, StageFits, WaysFit, Carries,
       TakesGate, setup, sessionState, turnGhosts
  <1>8. FiguresAreTheTurns' /\ ActsAreTold'
    BY MessagesFit, ClaudeRecords DEF ClaudeInv, ClaudeTypeOK, StageFits,
       FiguresAreTheTurns, ActsAreTold, Messages, CostIsPartial, TakesGate, setup,
       sessionState, turnGhosts
  <1>9. QED
    BY <1>3, <1>4, <1>5, <1>6, <1>7, <1>8 DEF ClaudeInv

LEMMA NeighbourTakesGateKeeps ==
  ASSUME ClaudeInv, NeighbourTakesGate PROVE ClaudeInv'
  <1>1. {hooked, delegated, prompted, stagedPrompt, toolsRan}' \subseteq BOOLEAN
    BY Zenon DEF ClaudeInv, ClaudeTypeOK, NeighbourTakesGate, setup, sessionState,
       turnGhosts
  <1>2. /\ tally' \in Tallies /\ firstOut' \in Tallies /\ answer' \in Tellings
        /\ usedUp' \in [read : 0..MaxMessages, written : 0..MaxMessages]
    BY ClaudeRecords DEF ClaudeInv, ClaudeTypeOK, NeighbourTakesGate, setup, sessionState,
       turnGhosts
  <1>3. ClaudeTypeOK'
    BY <1>1, <1>2, MessagesFit, ClaudeRecords DEF ClaudeInv, ClaudeTypeOK, StageFits,
       SumsFit, SessionFiles, Ways, Models, NeighbourTakesGate, setup, sessionState,
       turnGhosts
  <1>4. SumsFit' /\ RoomFits'
    BY MessagesFit, ClaudeRecords DEF ClaudeInv, ClaudeTypeOK, StageFits, SumsFit, RoomFits,
       Messages, Tallies, NeighbourTakesGate, setup, sessionState, turnGhosts, NoTally
  <1>5. StageFits'
    BY MessagesFit, ClaudeRecords DEF ClaudeInv, ClaudeTypeOK, StageFits,
       NeighbourTakesGate, setup, sessionState, turnGhosts, NoTally
  <1>6. StreamTells' /\ ToolsAreSeen'
    BY MessagesFit, ClaudeRecords DEF ClaudeInv, ClaudeTypeOK, StageFits, StreamTells,
       ToolsAreSeen, Stream, NeighbourTakesGate, setup, sessionState, turnGhosts
  <1>7. WaysFit'
    BY MessagesFit, ClaudeRecords DEF ClaudeInv, ClaudeTypeOK, StageFits, WaysFit, Carries,
       NeighbourTakesGate, setup, sessionState, turnGhosts
  <1>8. FiguresAreTheTurns' /\ ActsAreTold'
    BY MessagesFit, ClaudeRecords DEF ClaudeInv, ClaudeTypeOK, StageFits,
       FiguresAreTheTurns, ActsAreTold, Messages, CostIsPartial, NeighbourTakesGate, setup,
       sessionState, turnGhosts
  <1>9. QED
    BY <1>3, <1>4, <1>5, <1>6, <1>7, <1>8 DEF ClaudeInv

LEMMA GateTimerKeeps ==
  ASSUME ClaudeInv, GateTimer PROVE ClaudeInv'
  <1>1. {hooked, delegated, prompted, stagedPrompt, toolsRan}' \subseteq BOOLEAN
    BY Zenon DEF ClaudeInv, ClaudeTypeOK, GateTimer, setup, sessionState, turnGhosts
  <1>2. /\ tally' \in Tallies /\ firstOut' \in Tallies /\ answer' \in Tellings
        /\ usedUp' \in [read : 0..MaxMessages, written : 0..MaxMessages]
    BY ClaudeRecords DEF ClaudeInv, ClaudeTypeOK, GateTimer, setup, sessionState, turnGhosts
  <1>3. ClaudeTypeOK'
    BY <1>1, <1>2, MessagesFit, ClaudeRecords DEF ClaudeInv, ClaudeTypeOK, StageFits,
       SumsFit, SessionFiles, Ways, Models, GateTimer, setup, sessionState, turnGhosts
  <1>4. SumsFit' /\ RoomFits'
    BY MessagesFit, ClaudeRecords DEF ClaudeInv, ClaudeTypeOK, StageFits, SumsFit, RoomFits,
       Messages, Tallies, GateTimer, setup, sessionState, turnGhosts, NoTally
  <1>5. StageFits'
    BY MessagesFit, ClaudeRecords DEF ClaudeInv, ClaudeTypeOK, StageFits, GateTimer, setup,
       sessionState, turnGhosts, NoTally
  <1>6. StreamTells' /\ ToolsAreSeen'
    BY MessagesFit, ClaudeRecords DEF ClaudeInv, ClaudeTypeOK, StageFits, StreamTells,
       ToolsAreSeen, Stream, GateTimer, setup, sessionState, turnGhosts
  <1>7. WaysFit'
    BY MessagesFit, ClaudeRecords DEF ClaudeInv, ClaudeTypeOK, StageFits, WaysFit, Carries,
       GateTimer, setup, sessionState, turnGhosts
  <1>8. FiguresAreTheTurns' /\ ActsAreTold'
    BY MessagesFit, ClaudeRecords DEF ClaudeInv, ClaudeTypeOK, StageFits,
       FiguresAreTheTurns, ActsAreTold, Messages, CostIsPartial, GateTimer, setup,
       sessionState, turnGhosts
  <1>9. QED
    BY <1>3, <1>4, <1>5, <1>6, <1>7, <1>8 DEF ClaudeInv

LEMMA ToolAnswersKeeps ==
  ASSUME ClaudeInv, ToolAnswers PROVE ClaudeInv'
  <1>1. {hooked, delegated, prompted, stagedPrompt, toolsRan}' \subseteq BOOLEAN
    BY Zenon DEF ClaudeInv, ClaudeTypeOK, ToolAnswers, setup, turnGhosts
  <1>2. /\ tally' \in Tallies /\ firstOut' \in Tallies /\ answer' \in Tellings
        /\ usedUp' \in [read : 0..MaxMessages, written : 0..MaxMessages]
    BY ClaudeRecords DEF ClaudeInv, ClaudeTypeOK, ToolAnswers, setup, turnGhosts
  <1>3. ClaudeTypeOK'
    BY <1>1, <1>2, MessagesFit, ClaudeRecords DEF ClaudeInv, ClaudeTypeOK, StageFits,
       SumsFit, SessionFiles, Ways, Models, ToolAnswers, setup, turnGhosts
  <1>4. SumsFit' /\ RoomFits'
    BY MessagesFit, ClaudeRecords DEF ClaudeInv, ClaudeTypeOK, StageFits, SumsFit, RoomFits,
       Messages, Tallies, ToolAnswers, setup, turnGhosts, NoTally
  <1>5. StageFits'
    BY MessagesFit, ClaudeRecords DEF ClaudeInv, ClaudeTypeOK, StageFits, ToolAnswers,
       setup, turnGhosts
  <1>6. StreamTells' /\ ToolsAreSeen'
    BY MessagesFit, ClaudeRecords DEF ClaudeInv, ClaudeTypeOK, StageFits, StreamTells,
       ToolsAreSeen, Stream, ToolAnswers, setup, turnGhosts
  <1>7. WaysFit'
    BY MessagesFit, ClaudeRecords DEF ClaudeInv, ClaudeTypeOK, StageFits, WaysFit, Carries,
       ToolAnswers, setup, turnGhosts
  <1>8. FiguresAreTheTurns' /\ ActsAreTold'
    BY MessagesFit, ClaudeRecords DEF ClaudeInv, ClaudeTypeOK, StageFits,
       FiguresAreTheTurns, ActsAreTold, Messages, CostIsPartial, ToolAnswers, setup,
       turnGhosts, NoAnswer
  <1>9. QED
    BY <1>3, <1>4, <1>5, <1>6, <1>7, <1>8 DEF ClaudeInv

LEMMA CliLeavesEmptyKeeps ==
  ASSUME ClaudeInv, CliLeavesEmpty PROVE ClaudeInv'
  <1>1. {hooked, delegated, prompted, stagedPrompt, toolsRan}' \subseteq BOOLEAN
    BY Zenon DEF ClaudeInv, ClaudeTypeOK, CliLeavesEmpty, setup, turnGhosts
  <1>2. /\ tally' \in Tallies /\ firstOut' \in Tallies /\ answer' \in Tellings
        /\ usedUp' \in [read : 0..MaxMessages, written : 0..MaxMessages]
    BY ClaudeRecords DEF ClaudeInv, ClaudeTypeOK, CliLeavesEmpty, setup, turnGhosts
  <1>3. ClaudeTypeOK'
    BY <1>1, <1>2, MessagesFit, ClaudeRecords DEF ClaudeInv, ClaudeTypeOK, StageFits,
       SumsFit, SessionFiles, Ways, Models, CliLeavesEmpty, setup, turnGhosts
  <1>4. SumsFit' /\ RoomFits'
    BY MessagesFit, ClaudeRecords DEF ClaudeInv, ClaudeTypeOK, StageFits, SumsFit, RoomFits,
       Messages, Tallies, CliLeavesEmpty, setup, turnGhosts, NoTally
  <1>5. StageFits'
    BY MessagesFit, ClaudeRecords DEF ClaudeInv, ClaudeTypeOK, StageFits, CliLeavesEmpty,
       setup, turnGhosts
  <1>6. StreamTells' /\ ToolsAreSeen'
    BY MessagesFit, ClaudeRecords DEF ClaudeInv, ClaudeTypeOK, StageFits, StreamTells,
       ToolsAreSeen, Stream, CliLeavesEmpty, setup, turnGhosts
  <1>7. WaysFit'
    BY MessagesFit, ClaudeRecords DEF ClaudeInv, ClaudeTypeOK, StageFits, WaysFit, Carries,
       CliLeavesEmpty, setup, turnGhosts
  <1>8. FiguresAreTheTurns' /\ ActsAreTold'
    BY MessagesFit, ClaudeRecords DEF ClaudeInv, ClaudeTypeOK, StageFits,
       FiguresAreTheTurns, ActsAreTold, Messages, CostIsPartial, CliLeavesEmpty, setup,
       turnGhosts, NoAnswer
  <1>9. QED
    BY <1>3, <1>4, <1>5, <1>6, <1>7, <1>8 DEF ClaudeInv

\* What the turn is answered with is what its calls found.
LEMMA OutputFits ==
  ASSUME ClaudeInv, callStage = "running"
  PROVE  /\ Output \in [tools : BOOLEAN, text : BOOLEAN, last : 0..MaxLogged, model : Models,
                        compact : CompactOutcomes, body : {"none", "words", "block"},
                        read : Nat, written : Nat]
         /\ Stream => Output.read = usedUp.read
         /\ ~CostIsPartial => Output.read + Output.written = Messages
         /\ Output.read + Output.written <= Messages
         /\ Stream /\ lastBy # "none" => Output.model = lastBy
  <1>1. tally \in Tallies /\ firstOut \in Tallies
    BY DEF ClaudeInv, ClaudeTypeOK
  <1>2. CASE callsMade = 2 /\ Stream
    <2>1. Output = Merged(firstOut, tally)
      BY <1>2 DEF Output
    <2>2. Merged(firstOut, tally) \in
            [tools : BOOLEAN, text : BOOLEAN, last : 0..MaxLogged, model : Models,
             compact : CompactOutcomes, body : {"none", "words", "block"},
             read : Nat, written : Nat]
      <3>1. PICK tools \in BOOLEAN, text \in BOOLEAN :
              tools = (firstOut.tools \/ tally.tools) /\ text = (firstOut.text \/ tally.text)
        BY <1>1 DEF Tallies
      <3>2. PICK model \in Models, read \in Nat, written \in Nat :
              /\ model = (IF tally.model = "none" THEN firstOut.model ELSE tally.model)
              /\ read = firstOut.read + tally.read
              /\ written = (IF claudeMode = "ollama" THEN 0
                            ELSE firstOut.written + tally.written)
        BY <1>1, MessagesFit DEF Tallies
      <3>3. Merged(firstOut, tally) =
              [tally EXCEPT !.tools = tools, !.read = read, !.written = written,
                            !.text = text, !.model = model]
        BY <3>1, <3>2, Zenon DEF Merged
      <3>4. QED
        BY <1>1, <3>3, MessagesFit DEF Tallies
    <2>3. /\ Merged(firstOut, tally).read = firstOut.read + tally.read
          /\ Merged(firstOut, tally).written =
               (IF claudeMode = "ollama" THEN 0 ELSE firstOut.written + tally.written)
          /\ Merged(firstOut, tally).model =
               (IF tally.model = "none" THEN firstOut.model ELSE tally.model)
      BY <1>1 DEF Merged, Tallies
    <2>4. QED
      BY <1>1, <1>2, <2>1, <2>2, <2>3, MessagesFit DEF ClaudeInv, ClaudeTypeOK, SumsFit,
         StreamTells, CostIsPartial, Messages, Stream, Modes, Tallies
  <1>3. CASE ~(callsMade = 2 /\ Stream)
    <2>1. Output = tally
      BY <1>3 DEF Output
    <2>2. Stream => firstOut = NoTally
      BY <1>3 DEF ClaudeInv, StageFits
    <2>3. callsMade # 2 => firstOut = NoTally
      BY DEF ClaudeInv, StageFits
    <2>4. QED
      BY <1>1, <1>3, <2>1, <2>2, <2>3, MessagesFit DEF ClaudeInv, ClaudeTypeOK, SumsFit,
         StreamTells, CostIsPartial, Messages, Stream, Modes, Tallies, NoTally
  <1>4. QED
    BY <1>2, <1>3

\* However a turn ends, what it leaves to the next is as it was.
LEMMA EndKeeps ==
  ASSUME ClaudeInv, EndsTurn, callStage # "idle", answer' \in Tellings,
         FiguresAreTheTurns', ActsAreTold'
  PROVE  ClaudeInv'
  <1>1. {hooked, delegated, prompted, stagedPrompt, toolsRan}' \subseteq BOOLEAN
    BY Zenon DEF ClaudeInv, ClaudeTypeOK, EndsTurn, setup, sessionState, turnGhosts
  <1>2. ClaudeTypeOK'
    BY <1>1 DEF ClaudeInv, ClaudeTypeOK, EndsTurn, setup, sessionState, turnGhosts
  <1>3. SumsFit' /\ RoomFits' /\ StageFits'
    BY DEF ClaudeInv, SumsFit, RoomFits, StageFits, Messages, EndsTurn, setup, sessionState,
       turnGhosts
  <1>4. StreamTells' /\ ToolsAreSeen' /\ WaysFit'
    BY DEF ClaudeInv, StreamTells, ToolsAreSeen, WaysFit, Stream, EndsTurn, setup,
       sessionState, turnGhosts
  <1>5. QED
    BY <1>2, <1>3, <1>4 DEF ClaudeInv

LEMMA SucceedsKeeps ==
  ASSUME ClaudeInv, NEW b \in {"none", "words", "block"}, NEW readable \in BOOLEAN,
         NEW m \in Models, Succeeds(b, readable, m)
  PROVE  ClaudeInv'
  <1>1. /\ EndsTurn /\ callStage = "running" /\ m \in ModelOf(Output, readable)
        /\ UNCHANGED <<callsMade, claudeMode, usedUp, talk, lastBy, loggedCalls, loggedResults,
                       toolsRan>>
    BY DEF Succeeds, EndsTurn, setup, sessionState, turnGhosts
  <1>2. CASE answer' = [NoAnswer EXCEPT !.kind = "reply", !.body = "compaction"]
    <2>1. answer' \in Tellings
      BY <1>2, ClaudeRecords DEF Tellings, Bodies
    <2>2. FiguresAreTheTurns' /\ ActsAreTold'
      BY <1>2 DEF FiguresAreTheTurns, ActsAreTold, NoAnswer
    <2>3. QED
      BY <1>1, <2>1, <2>2, EndKeeps
  <1>3. CASE Replies(Body([Output EXCEPT !.body = b]), readable, m)
    <2>1. PICK body \in {"none", "words", "block", "notice"} :
                 body = Body([Output EXCEPT !.body = b])
      BY <1>1, OutputFits DEF Body
    <2>2. PICK tokens \in 0..MaxLogged : /\ tokens = TurnTokens(Output, readable)
                                         /\ Stream \/ Measured(readable) => tokens = usedUp.read
      <3>1. logged \in 0..MaxLogged /\ usedUp.read \in 0..MaxLogged
        BY <1>1, MessagesFit DEF ClaudeInv, ClaudeTypeOK, SumsFit, Messages
      <3>2. QED
        BY <1>1, <3>1, OutputFits DEF TurnTokens, Measured
    <2>3. PICK cost \in 0..MaxMessages :
            /\ cost = Priced(Output) /\ cost <= Messages
            /\ ~CostIsPartial => cost = Messages
      BY <1>1, OutputFits, MessagesFit DEF Priced, ClaudeInv, SumsFit, ClaudeTypeOK, Messages
    <2>4. PICK ctx \in 0..(MaxLogged + 1) : ctx = Context /\ ctx <= talk
      BY <1>1, MessagesFit DEF Context, ClaudeInv, ClaudeTypeOK, SumsFit, Tallies
    <2>5. (Stream \/ Measured(readable)) => (lastBy # "none" => m = lastBy)
      BY <1>1, OutputFits DEF ModelOf, Measured
    <2>6. PICK sure \in BOOLEAN : sure = (Stream \/ Measured(readable))
      BY DEF Stream, Measured
    <2>7. PICK tools \in BOOLEAN : tools = Output.tools
      BY <1>1, OutputFits
    <2>8. answer' = [NoAnswer EXCEPT !.kind = "reply", !.body = body, !.tokens = tokens,
                       !.measured = sure, !.cost = cost, !.model = m, !.ctx = ctx,
                       !.tools = tools]
      BY <1>3, <2>1, <2>2, <2>3, <2>4, <2>6, <2>7, Zenon DEF Replies
    <2>9. answer' \in Tellings
      BY <2>8, ClaudeRecords DEF Tellings, Bodies
    <2>10. /\ answer'.kind = "reply" /\ answer'.tokens = tokens /\ answer'.cost = cost
           /\ answer'.ctx = ctx /\ answer'.model = m /\ answer'.measured = sure
      BY <2>8 DEF NoAnswer
    <2>11. FiguresAreTheTurns'
      BY <1>1, <2>2, <2>3, <2>4, <2>5, <2>6, <2>10
         DEF FiguresAreTheTurns, CostIsPartial, Messages
    <2>12. ActsAreTold'
      BY <2>10 DEF ActsAreTold
    <2>13. QED
      BY <1>1, <2>9, <2>11, <2>12, EndKeeps
  <1>4. QED
    BY <1>2, <1>3 DEF Succeeds

LEMMA ExhaustedKeeps ==
  ASSUME ClaudeInv, Exhausted PROVE ClaudeInv'
  <1>1. PICK tools \in BOOLEAN : tools = (prompting # "compact" /\ Started)
    BY DEF Started, Stream, ClaudeInv, ClaudeTypeOK, Tallies
  <1>2. PICK ready \in BOOLEAN : ready = (prompting # "compact" /\ Ready)
    OBVIOUS
  <1>3. answer' = [NoAnswer EXCEPT !.kind = "exhausted", !.tools = tools, !.ready = ready]
    BY <1>1, <1>2, Zenon DEF Exhausted
  <1>4. answer' \in Tellings
    BY <1>3, ClaudeRecords DEF Tellings
  <1>5. answer'.kind = "exhausted" /\ answer'.tools = tools /\ answer'.ready = ready
    BY <1>3 DEF NoAnswer
  <1>6. EndsTurn /\ callStage = "running"
        /\ UNCHANGED <<toolsRan, loggedCalls, loggedResults>>
    BY DEF Exhausted, EndsTurn, sessionState, turnGhosts
  <1>7. toolsRan => tools
    BY <1>1, <1>6 DEF ClaudeInv, ToolsAreSeen, Started
  <1>8. ready => loggedCalls > 0 /\ loggedResults = loggedCalls
    BY <1>2 DEF Ready
  <1>9. FiguresAreTheTurns' /\ ActsAreTold'
    BY <1>5, <1>6, <1>7, <1>8 DEF FiguresAreTheTurns, ActsAreTold
  <1>10. QED
    BY <1>4, <1>6, <1>9, EndKeeps

LEMMA OtherEndsKeep ==
  ASSUME ClaudeInv, CompactReturns \/ CallFails PROVE ClaudeInv'
  <1>1. EndsTurn /\ callStage # "idle"
    BY DEF CompactReturns, CallFails
  <1>2. \/ answer' = [NoAnswer EXCEPT !.kind = "failed"]
        \/ \E body \in {"compaction", "none"} :
              answer' = [NoAnswer EXCEPT !.kind = "compaction", !.body = body]
    BY DEF CompactReturns, CallFails
  <1>3. answer' \in Tellings
    <2>1. NoAnswer \in Tellings
      BY ClaudeRecords
    <2>2. [NoAnswer EXCEPT !.kind = "failed"] \in Tellings
      BY <2>1 DEF Tellings
    <2>3. \A body \in {"compaction", "none"} :
             [NoAnswer EXCEPT !.kind = "compaction", !.body = body] \in Tellings
      BY <2>1 DEF Tellings, Bodies
    <2>4. QED
      BY <1>2, <2>2, <2>3, Zenon
  <1>4. answer'.kind \in {"failed", "compaction"}
    BY <1>2 DEF NoAnswer
  <1>5. FiguresAreTheTurns' /\ ActsAreTold'
    BY <1>4 DEF FiguresAreTheTurns, ActsAreTold
  <1>6. QED
    BY <1>1, <1>3, <1>5, EndKeeps

\* What a message adds to the fold.
LEMMA FoldFits ==
  ASSUME ClaudeInv, NEW kind \in {"words", "tool", "block"}, NEW m \in {"main", "alt"},
         NEW cold \in BOOLEAN, CliSays(kind, m, cold)
  PROVE  \E r \in {0, 1} :
           /\ usedUp' = [read |-> usedUp.read + r, written |-> usedUp.written + 1 - r]
           /\ tally' \in Tallies
           /\ tally'.read = tally.read + r /\ tally'.written = tally.written + 1 - r
           /\ tally'.last = (IF Stream THEN talk + 1 ELSE tally.last)
           /\ tally'.model = (IF Stream THEN m ELSE tally.model)
           /\ tally'.tools = (IF Stream THEN tally.tools \/ kind = "tool" ELSE tally.tools)
           /\ tally'.compact = tally.compact
  <1>1. PICK r \in {0, 1} :
          /\ usedUp' = [read |-> usedUp.read + r, written |-> usedUp.written + 1 - r]
          /\ tally' = [FoldOwn(tally, kind, m) EXCEPT !.read = @ + r, !.written = @ + 1 - r]
    BY DEF CliSays
  <1>2. /\ tally \in Tallies /\ talk \in Nat /\ talk < MaxLogged
        /\ tally.read + tally.written < MaxMessages
    BY MessagesFit DEF ClaudeInv, ClaudeTypeOK, SumsFit, CliSays, Messages, Tallies
  <1>3. PICK read \in 0..MaxMessages, written \in 0..MaxMessages :
               read = tally.read + r /\ written = tally.written + 1 - r
    BY <1>2, MessagesFit DEF Tallies
  <1>4. CASE ~Stream
    <2>1. tally' = [tally EXCEPT !.read = read, !.written = written]
      BY <1>1, <1>3, <1>4 DEF FoldOwn, Stream
    <2>2. tally' \in Tallies
      BY <1>2, <2>1 DEF Tallies
    <2>3. QED
      BY <1>1, <1>2, <1>3, <1>4, <2>1, <2>2 DEF Tallies
  <1>5. CASE Stream
    <2>1. PICK text \in BOOLEAN, tools \in BOOLEAN :
             text = (tally.text \/ kind = "words") /\ tools = (tally.tools \/ kind = "tool")
      BY <1>2 DEF Tallies
    <2>2. PICK body \in {"none", "words", "block"} :
             body = (IF kind = "tool" THEN "none" ELSE kind)
      OBVIOUS
    <2>3. Fold(tally, kind, m) = [tally EXCEPT !.last = talk + 1, !.model = m, !.text = text,
                                              !.tools = tools, !.body = body]
      BY <2>1, <2>2, Zenon DEF Fold
    <2>4. PICK last \in 0..MaxLogged : last = talk + 1
      BY <1>2, MessagesFit
    <2>5. tally' = [tally EXCEPT !.last = last, !.model = m, !.text = text, !.tools = tools,
                                 !.body = body, !.read = read, !.written = written]
      BY <1>1, <1>2, <1>3, <1>5, <2>3, <2>4 DEF FoldOwn, Stream, Tallies
    <2>6. tally' \in Tallies
      BY <1>2, <2>5 DEF Tallies, Models
    <2>7. QED
      BY <1>1, <1>2, <1>3, <1>5, <2>1, <2>4, <2>5, <2>6 DEF Tallies
  <1>6. QED
    BY <1>4, <1>5

LEMMA CliSaysKeeps ==
  ASSUME ClaudeInv, NEW kind \in {"words", "tool", "block"}, NEW m \in {"main", "alt"},
         NEW cold \in BOOLEAN, CliSays(kind, m, cold)
  PROVE  ClaudeInv'
  <1>1. PICK r \in {0, 1} :
          /\ usedUp' = [read |-> usedUp.read + r, written |-> usedUp.written + 1 - r]
          /\ tally' \in Tallies
          /\ tally'.read = tally.read + r /\ tally'.written = tally.written + 1 - r
          /\ tally'.last = (IF Stream THEN talk + 1 ELSE tally.last)
          /\ tally'.model = (IF Stream THEN m ELSE tally.model)
          /\ tally'.tools = (IF Stream THEN tally.tools \/ kind = "tool" ELSE tally.tools)
          /\ tally'.compact = tally.compact
    BY FoldFits
  <1>2. /\ {claudeMode, hooked, delegated} = {claudeMode', hooked', delegated'}
        /\ UNCHANGED <<claudeMode, hooked, delegated>>
        /\ UNCHANGED <<handed, loggedResults, stagedPrompt, callStage, prompting, way, offset,
                       firstOut, callsMade, gate, turnsBegun, answer>>
        /\ callStage = "running" /\ prompting # "compact" /\ ~CannotRun
        /\ talk < MaxLogged /\ Messages < MaxMessages
        /\ lastBy' = m /\ talk' = talk + 1 /\ logged' = logged + 1
        /\ loggedCalls' = loggedCalls + (IF kind = "tool" THEN 1 ELSE 0)
        /\ sessionFile' = "content"
    BY DEF CliSays, setup
  <1>3. {hooked, delegated, prompted, stagedPrompt, toolsRan}' \subseteq BOOLEAN
    <2>1. prompted' \in BOOLEAN /\ toolsRan' \in BOOLEAN
      BY DEF CliSays, ClaudeInv, ClaudeTypeOK
    <2>2. QED
      BY <1>2, <2>1 DEF ClaudeInv, ClaudeTypeOK
  <1>4. Messages' = Messages + 1 /\ Messages \in Nat
        /\ usedUp'.read = usedUp.read + r /\ usedUp'.written = usedUp.written + 1 - r
    BY <1>1 DEF Messages, ClaudeInv, ClaudeTypeOK
  <1>5. SumsFit' /\ RoomFits'
    <2>1. SumsFit'
      BY <1>1, <1>2, <1>4, MessagesFit DEF ClaudeInv, ClaudeTypeOK, SumsFit, Tallies
    <2>2. RoomFits'
      BY <1>2 DEF ClaudeInv, StageFits, RoomFits
    <2>3. QED
      BY <2>1, <2>2
  <1>6. logged' <= MaxLogged
    BY <1>2, <1>4, <1>5, MessagesFit DEF ClaudeInv, ClaudeTypeOK, SumsFit, RoomFits
  <1>7. usedUp' \in [read : 0..MaxMessages, written : 0..MaxMessages]
    <2>1. PICK x \in 0..MaxMessages, y \in 0..MaxMessages :
             x = usedUp.read + r /\ y = usedUp.written + 1 - r
      BY <1>2, MessagesFit DEF ClaudeInv, ClaudeTypeOK, Messages
    <2>2. usedUp' = [read |-> x, written |-> y]
      BY <1>1, <2>1
    <2>3. QED
      BY <2>2
  <1>8. loggedCalls' \in 0..MaxMessages
    BY <1>2, <1>4, MessagesFit DEF ClaudeInv, ClaudeTypeOK, SumsFit
  <1>9. ClaudeTypeOK'
    BY <1>1, <1>2, <1>3, <1>6, <1>7, <1>8, MessagesFit
       DEF ClaudeInv, ClaudeTypeOK, SessionFiles, Models
  <1>10. StageFits'
    BY <1>1, <1>2 DEF ClaudeInv, StageFits
  <1>11. StreamTells' /\ ToolsAreSeen'
    <2>1. StreamTells'
      BY <1>1, <1>2 DEF StreamTells, Stream
    <2>2. toolsRan' = (toolsRan \/ kind = "tool")
      BY DEF CliSays
    <2>3. ToolsAreSeen'
      BY <1>1, <1>2, <2>2 DEF ClaudeInv, ToolsAreSeen, Stream
    <2>4. QED
      BY <2>1, <2>3
  <1>12. WaysFit'
    <2>1. prompted'
      <3>1. CASE sessionFile = "content"
        BY <3>1 DEF CliSays, ClaudeInv, WaysFit
      <3>2. CASE sessionFile # "content"
        BY <1>2, <3>2 DEF CliSays, Supplied, CannotRun, ClaudeInv, ClaudeTypeOK, StageFits,
           WaysFit, Carries
      <3>3. QED
        BY <3>1, <3>2
    <2>2. QED
      BY <1>2, <2>1 DEF ClaudeInv, WaysFit, Carries
  <1>13. FiguresAreTheTurns' /\ ActsAreTold'
    BY <1>2 DEF ClaudeInv, StageFits, FiguresAreTheTurns, ActsAreTold, NoAnswer
  <1>14. QED
    BY <1>5, <1>9, <1>10, <1>11, <1>12, <1>13 DEF ClaudeInv

LEMMA CliCompactsKeeps ==
  ASSUME ClaudeInv, NEW came \in {"success", "error"}, CliCompacts(came) PROVE ClaudeInv'
  <1>1. {hooked, delegated, prompted, stagedPrompt, toolsRan}' \subseteq BOOLEAN
    BY Zenon DEF ClaudeInv, ClaudeTypeOK, CliCompacts, Compacting, setup, turnGhosts
  <1>2. /\ tally' \in Tallies /\ firstOut' \in Tallies /\ answer' \in Tellings
        /\ usedUp' \in [read : 0..MaxMessages, written : 0..MaxMessages]
    BY ClaudeRecords DEF ClaudeInv, ClaudeTypeOK, CliCompacts, Compacting, setup,
       turnGhosts, Tallies, CompactOutcomes
  <1>3. ClaudeTypeOK'
    BY <1>1, <1>2, MessagesFit, ClaudeRecords DEF ClaudeInv, ClaudeTypeOK, StageFits,
       SumsFit, SessionFiles, Ways, Models, CliCompacts, Compacting, setup, turnGhosts
  <1>4. SumsFit' /\ RoomFits'
    <2>1. /\ tally'.read = tally.read /\ tally'.written = tally.written
          /\ tally'.last = tally.last
      BY DEF CliCompacts, ClaudeInv, ClaudeTypeOK, Tallies
    <2>2. tally.last = 0
      <3>1. usedUp.read + usedUp.written = 0
        BY DEF CliCompacts, Compacting, Messages
      <3>2. /\ usedUp.read \in Nat /\ usedUp.written \in Nat /\ tally.last \in Nat
            /\ tally.read \in Nat /\ tally.written \in Nat
            /\ firstOut.read \in Nat /\ firstOut.written \in Nat
        BY MessagesFit DEF ClaudeInv, ClaudeTypeOK, Tallies
      <3>3. /\ usedUp.read = firstOut.read + tally.read
            /\ usedUp.written = firstOut.written + tally.written
            /\ tally.last > 0 => tally.read + tally.written > 0
        BY DEF ClaudeInv, SumsFit
      <3>4. \A a, b, c, d, n \in Nat :
              (a + c) + (b + d) = 0 /\ (n > 0 => c + d > 0) => n = 0
        OBVIOUS
      <3>5. (firstOut.read + tally.read) + (firstOut.written + tally.written) = 0
        BY <3>1, <3>3, Zenon
      <3>6. QED
        BY <3>2, <3>3, <3>4, <3>5
    <2>3. /\ UNCHANGED <<usedUp, firstOut, logged, loggedResults, loggedCalls, offset, handed,
                         turnsBegun>>
          /\ talk' \in Nat
      BY MessagesFit DEF CliCompacts, ClaudeInv, ClaudeTypeOK, turnGhosts
    <2>4. QED
      BY <2>1, <2>2, <2>3 DEF ClaudeInv, SumsFit, RoomFits, Messages
  <1>5. StageFits'
    BY MessagesFit, ClaudeRecords DEF ClaudeInv, ClaudeTypeOK, StageFits, CliCompacts,
       Compacting, setup, turnGhosts
  <1>6. StreamTells' /\ ToolsAreSeen'
    BY MessagesFit, ClaudeRecords DEF ClaudeInv, ClaudeTypeOK, StageFits, StreamTells,
       ToolsAreSeen, Stream, CliCompacts, Compacting, setup, turnGhosts, Tallies
  <1>7. WaysFit'
    BY MessagesFit, ClaudeRecords DEF ClaudeInv, ClaudeTypeOK, StageFits, WaysFit, Carries,
       CliCompacts, Compacting, setup, turnGhosts
  <1>8. FiguresAreTheTurns' /\ ActsAreTold'
    BY MessagesFit, ClaudeRecords DEF ClaudeInv, ClaudeTypeOK, StageFits,
       FiguresAreTheTurns, ActsAreTold, Messages, CostIsPartial, CliCompacts, Compacting,
       setup, turnGhosts, NoAnswer
  <1>9. QED
    BY <1>3, <1>4, <1>5, <1>6, <1>7, <1>8 DEF ClaudeInv

LEMMA NudgeKeeps ==
  ASSUME ClaudeInv, NEW b \in {"none", "words", "block"}, Nudge(b) PROVE ClaudeInv'
  <1>1. {hooked, delegated, prompted, stagedPrompt, toolsRan}' \subseteq BOOLEAN
    BY Zenon DEF ClaudeInv, ClaudeTypeOK, Nudge, Asked2, setup, sessionState, turnGhosts
  <1>2. /\ tally' \in Tallies /\ firstOut' \in Tallies /\ answer' \in Tellings
        /\ usedUp' \in [read : 0..MaxMessages, written : 0..MaxMessages]
    BY ClaudeRecords DEF ClaudeInv, ClaudeTypeOK, Nudge, Asked2, setup, sessionState,
       turnGhosts
  <1>3. ClaudeTypeOK'
    BY <1>1, <1>2, MessagesFit, ClaudeRecords DEF ClaudeInv, ClaudeTypeOK, StageFits,
       SumsFit, SessionFiles, Ways, Models, Nudge, Asked2, setup, sessionState, turnGhosts
  <1>4. SumsFit' /\ RoomFits'
    BY MessagesFit, ClaudeRecords DEF ClaudeInv, ClaudeTypeOK, StageFits, SumsFit, RoomFits,
       Messages, Tallies, Nudge, Asked2, setup, sessionState, turnGhosts, NoTally
  <1>5. StageFits'
    BY MessagesFit, ClaudeRecords DEF ClaudeInv, ClaudeTypeOK, StageFits, Nudge, Asked2,
       setup, sessionState, turnGhosts
  <1>6. StreamTells' /\ ToolsAreSeen'
    BY MessagesFit, ClaudeRecords DEF ClaudeInv, ClaudeTypeOK, StageFits, StreamTells,
       ToolsAreSeen, Stream, Nudge, Asked2, setup, sessionState, turnGhosts, NoTally
  <1>7. WaysFit'
    BY MessagesFit, ClaudeRecords DEF ClaudeInv, ClaudeTypeOK, StageFits, WaysFit, Carries,
       Nudge, Asked2, setup, sessionState, turnGhosts
  <1>8. FiguresAreTheTurns' /\ ActsAreTold'
    BY MessagesFit, ClaudeRecords DEF ClaudeInv, ClaudeTypeOK, StageFits,
       FiguresAreTheTurns, ActsAreTold, Messages, CostIsPartial, Nudge, Asked2, setup,
       sessionState, turnGhosts, NoAnswer
  <1>9. QED
    BY <1>3, <1>4, <1>5, <1>6, <1>7, <1>8 DEF ClaudeInv

LEMMA ClaudeInvKept == ClaudeInv /\ [ClaudeNext]_claudeVars => ClaudeInv'
  <1>1. SUFFICES ASSUME ClaudeInv, [ClaudeNext]_claudeVars PROVE ClaudeInv'
    OBVIOUS
  <1>2. CASE AsksText \/ AsksCompactText
    BY <1>1, <1>2, ClaudeAsksKeeps DEF AsksText, AsksCompactText
  <1>3. CASE Compact \/ SpawnsCall \/ TakesGate \/ NeighbourTakesGate \/ GateTimer
    BY <1>1, <1>3, CompactKeeps, SpawnsCallKeeps, TakesGateKeeps, NeighbourTakesGateKeeps,
       GateTimerKeeps
  <1>4. ASSUME NEW kind \in {"words", "tool", "block"}, NEW m \in {"main", "alt"},
               NEW cold \in BOOLEAN, CliSays(kind, m, cold)
        PROVE  ClaudeInv'
    BY <1>1, <1>4, CliSaysKeeps
  <1>5. CASE ToolAnswers \/ CliLeavesEmpty
    BY <1>1, <1>5, ToolAnswersKeeps, CliLeavesEmptyKeeps
  <1>6. ASSUME NEW o \in {"success", "error"}, CliCompacts(o) PROVE ClaudeInv'
    BY <1>1, <1>6, CliCompactsKeeps
  <1>7. ASSUME NEW b \in {"none", "words", "block"}, Nudge(b) PROVE ClaudeInv'
    BY <1>1, <1>7, NudgeKeeps
  <1>8. ASSUME NEW b \in {"none", "words", "block"}, NEW readable \in BOOLEAN,
               NEW m \in Models, Succeeds(b, readable, m)
        PROVE  ClaudeInv'
    BY <1>1, <1>8, SucceedsKeeps
  <1>9. CASE CompactReturns \/ CallFails \/ Exhausted
    BY <1>1, <1>9, OtherEndsKeep, ExhaustedKeeps
  <1>10. CASE UNCHANGED claudeVars
    <2>1. ClaudeTypeOK'
      <3>1. {hooked, delegated, prompted, stagedPrompt, toolsRan}' \subseteq BOOLEAN
        BY <1>1, <1>10, Zenon DEF ClaudeInv, ClaudeTypeOK, claudeVars
      <3>2. QED
        BY <1>1, <1>10, <3>1 DEF ClaudeInv, ClaudeTypeOK, claudeVars
    <2>2. StageFits' /\ SumsFit' /\ RoomFits'
      BY <1>1, <1>10 DEF ClaudeInv, StageFits, SumsFit, RoomFits, Messages, claudeVars
    <2>3. StreamTells' /\ ToolsAreSeen' /\ WaysFit'
      BY <1>1, <1>10 DEF ClaudeInv, StreamTells, ToolsAreSeen, WaysFit, Stream, claudeVars
    <2>4. FiguresAreTheTurns' /\ ActsAreTold'
      BY <1>1, <1>10 DEF ClaudeInv, FiguresAreTheTurns, ActsAreTold, CostIsPartial, Messages,
         claudeVars
    <2>5. QED
      BY <2>1, <2>2, <2>3, <2>4 DEF ClaudeInv
  <1>11. QED
    BY <1>1, <1>2, <1>3, <1>4, <1>5, <1>6, <1>7, <1>8, <1>9, <1>10 DEF ClaudeNext, Rests

LEMMA ClaudeInvTells == ClaudeInv => ClaudeKeeps
  <1>1. SUFFICES ASSUME ClaudeInv PROVE ClaudeKeeps
    OBVIOUS
  <1>2. PromptedOnce
    BY <1>1 DEF ClaudeInv, WaysFit, PromptedOnce
  <1>3. CompactionIsNoDeadTurn
    BY <1>1 DEF ClaudeInv, StageFits, WaysFit, CompactionIsNoDeadTurn, Hangs
  <1>4. QED
    BY <1>1, <1>2, <1>3 DEF ClaudeInv, ClaudeKeeps

\* A claude turn answers what it was asked, once, and is counted as it went
\* (backends/claude.py).
THEOREM ClaudeTurnsKeep == ClaudeSpec => []ClaudeKeeps
  <1>1. ClaudeInit => ClaudeInv
    BY ClaudeInvStarts
  <1>2. ClaudeInv /\ [ClaudeNext]_claudeVars => ClaudeInv'
    BY ClaudeInvKept
  <1>3. ClaudeInv => ClaudeKeeps
    BY ClaudeInvTells
  <1>4. QED
    BY <1>1, <1>2, <1>3, PTL DEF ClaudeSpec

-----------------------------------------------------------------------------
(* HostedRun.                                                              *)

\* A run belongs to the turn at hand, its pane is made for it, and its child is waited for.
RunsAreInTurn ==
    /\ firstOfTurn <= run /\ (daemonAt \notin {"idle", "down", "ended"} => firstOfTurn >= 1)
    /\ paneRun <= run
    /\ daemonAt \in {"beginning", "creating"} /\ pane # "none" => paneRun < run
    /\ daemonAt \in {"probing", "releasing", "polling"} => paneRun = run
    /\ exec # "none" => daemonAt \in {"waiting", "down"} /\ firstOfTurn >= 1

\* The pane is of the turn at hand, or was left by one before.
PaneIsAccounted ==
    /\ pane # "none" => paneRun >= 1 /\ (paneRun >= firstOfTurn \/ paneRun \in survivors)
    /\ daemonAt = "idle" => pane = "none" \/ paneRun \in survivors

\* A prompt is handed on once.
GivenOnce ==
    /\ \A r \in PaneRuns : r > run => carriedBy[r] = {}
    /\ daemonAt \in {"beginning", "creating", "plain", "probing", "releasing"} =>
          carriedBy[run] = {} \/ run \in unwaited
    /\ \A r \in PaneRuns : carriedBy[r] \in {{}, {"pane"}, {"child"}} \/ r \in unwaited

\* A pane at work is the run's own, and only while it is polled, or a stray's.
WorkIsAccounted ==
    pane = "working" =>
        \/ paneRun \in Strays
        \/ paneRun = run /\ exec = "none" /\ daemonAt \in {"polling", "ended", "down"}
        \/ /\ paneRun = run /\ daemonAt = "parsing" /\ code = "nonzero"
           /\ \A r \in Since : r.as = "aborted"

\* What is read of a run was written by it, or by a stray.
RecordsAreAccounted ==
    /\ \A r \in Since : r.of >= firstOfTurn \/ r.of \in survivors
    /\ \A r \in Since : r.of = run \/ r.of \in Strays
    /\ \/ daemonAt \in {"beginning", "creating"}
       \/ daemonAt \in {"probing", "releasing", "polling"} /\ pane \notin {"none", "atPrompt"}
       => \A r \in Since : r.of # run
    /\ completedSeen => Completed

\* Outside the pane's arm the turn's files are gone or accounted for.
FilesAreKnown ==
    daemonAt \in {"creating", "probing", "releasing", "polling"} \/ turnFiles = {} \/ filesLeft

HostedInv ==
    /\ HostedTypeOK /\ RunsAreInTurn /\ PaneIsAccounted /\ GivenOnce /\ WorkIsAccounted
    /\ RecordsAreAccounted /\ FilesAreKnown /\ AnswersWhatWasAsked /\ ReplyIsDelivered

LEMMA HostedInvStarts == HostedInit => HostedInv
  <1>1. SUFFICES ASSUME HostedInit PROVE HostedInv
    OBVIOUS
  <1>2. Since = {} /\ Unread = {}
    BY <1>1 DEF HostedInit, Since, Unread
  <1>3. HostedTypeOK
    <2>1. record \in Seq([of : PaneRuns, as : Closings]) /\ Len(record) = 0
      BY <1>1 DEF HostedInit
    <2>2. turnWas \in [how : Endings, from : 0..MaxPaneRuns, upto : 0..0]
      BY <1>1, HostedAssumption DEF HostedInit, Endings
    <2>3. QED
      <3>1. FlagsTyped
        BY <1>1, Zenon DEF HostedInit, FlagsTyped
      <3>2. GhostsTyped
        BY <1>1 DEF HostedInit, GhostsTyped
      <3>3. QED
        BY <1>1, <2>1, <2>2, <3>1, <3>2, HostedAssumption DEF HostedInit, HostedTypeOK,
           TurnTyped, RolloutTyped, DaemonSteps
  <1>4. QED
    BY <1>1, <1>2, <1>3, HostedAssumption DEF HostedInit, HostedInv, RunsAreInTurn,
       PaneIsAccounted, GivenOnce, WorkIsAccounted, RecordsAreAccounted, Completed,
       FilesAreKnown, AnswersWhatWasAsked, ReplyIsDelivered, PaneRuns

\* What is read of a run does not change while the rollout and the mark stand still.
LEMMA SinceStands == UNCHANGED <<record, readTo>> => Since' = Since /\ Unread' = Unread
  BY DEF Since, Unread

LEMMA EntriesFit ==
    ASSUME NEW E, NEW log \in Seq(E) PROVE \A i \in 1..Len(log) : log[i] \in E
  OBVIOUS

\* A record that codex writes is read with those before it.
LEMMA SinceGrows ==
    ASSUME HostedTypeOK, NEW r \in PaneRuns, NEW as \in Closings, ClosesWith(as, r),
           UNCHANGED readTo
    PROVE  /\ Since' = Since \union {[of |-> r, as |-> as]}
           /\ record' \in Seq([of : PaneRuns, as : Closings])
           /\ Len(record') = Len(record) + 1
           /\ \A i \in 1..Len(record) : record'[i] = record[i]
  <1>1. DEFINE e == [of |-> r, as |-> as]
  <1>2. e \in [of : PaneRuns, as : Closings] /\ record \in Seq([of : PaneRuns, as : Closings])
    BY DEF HostedTypeOK, TurnTyped, RolloutTyped
  <1>3. record' = Append(record, e)
    BY DEF ClosesWith
  <1>4. readTo \in 0..Len(record) /\ Len(record) \in Nat
    BY <1>2 DEF HostedTypeOK, TurnTyped, RolloutTyped
  <1> HIDE DEF e
  <1>5. /\ record' \in Seq([of : PaneRuns, as : Closings]) /\ Len(record') = Len(record) + 1
        /\ record'[Len(record) + 1] = e /\ \A i \in 1..Len(record) : record'[i] = record[i]
    BY <1>2, <1>3
  <1>6. Since' = Since \union {e}
    BY <1>4, <1>5 DEF Since
  <1>7. QED
    BY <1>5, <1>6 DEF e

\* A run begins with nothing read of it.
LEMMA BeginsUnread ==
    ASSUME HostedTypeOK, BeginsRun
    PROVE  /\ Since' = {} /\ run \in Nat /\ run' = run + 1 /\ run' \in PaneRuns
        /\ run' \in 0..MaxPaneRuns
           /\ readTo' = Len(record) /\ record' = record /\ completedSeen' = FALSE
           /\ daemonAt' = "beginning" /\ readTo' \in 0..Len(record')
  <1>1. record \in Seq([of : PaneRuns, as : Closings]) /\ Len(record) \in Nat
    BY DEF HostedTypeOK, TurnTyped, RolloutTyped
  <1>2. Since' = {}
    BY <1>1 DEF BeginsRun, Since
  <1>3. QED
    BY <1>1, <1>2, HostedAssumption DEF BeginsRun, HostedTypeOK, TurnTyped, RolloutTyped,
       PaneRuns

LEMMA UnlinksFits ==
    ASSUME HostedTypeOK, Unlinks
    PROVE  /\ turnFiles' \subseteq {"env", "tornEnv", "sh", "out"} /\ filesLeft' \in BOOLEAN
           /\ turnFiles' = {} \/ filesLeft'
  <1>1. turnFiles' \subseteq {"env", "tornEnv", "sh", "out"}
    BY DEF HostedTypeOK, TurnTyped, RolloutTyped, Unlinks
  <1>2. filesLeft' \in BOOLEAN
    BY DEF Unlinks
  <1>3. turnFiles' = {} \/ filesLeft'
    BY DEF Unlinks
  <1>4. QED
    BY <1>1, <1>2, <1>3

LEMMA TurnStartsHosted ==
    ASSUME HostedInv, NEW b \in BOOLEAN, TurnStarts(b)
    PROVE  HostedInv'
  <1>1. BeginsRun /\ HostedTypeOK
    BY DEF TurnStarts, HostedInv
  <1>2. /\ Since' = {} /\ run \in Nat /\ run' = run + 1 /\ run' \in PaneRuns
        /\ run' \in 0..MaxPaneRuns /\ readTo' = Len(record) /\ record' = record
        /\ completedSeen' = FALSE /\ daemonAt' = "beginning" /\ readTo' \in 0..Len(record')
    BY <1>1, BeginsUnread
  <1>11. TurnTyped'
    BY HostedAssumption, <1>1, <1>2 DEF HostedInv, HostedTypeOK, TurnTyped, DaemonSteps,
       TurnStarts, GetsPane, ThisTurn, Server, Log, HostedGhosts, Outlived
  <1>12. FlagsTyped'
    BY <1>2, Zenon DEF HostedInv, HostedTypeOK, FlagsTyped, TurnStarts, GetsPane, ThisTurn,
       Server, Log, HostedGhosts, Outlived
  <1>13. RolloutTyped'
    BY HostedAssumption, <1>1, <1>2 DEF HostedInv, HostedTypeOK, RolloutTyped, Endings,
       TurnStarts, GetsPane, ThisTurn, Server, Log, HostedGhosts, Outlived
  <1>14. GhostsTyped'
    BY HostedAssumption, <1>1, <1>2 DEF HostedInv, HostedTypeOK, TurnTyped, GhostsTyped,
       TurnStarts, GetsPane, ThisTurn, Server, Log, HostedGhosts, Outlived
  <1>15. RunsAreInTurn' /\ PaneIsAccounted'
    BY HostedAssumption, <1>1, <1>2 DEF HostedInv, HostedTypeOK, TurnTyped, RunsAreInTurn,
       PaneIsAccounted, WorkIsAccounted, TurnStarts, GetsPane, ThisTurn, Server, Log,
       HostedGhosts, Outlived, PaneUp, PaneRuns
  <1>16. GivenOnce'
    BY HostedAssumption, <1>1, <1>2 DEF HostedInv, HostedTypeOK, TurnTyped, GhostsTyped,
       RunsAreInTurn, GivenOnce, TurnStarts, GetsPane, ThisTurn, Server, Log, HostedGhosts,
       Outlived, PaneRuns
  <1>17. WorkIsAccounted'
    BY HostedAssumption, <1>1, <1>2 DEF HostedInv, HostedTypeOK, TurnTyped, RunsAreInTurn,
       PaneIsAccounted, WorkIsAccounted, RecordsAreAccounted, TurnStarts, GetsPane, ThisTurn,
       Server, Log, HostedGhosts, Outlived, Strays, PaneUp, PaneRuns
  <1>18. RecordsAreAccounted'
    BY HostedAssumption, <1>1, <1>2 DEF HostedInv, HostedTypeOK, TurnTyped, RunsAreInTurn,
       PaneIsAccounted, WorkIsAccounted, RecordsAreAccounted, TurnStarts, GetsPane, ThisTurn,
       Server, Log, HostedGhosts, Outlived, Strays, Completed, PaneRuns
  <1>19. FilesAreKnown' /\ AnswersWhatWasAsked' /\ ReplyIsDelivered'
    BY HostedAssumption, <1>1, <1>2 DEF HostedInv, HostedTypeOK, RolloutTyped, FilesAreKnown,
       RecordsAreAccounted, AnswersWhatWasAsked, ReplyIsDelivered, TurnStarts, GetsPane,
       ThisTurn, Server, Log, HostedGhosts, Outlived
  <1>20. QED
    BY <1>11, <1>12, <1>13, <1>14, <1>15, <1>16, <1>17, <1>18, <1>19 DEF HostedInv, HostedTypeOK

LEMMA StagesHosted ==
    ASSUME HostedInv, NEW t \in BOOLEAN, NEW e \in BOOLEAN, NEW s \in BOOLEAN, Stages(t, e, s)
    PROVE  HostedInv'
  <1>1. Since' = Since /\ Unread' = Unread
    BY SinceStands DEF Stages, Log
  <1>2. turnFiles' \subseteq {"env", "tornEnv", "sh", "out"}
    BY DEF HostedInv, HostedTypeOK, TurnTyped, Stages, Staged
  <1>11. TurnTyped'
    BY HostedAssumption, <1>1, <1>2 DEF HostedInv, HostedTypeOK, TurnTyped, DaemonSteps, Stages,
       Trusts, ThisTurn, Server, Log, HostedGhosts, Outlived, Mishap, Awaits
  <1>12. FlagsTyped'
    BY Zenon DEF HostedInv, HostedTypeOK, FlagsTyped, Stages, Trusts, ThisTurn, Server, Log,
       HostedGhosts, Outlived
  <1>13. RolloutTyped'
    BY HostedAssumption, <1>1, <1>2 DEF HostedInv, HostedTypeOK, RolloutTyped, Endings, Stages,
       Trusts, ThisTurn, Server, Log, HostedGhosts, Outlived
  <1>14. GhostsTyped'
    BY HostedAssumption, <1>1, <1>2 DEF HostedInv, HostedTypeOK, TurnTyped, GhostsTyped, Stages,
       Trusts, ThisTurn, Server, Log, HostedGhosts, Outlived
  <1>15. RunsAreInTurn' /\ PaneIsAccounted'
    BY HostedAssumption, <1>1, <1>2 DEF HostedInv, HostedTypeOK, TurnTyped, RunsAreInTurn,
       PaneIsAccounted, WorkIsAccounted, Stages, Trusts, ThisTurn, Server, Log, HostedGhosts,
       Outlived, PaneUp, PaneRuns
  <1>16. GivenOnce'
    BY HostedAssumption, <1>1, <1>2 DEF HostedInv, HostedTypeOK, TurnTyped, GhostsTyped,
       RunsAreInTurn, GivenOnce, Stages, Trusts, ThisTurn, Server, Log, HostedGhosts, Outlived,
       PaneRuns
  <1>17. WorkIsAccounted'
    BY HostedAssumption, <1>1, <1>2 DEF HostedInv, HostedTypeOK, TurnTyped, RunsAreInTurn,
       PaneIsAccounted, WorkIsAccounted, RecordsAreAccounted, Stages, Trusts, ThisTurn, Server,
       Log, HostedGhosts, Outlived, Strays, PaneUp, PaneRuns
  <1>18. RecordsAreAccounted'
    BY HostedAssumption, <1>1, <1>2 DEF HostedInv, HostedTypeOK, TurnTyped, RunsAreInTurn,
       PaneIsAccounted, WorkIsAccounted, RecordsAreAccounted, Stages, Trusts, ThisTurn, Server,
       Log, HostedGhosts, Outlived, Strays, Completed, PaneRuns
  <1>19. FilesAreKnown' /\ AnswersWhatWasAsked' /\ ReplyIsDelivered'
    BY HostedAssumption, <1>1, <1>2 DEF HostedInv, HostedTypeOK, RolloutTyped, FilesAreKnown,
       RecordsAreAccounted, AnswersWhatWasAsked, ReplyIsDelivered, Stages, Trusts, ThisTurn,
       Server, Log, HostedGhosts, Outlived
  <1>20. QED
    BY <1>11, <1>12, <1>13, <1>14, <1>15, <1>16, <1>17, <1>18, <1>19 DEF HostedInv, HostedTypeOK

LEMMA CreatesHosted ==
    ASSUME HostedInv, NEW b \in BOOLEAN, Creates(b)
    PROVE  HostedInv'
  <1>1. Since' = Since /\ Unread' = Unread
    BY SinceStands DEF Creates, Log
  <1>2. Unlinks \/ UNCHANGED <<turnFiles, filesLeft>>
    BY Zenon DEF Creates, Unhosted
  <1>3. turnFiles' \subseteq {"env", "tornEnv", "sh", "out"} /\ filesLeft' \in BOOLEAN
    BY <1>2, UnlinksFits DEF HostedInv, HostedTypeOK, TurnTyped, FlagsTyped
  <1>4. wakes' \in BOOLEAN
    BY DEF HostedInv, HostedTypeOK, FlagsTyped, Creates, Server
  <1>5. run \in PaneRuns
    BY HostedAssumption DEF HostedInv, HostedTypeOK, TurnTyped, RunsAreInTurn, PaneRuns, Creates
  <1>11. TurnTyped'
    BY HostedAssumption, <1>1, <1>2, <1>3, <1>5 DEF HostedInv, HostedTypeOK, TurnTyped,
       DaemonSteps, Creates, GivenTo, Unhosted, Unlinks, ThisTurn, Server, Log, HostedGhosts,
       Outlived, Mishap, Awaits
  <1>12. FlagsTyped'
    BY <1>3, <1>4, Zenon DEF HostedInv, HostedTypeOK, FlagsTyped, Creates, GivenTo, Unhosted,
       Unlinks, ThisTurn, Server, Log, HostedGhosts, Outlived
  <1>13. RolloutTyped'
    BY HostedAssumption, <1>1, <1>2, <1>3, <1>5 DEF HostedInv, HostedTypeOK, RolloutTyped,
       Endings, Creates, GivenTo, Unhosted, Unlinks, ThisTurn, Server, Log, HostedGhosts,
       Outlived
  <1>14. GhostsTyped'
    BY HostedAssumption, <1>1, <1>2, <1>3, <1>5 DEF HostedInv, HostedTypeOK, TurnTyped,
       GhostsTyped, Creates, GivenTo, Unhosted, Unlinks, ThisTurn, Server, Log, HostedGhosts,
       Outlived
  <1>15. RunsAreInTurn' /\ PaneIsAccounted'
    BY HostedAssumption, <1>1, <1>2, <1>3, <1>5 DEF HostedInv, HostedTypeOK, TurnTyped,
       RunsAreInTurn, PaneIsAccounted, WorkIsAccounted, Creates, GivenTo, Unhosted, Unlinks,
       ThisTurn, Server, Log, HostedGhosts, Outlived, PaneUp, PaneRuns
  <1>16. GivenOnce'
    BY HostedAssumption, <1>1, <1>2, <1>3, <1>5 DEF HostedInv, HostedTypeOK, TurnTyped,
       GhostsTyped, RunsAreInTurn, GivenOnce, Creates, GivenTo, Unhosted, Unlinks, ThisTurn,
       Server, Log, HostedGhosts, Outlived, PaneRuns
  <1>17. WorkIsAccounted'
    BY HostedAssumption, <1>1, <1>2, <1>3, <1>5 DEF HostedInv, HostedTypeOK, TurnTyped,
       RunsAreInTurn, PaneIsAccounted, WorkIsAccounted, RecordsAreAccounted, Creates, GivenTo,
       Unhosted, Unlinks, ThisTurn, Server, Log, HostedGhosts, Outlived, Strays, PaneUp,
       PaneRuns
  <1>18. RecordsAreAccounted'
    BY HostedAssumption, <1>1, <1>2, <1>3, <1>5 DEF HostedInv, HostedTypeOK, TurnTyped,
       RunsAreInTurn, PaneIsAccounted, WorkIsAccounted, RecordsAreAccounted, Creates, GivenTo,
       Unhosted, Unlinks, ThisTurn, Server, Log, HostedGhosts, Outlived, Strays, Completed,
       PaneRuns
  <1>19. FilesAreKnown' /\ AnswersWhatWasAsked' /\ ReplyIsDelivered'
    BY HostedAssumption, <1>1, <1>2, <1>3, <1>5 DEF HostedInv, HostedTypeOK, RolloutTyped,
       FilesAreKnown, RecordsAreAccounted, AnswersWhatWasAsked, ReplyIsDelivered, Creates,
       GivenTo, Unhosted, Unlinks, ThisTurn, Server, Log, HostedGhosts, Outlived
  <1>20. QED
    BY <1>11, <1>12, <1>13, <1>14, <1>15, <1>16, <1>17, <1>18, <1>19 DEF HostedInv, HostedTypeOK

LEMMA ProbesHosted ==
    ASSUME HostedInv, NEW b \in BOOLEAN, Probes(b)
    PROVE  HostedInv'
  <1>1. Since' = Since /\ Unread' = Unread
    BY SinceStands DEF Probes, Log
  <1>2. Unlinks \/ UNCHANGED <<turnFiles, filesLeft>>
    BY Zenon DEF Probes, Unhosted
  <1>3. turnFiles' \subseteq {"env", "tornEnv", "sh", "out"} /\ filesLeft' \in BOOLEAN
    BY <1>2, UnlinksFits DEF HostedInv, HostedTypeOK, TurnTyped, FlagsTyped
  <1>11. TurnTyped'
    BY HostedAssumption, <1>1, <1>2, <1>3 DEF HostedInv, HostedTypeOK, TurnTyped, DaemonSteps,
       Probes, Unhosted, Unlinks, PaneUp, ThisTurn, Server, Log, HostedGhosts, Outlived, Mishap,
       Awaits
  <1>12. FlagsTyped'
    BY <1>3, Zenon DEF HostedInv, HostedTypeOK, FlagsTyped, Probes, Unhosted, Unlinks, PaneUp,
       ThisTurn, Server, Log, HostedGhosts, Outlived
  <1>13. RolloutTyped'
    BY HostedAssumption, <1>1, <1>2, <1>3 DEF HostedInv, HostedTypeOK, RolloutTyped, Endings,
       Probes, Unhosted, Unlinks, PaneUp, ThisTurn, Server, Log, HostedGhosts, Outlived
  <1>14. GhostsTyped'
    BY HostedAssumption, <1>1, <1>2, <1>3 DEF HostedInv, HostedTypeOK, TurnTyped, GhostsTyped,
       Probes, Unhosted, Unlinks, PaneUp, ThisTurn, Server, Log, HostedGhosts, Outlived
  <1>15. RunsAreInTurn' /\ PaneIsAccounted'
    BY HostedAssumption, <1>1, <1>2, <1>3 DEF HostedInv, HostedTypeOK, TurnTyped, RunsAreInTurn,
       PaneIsAccounted, WorkIsAccounted, Probes, Unhosted, Unlinks, PaneUp, ThisTurn, Server,
       Log, HostedGhosts, Outlived, PaneUp, PaneRuns
  <1>16. GivenOnce'
    BY HostedAssumption, <1>1, <1>2, <1>3 DEF HostedInv, HostedTypeOK, TurnTyped, GhostsTyped,
       RunsAreInTurn, GivenOnce, Probes, Unhosted, Unlinks, PaneUp, ThisTurn, Server, Log,
       HostedGhosts, Outlived, PaneRuns
  <1>17. WorkIsAccounted'
    BY HostedAssumption, <1>1, <1>2, <1>3 DEF HostedInv, HostedTypeOK, TurnTyped, RunsAreInTurn,
       PaneIsAccounted, WorkIsAccounted, RecordsAreAccounted, Probes, Unhosted, Unlinks, PaneUp,
       ThisTurn, Server, Log, HostedGhosts, Outlived, Strays, PaneUp, PaneRuns
  <1>18. RecordsAreAccounted'
    BY HostedAssumption, <1>1, <1>2, <1>3 DEF HostedInv, HostedTypeOK, TurnTyped, RunsAreInTurn,
       PaneIsAccounted, WorkIsAccounted, RecordsAreAccounted, Probes, Unhosted, Unlinks, PaneUp,
       ThisTurn, Server, Log, HostedGhosts, Outlived, Strays, Completed, PaneRuns
  <1>19. FilesAreKnown' /\ AnswersWhatWasAsked' /\ ReplyIsDelivered'
    BY HostedAssumption, <1>1, <1>2, <1>3 DEF HostedInv, HostedTypeOK, RolloutTyped,
       FilesAreKnown, RecordsAreAccounted, AnswersWhatWasAsked, ReplyIsDelivered, Probes,
       Unhosted, Unlinks, PaneUp, ThisTurn, Server, Log, HostedGhosts, Outlived
  <1>20. QED
    BY <1>11, <1>12, <1>13, <1>14, <1>15, <1>16, <1>17, <1>18, <1>19 DEF HostedInv, HostedTypeOK

LEMMA ReleasesHosted ==
    ASSUME HostedInv, ReleasesPane
    PROVE  HostedInv'
  <1>1. Since' = Since /\ Unread' = Unread
    BY SinceStands DEF ReleasesPane, Log
  <1>11. TurnTyped'
    BY HostedAssumption, <1>1 DEF HostedInv, HostedTypeOK, TurnTyped, DaemonSteps, ReleasesPane,
       GivenTo, ThisTurn, Server, Log, HostedGhosts, Outlived
  <1>12. FlagsTyped'
    BY Zenon DEF HostedInv, HostedTypeOK, FlagsTyped, ReleasesPane, GivenTo, ThisTurn, Server,
       Log, HostedGhosts, Outlived
  <1>13. RolloutTyped'
    BY HostedAssumption, <1>1 DEF HostedInv, HostedTypeOK, RolloutTyped, Endings, ReleasesPane,
       GivenTo, ThisTurn, Server, Log, HostedGhosts, Outlived
  <1>14. GhostsTyped'
    BY HostedAssumption, <1>1 DEF HostedInv, HostedTypeOK, TurnTyped, GhostsTyped, ReleasesPane,
       GivenTo, ThisTurn, Server, Log, HostedGhosts, Outlived
  <1>15. RunsAreInTurn' /\ PaneIsAccounted'
    BY HostedAssumption, <1>1 DEF HostedInv, HostedTypeOK, TurnTyped, RunsAreInTurn,
       PaneIsAccounted, WorkIsAccounted, ReleasesPane, GivenTo, ThisTurn, Server, Log,
       HostedGhosts, Outlived, PaneUp, PaneRuns
  <1>16. GivenOnce'
    BY HostedAssumption, <1>1 DEF HostedInv, HostedTypeOK, TurnTyped, GhostsTyped,
       RunsAreInTurn, GivenOnce, ReleasesPane, GivenTo, ThisTurn, Server, Log, HostedGhosts,
       Outlived, PaneRuns
  <1>17. WorkIsAccounted'
    BY HostedAssumption, <1>1 DEF HostedInv, HostedTypeOK, TurnTyped, RunsAreInTurn,
       PaneIsAccounted, WorkIsAccounted, RecordsAreAccounted, ReleasesPane, GivenTo, ThisTurn,
       Server, Log, HostedGhosts, Outlived, Strays, PaneUp, PaneRuns
  <1>18. RecordsAreAccounted'
    BY HostedAssumption, <1>1 DEF HostedInv, HostedTypeOK, TurnTyped, RunsAreInTurn,
       PaneIsAccounted, WorkIsAccounted, RecordsAreAccounted, ReleasesPane, GivenTo, ThisTurn,
       Server, Log, HostedGhosts, Outlived, Strays, Completed, PaneRuns
  <1>19. FilesAreKnown' /\ AnswersWhatWasAsked' /\ ReplyIsDelivered'
    BY HostedAssumption, <1>1 DEF HostedInv, HostedTypeOK, RolloutTyped, FilesAreKnown,
       RecordsAreAccounted, AnswersWhatWasAsked, ReplyIsDelivered, ReleasesPane, GivenTo,
       ThisTurn, Server, Log, HostedGhosts, Outlived
  <1>20. QED
    BY <1>11, <1>12, <1>13, <1>14, <1>15, <1>16, <1>17, <1>18, <1>19 DEF HostedInv, HostedTypeOK

LEMMA SpawnsHosted ==
    ASSUME HostedInv, SpawnsChild
    PROVE  HostedInv'
  <1>1. Since' = Since /\ Unread' = Unread
    BY SinceStands DEF SpawnsChild, Log
  <1>2. run \in PaneRuns
    BY HostedAssumption DEF HostedInv, HostedTypeOK, TurnTyped, RunsAreInTurn, PaneRuns,
       SpawnsChild
  <1>11. TurnTyped'
    BY HostedAssumption, <1>1, <1>2 DEF HostedInv, HostedTypeOK, TurnTyped, DaemonSteps,
       SpawnsChild, ThisTurn, Server, Log, HostedGhosts, Outlived
  <1>12. FlagsTyped'
    BY Zenon DEF HostedInv, HostedTypeOK, FlagsTyped, SpawnsChild, ThisTurn, Server, Log,
       HostedGhosts, Outlived
  <1>13. RolloutTyped'
    BY HostedAssumption, <1>1, <1>2 DEF HostedInv, HostedTypeOK, RolloutTyped, Endings,
       SpawnsChild, ThisTurn, Server, Log, HostedGhosts, Outlived
  <1>14. GhostsTyped'
    BY HostedAssumption, <1>1, <1>2 DEF HostedInv, HostedTypeOK, TurnTyped, GhostsTyped,
       SpawnsChild, ThisTurn, Server, Log, HostedGhosts, Outlived
  <1>15. RunsAreInTurn' /\ PaneIsAccounted'
    BY HostedAssumption, <1>1, <1>2 DEF HostedInv, HostedTypeOK, TurnTyped, RunsAreInTurn,
       PaneIsAccounted, WorkIsAccounted, SpawnsChild, ThisTurn, Server, Log, HostedGhosts,
       Outlived, PaneUp, PaneRuns
  <1>16. GivenOnce'
    BY HostedAssumption, <1>1, <1>2 DEF HostedInv, HostedTypeOK, TurnTyped, GhostsTyped,
       RunsAreInTurn, GivenOnce, SpawnsChild, ThisTurn, Server, Log, HostedGhosts, Outlived,
       PaneRuns
  <1>17. WorkIsAccounted'
    BY HostedAssumption, <1>1, <1>2 DEF HostedInv, HostedTypeOK, TurnTyped, RunsAreInTurn,
       PaneIsAccounted, WorkIsAccounted, RecordsAreAccounted, SpawnsChild, ThisTurn, Server,
       Log, HostedGhosts, Outlived, Strays, PaneUp, PaneRuns
  <1>18. RecordsAreAccounted'
    BY HostedAssumption, <1>1, <1>2 DEF HostedInv, HostedTypeOK, TurnTyped, RunsAreInTurn,
       PaneIsAccounted, WorkIsAccounted, RecordsAreAccounted, SpawnsChild, ThisTurn, Server,
       Log, HostedGhosts, Outlived, Strays, Completed, PaneRuns
  <1>19. FilesAreKnown' /\ AnswersWhatWasAsked' /\ ReplyIsDelivered'
    BY HostedAssumption, <1>1, <1>2 DEF HostedInv, HostedTypeOK, RolloutTyped, FilesAreKnown,
       RecordsAreAccounted, AnswersWhatWasAsked, ReplyIsDelivered, SpawnsChild, ThisTurn,
       Server, Log, HostedGhosts, Outlived
  <1>20. QED
    BY <1>11, <1>12, <1>13, <1>14, <1>15, <1>16, <1>17, <1>18, <1>19 DEF HostedInv, HostedTypeOK

LEMMA PaneWorksHosted ==
    ASSUME HostedInv, NEW as \in Closings, PaneWorks(as)
    PROVE  HostedInv'
  <1>1. HostedTypeOK /\ paneRun \in PaneRuns /\ ClosesWith(as, paneRun) /\ UNCHANGED readTo
    BY HostedAssumption DEF PaneWorks, HostedInv, HostedTypeOK, TurnTyped, RunsAreInTurn,
       PaneIsAccounted, PaneRuns, Log
  <1>2. /\ Since' = Since \union {[of |-> paneRun, as |-> as]}
        /\ record' \in Seq([of : PaneRuns, as : Closings])
        /\ Len(record') = Len(record) + 1
        /\ \A i \in 1..Len(record) : record'[i] = record[i]
    BY <1>1, SinceGrows, Zenon
  <1>3. Len(record) \in Nat /\ record \in Seq([of : PaneRuns, as : Closings])
    BY DEF HostedInv, HostedTypeOK, RolloutTyped
  <1>11. TurnTyped'
    BY HostedAssumption, <1>1, <1>2, <1>3 DEF HostedInv, HostedTypeOK, TurnTyped, DaemonSteps,
       PaneWorks, ThisTurn, Server, Log, HostedGhosts, Outlived
  <1>12. FlagsTyped'
    BY Zenon DEF HostedInv, HostedTypeOK, FlagsTyped, PaneWorks, ThisTurn, Server, Log,
       HostedGhosts, Outlived
  <1>13. RolloutTyped'
    BY HostedAssumption, <1>1, <1>2, <1>3 DEF HostedInv, HostedTypeOK, RolloutTyped, Endings,
       PaneWorks, ThisTurn, Server, Log, HostedGhosts, Outlived
  <1>14. GhostsTyped'
    BY HostedAssumption, <1>1, <1>2, <1>3 DEF HostedInv, HostedTypeOK, TurnTyped, GhostsTyped,
       PaneWorks, ThisTurn, Server, Log, HostedGhosts, Outlived
  <1>15. RunsAreInTurn' /\ PaneIsAccounted'
    BY HostedAssumption, <1>1, <1>2, <1>3 DEF HostedInv, HostedTypeOK, TurnTyped, RunsAreInTurn,
       PaneIsAccounted, WorkIsAccounted, PaneWorks, ThisTurn, Server, Log, HostedGhosts,
       Outlived, PaneUp, PaneRuns
  <1>16. GivenOnce'
    BY HostedAssumption, <1>1, <1>2, <1>3 DEF HostedInv, HostedTypeOK, TurnTyped, GhostsTyped,
       RunsAreInTurn, GivenOnce, PaneWorks, ThisTurn, Server, Log, HostedGhosts, Outlived,
       PaneRuns
  <1>17. WorkIsAccounted'
    BY HostedAssumption, <1>1, <1>2, <1>3 DEF HostedInv, HostedTypeOK, TurnTyped, RunsAreInTurn,
       PaneIsAccounted, WorkIsAccounted, RecordsAreAccounted, PaneWorks, ThisTurn, Server, Log,
       HostedGhosts, Outlived, Strays, PaneUp, PaneRuns
  <1>18. RecordsAreAccounted'
    <2>1. \A r \in Since' : r \in Since \/ r.of = paneRun
      <3>1. \A r \in Since' : r \in Since \/ r = [of |-> paneRun, as |-> as]
        BY <1>2, Zenon
      <3>2. [of |-> paneRun, as |-> as].of = paneRun
        OBVIOUS
      <3>3. QED
        BY <3>1, <3>2, Zenon
    <2>2. paneRun >= firstOfTurn \/ paneRun \in survivors
      BY HostedAssumption DEF HostedInv, HostedTypeOK, TurnTyped, RunsAreInTurn,
         PaneIsAccounted, PaneWorks
    <2>3. paneRun = run \/ paneRun \in Strays
      BY DEF HostedInv, WorkIsAccounted, PaneWorks
    <2>4. ~(\/ daemonAt \in {"beginning", "creating"} /\ paneRun = run
            \/ daemonAt \in {"probing", "releasing", "polling"}
               /\ pane' \notin {"none", "atPrompt"})
      BY HostedAssumption DEF HostedInv, HostedTypeOK, TurnTyped, RunsAreInTurn, PaneWorks,
         Server
    <2>5. UNCHANGED <<daemonAt, run, firstOfTurn, survivors, unwaited, misread, completedSeen>>
      BY DEF PaneWorks, ThisTurn, HostedGhosts, Outlived
    <2>6. Completed => Completed'
      BY <1>2 DEF Completed
    <2>7. \A r \in Since' : r.of >= firstOfTurn \/ r.of \in survivors
      BY <2>1, <2>2 DEF HostedInv, RecordsAreAccounted
    <2>8. \A r \in Since' : r.of = run \/ r.of \in Strays
      BY <2>1, <2>3 DEF HostedInv, RecordsAreAccounted
    <2>9. \/ daemonAt \in {"beginning", "creating"}
          \/ /\ daemonAt \in {"probing", "releasing", "polling"}
             /\ pane' \notin {"none", "atPrompt"}
          => \A r \in Since' : r.of # run
      BY <2>1, <2>4 DEF HostedInv, RecordsAreAccounted, PaneWorks, Server
    <2>10. QED
      BY <2>5, <2>6, <2>7, <2>8, <2>9 DEF HostedInv, RecordsAreAccounted, Strays
  <1>19. FilesAreKnown' /\ AnswersWhatWasAsked' /\ ReplyIsDelivered'
    <2>1. /\ UNCHANGED <<daemonAt, turnFiles, filesLeft, turnWas, firstOfTurn, survivors>>
          /\ UNCHANGED readTo
      BY DEF PaneWorks, ThisTurn, HostedGhosts, Outlived
    <2>2. FilesAreKnown' /\ AnswersWhatWasAsked'
      BY <2>1 DEF HostedInv, FilesAreKnown, AnswersWhatWasAsked
    <2>3. turnWas.upto \in 0..Len(record) /\ readTo \in 0..Len(record)
      BY <1>3 DEF HostedInv, HostedTypeOK, RolloutTyped
    <2>4. ReplyIsDelivered'
      BY <1>2, <1>3, <2>1, <2>3 DEF HostedInv, ReplyIsDelivered
    <2>5. QED
      BY <2>2, <2>4
  <1>20. QED
    BY <1>11, <1>12, <1>13, <1>14, <1>15, <1>16, <1>17, <1>18, <1>19 DEF HostedInv, HostedTypeOK

LEMMA ChildWorksHosted ==
    ASSUME HostedInv, NEW as \in Closings, ChildWorks(as)
    PROVE  HostedInv'
  <1>1. HostedTypeOK /\ run \in PaneRuns /\ ClosesWith(as, run) /\ UNCHANGED readTo
    BY HostedAssumption DEF ChildWorks, HostedInv, HostedTypeOK, TurnTyped, RunsAreInTurn,
       PaneIsAccounted, PaneRuns, Log
  <1>2. /\ Since' = Since \union {[of |-> run, as |-> as]}
        /\ record' \in Seq([of : PaneRuns, as : Closings])
        /\ Len(record') = Len(record) + 1
        /\ \A i \in 1..Len(record) : record'[i] = record[i]
    BY <1>1, SinceGrows, Zenon
  <1>3. Len(record) \in Nat /\ record \in Seq([of : PaneRuns, as : Closings])
    BY DEF HostedInv, HostedTypeOK, RolloutTyped
  <1>11. TurnTyped'
    BY HostedAssumption, <1>1, <1>2, <1>3 DEF HostedInv, HostedTypeOK, TurnTyped, DaemonSteps,
       ChildWorks, ThisTurn, Server, Log, HostedGhosts, Outlived
  <1>12. FlagsTyped'
    BY Zenon DEF HostedInv, HostedTypeOK, FlagsTyped, ChildWorks, ThisTurn, Server, Log,
       HostedGhosts, Outlived
  <1>13. RolloutTyped'
    BY HostedAssumption, <1>1, <1>2, <1>3 DEF HostedInv, HostedTypeOK, RolloutTyped, Endings,
       ChildWorks, ThisTurn, Server, Log, HostedGhosts, Outlived
  <1>14. GhostsTyped'
    BY HostedAssumption, <1>1, <1>2, <1>3 DEF HostedInv, HostedTypeOK, TurnTyped, GhostsTyped,
       ChildWorks, ThisTurn, Server, Log, HostedGhosts, Outlived
  <1>15. RunsAreInTurn' /\ PaneIsAccounted'
    BY HostedAssumption, <1>1, <1>2, <1>3 DEF HostedInv, HostedTypeOK, TurnTyped, RunsAreInTurn,
       PaneIsAccounted, WorkIsAccounted, ChildWorks, ThisTurn, Server, Log, HostedGhosts,
       Outlived, PaneUp, PaneRuns
  <1>16. GivenOnce'
    BY HostedAssumption, <1>1, <1>2, <1>3 DEF HostedInv, HostedTypeOK, TurnTyped, GhostsTyped,
       RunsAreInTurn, GivenOnce, ChildWorks, ThisTurn, Server, Log, HostedGhosts, Outlived,
       PaneRuns
  <1>17. WorkIsAccounted'
    BY HostedAssumption, <1>1, <1>2, <1>3 DEF HostedInv, HostedTypeOK, TurnTyped, RunsAreInTurn,
       PaneIsAccounted, WorkIsAccounted, RecordsAreAccounted, ChildWorks, ThisTurn, Server, Log,
       HostedGhosts, Outlived, Strays, PaneUp, PaneRuns
  <1>18. RecordsAreAccounted'
    <2>1. \A r \in Since' : r \in Since \/ r.of = run
      <3>1. \A r \in Since' : r \in Since \/ r = [of |-> run, as |-> as]
        BY <1>2, Zenon
      <3>2. [of |-> run, as |-> as].of = run
        OBVIOUS
      <3>3. QED
        BY <3>1, <3>2, Zenon
    <2>2. run >= firstOfTurn \/ run \in survivors
      BY HostedAssumption DEF HostedInv, HostedTypeOK, TurnTyped, RunsAreInTurn,
         PaneIsAccounted, ChildWorks
    <2>3. run = run \/ run \in Strays
      BY DEF HostedInv, WorkIsAccounted, ChildWorks
    <2>4. ~(\/ daemonAt \in {"beginning", "creating"} /\ run = run
            \/ daemonAt \in {"probing", "releasing", "polling"}
               /\ pane' \notin {"none", "atPrompt"})
      BY HostedAssumption DEF HostedInv, HostedTypeOK, TurnTyped, RunsAreInTurn, ChildWorks,
         Server
    <2>5. UNCHANGED <<daemonAt, run, firstOfTurn, survivors, unwaited, misread, completedSeen>>
      BY DEF ChildWorks, ThisTurn, HostedGhosts, Outlived
    <2>6. Completed => Completed'
      BY <1>2 DEF Completed
    <2>7. \A r \in Since' : r.of >= firstOfTurn \/ r.of \in survivors
      BY <2>1, <2>2 DEF HostedInv, RecordsAreAccounted
    <2>8. \A r \in Since' : r.of = run \/ r.of \in Strays
      BY <2>1, <2>3 DEF HostedInv, RecordsAreAccounted
    <2>9. \/ daemonAt \in {"beginning", "creating"}
          \/ /\ daemonAt \in {"probing", "releasing", "polling"}
             /\ pane' \notin {"none", "atPrompt"}
          => \A r \in Since' : r.of # run
      BY <2>1, <2>4 DEF HostedInv, RecordsAreAccounted, ChildWorks, Server
    <2>10. QED
      BY <2>5, <2>6, <2>7, <2>8, <2>9 DEF HostedInv, RecordsAreAccounted, Strays
  <1>19. FilesAreKnown' /\ AnswersWhatWasAsked' /\ ReplyIsDelivered'
    <2>1. /\ UNCHANGED <<daemonAt, turnFiles, filesLeft, turnWas, firstOfTurn, survivors>>
          /\ UNCHANGED readTo
      BY DEF ChildWorks, ThisTurn, HostedGhosts, Outlived
    <2>2. FilesAreKnown' /\ AnswersWhatWasAsked'
      BY <2>1 DEF HostedInv, FilesAreKnown, AnswersWhatWasAsked
    <2>3. turnWas.upto \in 0..Len(record) /\ readTo \in 0..Len(record)
      BY <1>3 DEF HostedInv, HostedTypeOK, RolloutTyped
    <2>4. ReplyIsDelivered'
      BY <1>2, <1>3, <2>1, <2>3 DEF HostedInv, ReplyIsDelivered
    <2>5. QED
      BY <2>2, <2>4
  <1>20. QED
    BY <1>11, <1>12, <1>13, <1>14, <1>15, <1>16, <1>17, <1>18, <1>19 DEF HostedInv, HostedTypeOK

LEMMA PaneDiesHosted ==
    ASSUME HostedInv, PaneDies
    PROVE  HostedInv'
  <1>1. Since' = Since /\ Unread' = Unread
    BY SinceStands DEF PaneDies, Log
  <1>11. TurnTyped'
    BY HostedAssumption, <1>1 DEF HostedInv, HostedTypeOK, TurnTyped, DaemonSteps, PaneDies,
       ThisTurn, Server, Log, HostedGhosts, Outlived, Mishap, Awaits
  <1>12. FlagsTyped'
    BY Zenon DEF HostedInv, HostedTypeOK, FlagsTyped, PaneDies, ThisTurn, Server, Log,
       HostedGhosts, Outlived
  <1>13. RolloutTyped'
    BY HostedAssumption, <1>1 DEF HostedInv, HostedTypeOK, RolloutTyped, Endings, PaneDies,
       ThisTurn, Server, Log, HostedGhosts, Outlived
  <1>14. GhostsTyped'
    BY HostedAssumption, <1>1 DEF HostedInv, HostedTypeOK, TurnTyped, GhostsTyped, PaneDies,
       ThisTurn, Server, Log, HostedGhosts, Outlived
  <1>15. RunsAreInTurn' /\ PaneIsAccounted'
    BY HostedAssumption, <1>1 DEF HostedInv, HostedTypeOK, TurnTyped, RunsAreInTurn,
       PaneIsAccounted, WorkIsAccounted, PaneDies, ThisTurn, Server, Log, HostedGhosts,
       Outlived, PaneUp, PaneRuns
  <1>16. GivenOnce'
    BY HostedAssumption, <1>1 DEF HostedInv, HostedTypeOK, TurnTyped, GhostsTyped,
       RunsAreInTurn, GivenOnce, PaneDies, ThisTurn, Server, Log, HostedGhosts, Outlived,
       PaneRuns
  <1>17. WorkIsAccounted'
    BY HostedAssumption, <1>1 DEF HostedInv, HostedTypeOK, TurnTyped, RunsAreInTurn,
       PaneIsAccounted, WorkIsAccounted, RecordsAreAccounted, PaneDies, ThisTurn, Server, Log,
       HostedGhosts, Outlived, Strays, PaneUp, PaneRuns
  <1>18. RecordsAreAccounted'
    BY HostedAssumption, <1>1 DEF HostedInv, HostedTypeOK, TurnTyped, RunsAreInTurn,
       PaneIsAccounted, WorkIsAccounted, RecordsAreAccounted, PaneDies, ThisTurn, Server, Log,
       HostedGhosts, Outlived, Strays, Completed, PaneRuns
  <1>19. FilesAreKnown' /\ AnswersWhatWasAsked' /\ ReplyIsDelivered'
    BY HostedAssumption, <1>1 DEF HostedInv, HostedTypeOK, RolloutTyped, FilesAreKnown,
       RecordsAreAccounted, AnswersWhatWasAsked, ReplyIsDelivered, PaneDies, ThisTurn, Server,
       Log, HostedGhosts, Outlived
  <1>20. QED
    BY <1>11, <1>12, <1>13, <1>14, <1>15, <1>16, <1>17, <1>18, <1>19 DEF HostedInv, HostedTypeOK

LEMMA FollowsHosted ==
    ASSUME HostedInv, Follows
    PROVE  HostedInv'
  <1>1. Since' = Since /\ Unread' = Unread
    BY SinceStands DEF Follows, Log
  <1>11. TurnTyped'
    BY HostedAssumption, <1>1 DEF HostedInv, HostedTypeOK, TurnTyped, DaemonSteps, Follows,
       ThisTurn, Server, Log, HostedGhosts, Outlived
  <1>12. FlagsTyped'
    BY Zenon DEF HostedInv, HostedTypeOK, FlagsTyped, Follows, ThisTurn, Server, Log,
       HostedGhosts, Outlived
  <1>13. RolloutTyped'
    BY HostedAssumption, <1>1 DEF HostedInv, HostedTypeOK, RolloutTyped, Endings, Follows,
       ThisTurn, Server, Log, HostedGhosts, Outlived
  <1>14. GhostsTyped'
    BY HostedAssumption, <1>1 DEF HostedInv, HostedTypeOK, TurnTyped, GhostsTyped, Follows,
       ThisTurn, Server, Log, HostedGhosts, Outlived
  <1>15. RunsAreInTurn' /\ PaneIsAccounted'
    BY HostedAssumption, <1>1 DEF HostedInv, HostedTypeOK, TurnTyped, RunsAreInTurn,
       PaneIsAccounted, WorkIsAccounted, Follows, ThisTurn, Server, Log, HostedGhosts, Outlived,
       PaneUp, PaneRuns
  <1>16. GivenOnce'
    BY HostedAssumption, <1>1 DEF HostedInv, HostedTypeOK, TurnTyped, GhostsTyped,
       RunsAreInTurn, GivenOnce, Follows, ThisTurn, Server, Log, HostedGhosts, Outlived,
       PaneRuns
  <1>17. WorkIsAccounted'
    BY HostedAssumption, <1>1 DEF HostedInv, HostedTypeOK, TurnTyped, RunsAreInTurn,
       PaneIsAccounted, WorkIsAccounted, RecordsAreAccounted, Follows, ThisTurn, Server, Log,
       HostedGhosts, Outlived, Strays, PaneUp, PaneRuns
  <1>18. RecordsAreAccounted'
    BY HostedAssumption, <1>1 DEF HostedInv, HostedTypeOK, TurnTyped, RunsAreInTurn,
       PaneIsAccounted, WorkIsAccounted, RecordsAreAccounted, Follows, ThisTurn, Server, Log,
       HostedGhosts, Outlived, Strays, Completed, PaneRuns
  <1>19. FilesAreKnown' /\ AnswersWhatWasAsked' /\ ReplyIsDelivered'
    BY HostedAssumption, <1>1 DEF HostedInv, HostedTypeOK, RolloutTyped, FilesAreKnown,
       RecordsAreAccounted, AnswersWhatWasAsked, ReplyIsDelivered, Follows, ThisTurn, Server,
       Log, HostedGhosts, Outlived
  <1>20. QED
    BY <1>11, <1>12, <1>13, <1>14, <1>15, <1>16, <1>17, <1>18, <1>19 DEF HostedInv, HostedTypeOK

LEMMA PaneFinishedHosted ==
    ASSUME HostedInv, NEW b \in BOOLEAN, PaneFinished(b)
    PROVE  HostedInv'
  <1>1. Since' = Since /\ Unread' = Unread
    BY SinceStands DEF PaneFinished, Log
  <1>2. Unlinks \/ UNCHANGED <<turnFiles, filesLeft>>
    BY Zenon DEF PaneFinished
  <1>3. turnFiles' \subseteq {"env", "tornEnv", "sh", "out"} /\ filesLeft' \in BOOLEAN
    BY <1>2, UnlinksFits DEF HostedInv, HostedTypeOK, TurnTyped, FlagsTyped
  <1>4. run \in PaneRuns
    BY HostedAssumption DEF HostedInv, HostedTypeOK, TurnTyped, RunsAreInTurn, PaneRuns,
       PaneFinished
  <1>11. TurnTyped'
    BY HostedAssumption, <1>1, <1>2, <1>3, <1>4 DEF HostedInv, HostedTypeOK, TurnTyped,
       DaemonSteps, PaneFinished, Kills, Unlinks, ThisTurn, Server, Log, HostedGhosts, Outlived,
       Mishap, Awaits
  <1>12. FlagsTyped'
    BY <1>3, Zenon DEF HostedInv, HostedTypeOK, FlagsTyped, PaneFinished, Kills, Unlinks,
       ThisTurn, Server, Log, HostedGhosts, Outlived
  <1>13. RolloutTyped'
    BY HostedAssumption, <1>1, <1>2, <1>3, <1>4 DEF HostedInv, HostedTypeOK, RolloutTyped,
       Endings, PaneFinished, Kills, Unlinks, ThisTurn, Server, Log, HostedGhosts, Outlived
  <1>14. GhostsTyped'
    BY HostedAssumption, <1>1, <1>2, <1>3, <1>4 DEF HostedInv, HostedTypeOK, TurnTyped,
       GhostsTyped, PaneFinished, Kills, Unlinks, ThisTurn, Server, Log, HostedGhosts, Outlived
  <1>15. RunsAreInTurn' /\ PaneIsAccounted'
    BY HostedAssumption, <1>1, <1>2, <1>3, <1>4 DEF HostedInv, HostedTypeOK, TurnTyped,
       RunsAreInTurn, PaneIsAccounted, WorkIsAccounted, PaneFinished, Kills, Unlinks, ThisTurn,
       Server, Log, HostedGhosts, Outlived, PaneUp, PaneRuns
  <1>16. GivenOnce'
    BY HostedAssumption, <1>1, <1>2, <1>3, <1>4 DEF HostedInv, HostedTypeOK, TurnTyped,
       GhostsTyped, RunsAreInTurn, GivenOnce, PaneFinished, Kills, Unlinks, ThisTurn, Server,
       Log, HostedGhosts, Outlived, PaneRuns
  <1>17. WorkIsAccounted'
    <2>1. pane = "working" /\ paneRun \notin Strays => \E r \in Since : r.of \in Strays
      BY DEF HostedInv, RunsAreInTurn, WorkIsAccounted, RecordsAreAccounted, Completed,
         PaneFinished
    <2>2. pane' = "working" => pane = "working" /\ paneRun = run /\ UNCHANGED <<paneRun, run>>
      BY DEF HostedInv, RunsAreInTurn, PaneFinished, Kills
    <2>3. pane' = "working" => paneRun' \in Strays'
      BY <2>1, <2>2 DEF PaneFinished, Strays
    <2>4. QED
      BY <2>3 DEF WorkIsAccounted
  <1>18. RecordsAreAccounted'
    BY HostedAssumption, <1>1, <1>2, <1>3, <1>4 DEF HostedInv, HostedTypeOK, TurnTyped,
       RunsAreInTurn, PaneIsAccounted, WorkIsAccounted, RecordsAreAccounted, PaneFinished,
       Kills, Unlinks, ThisTurn, Server, Log, HostedGhosts, Outlived, Strays, Completed,
       PaneRuns
  <1>19. FilesAreKnown' /\ AnswersWhatWasAsked' /\ ReplyIsDelivered'
    BY HostedAssumption, <1>1, <1>2, <1>3, <1>4 DEF HostedInv, HostedTypeOK, RolloutTyped,
       FilesAreKnown, RecordsAreAccounted, AnswersWhatWasAsked, ReplyIsDelivered, PaneFinished,
       Kills, Unlinks, ThisTurn, Server, Log, HostedGhosts, Outlived
  <1>20. QED
    BY <1>11, <1>12, <1>13, <1>14, <1>15, <1>16, <1>17, <1>18, <1>19 DEF HostedInv, HostedTypeOK

LEMMA PaneMissingHosted ==
    ASSUME HostedInv, NEW b \in BOOLEAN, PaneMissing(b)
    PROVE  HostedInv'
  <1>1. Since' = Since /\ Unread' = Unread
    BY SinceStands DEF PaneMissing, Log
  <1>2. Unlinks \/ UNCHANGED <<turnFiles, filesLeft>>
    BY Zenon DEF PaneMissing
  <1>3. turnFiles' \subseteq {"env", "tornEnv", "sh", "out"} /\ filesLeft' \in BOOLEAN
    BY <1>2, UnlinksFits DEF HostedInv, HostedTypeOK, TurnTyped, FlagsTyped
  <1>4. completedSeen' \in BOOLEAN
    BY DEF HostedInv, HostedTypeOK, FlagsTyped, PaneMissing
  <1>11. TurnTyped'
    BY HostedAssumption, <1>1, <1>2, <1>3 DEF HostedInv, HostedTypeOK, TurnTyped, DaemonSteps,
       PaneMissing, Unlinks, ThisTurn, Server, Log, HostedGhosts, Outlived, Mishap, Awaits
  <1>12. FlagsTyped'
    BY <1>3, <1>4, Zenon DEF HostedInv, HostedTypeOK, FlagsTyped, PaneMissing, Unlinks,
       ThisTurn, Server, Log, HostedGhosts, Outlived
  <1>13. RolloutTyped'
    BY HostedAssumption, <1>1, <1>2, <1>3 DEF HostedInv, HostedTypeOK, RolloutTyped, Endings,
       PaneMissing, Unlinks, ThisTurn, Server, Log, HostedGhosts, Outlived
  <1>14. GhostsTyped'
    BY HostedAssumption, <1>1, <1>2, <1>3 DEF HostedInv, HostedTypeOK, TurnTyped, GhostsTyped,
       PaneMissing, Unlinks, ThisTurn, Server, Log, HostedGhosts, Outlived
  <1>15. RunsAreInTurn' /\ PaneIsAccounted'
    BY HostedAssumption, <1>1, <1>2, <1>3 DEF HostedInv, HostedTypeOK, TurnTyped, RunsAreInTurn,
       PaneIsAccounted, WorkIsAccounted, PaneMissing, Unlinks, ThisTurn, Server, Log,
       HostedGhosts, Outlived, PaneUp, PaneRuns
  <1>16. GivenOnce'
    BY HostedAssumption, <1>1, <1>2, <1>3 DEF HostedInv, HostedTypeOK, TurnTyped, GhostsTyped,
       RunsAreInTurn, GivenOnce, PaneMissing, Unlinks, ThisTurn, Server, Log, HostedGhosts,
       Outlived, PaneRuns
  <1>17. WorkIsAccounted'
    <2>1. UNCHANGED <<pane, paneRun, run, exec>> /\ Strays' = Strays
      BY DEF PaneMissing, Server, Strays, Outlived
    <2>2. CASE Completed
      BY <2>1, <2>2 DEF HostedInv, RunsAreInTurn, WorkIsAccounted, PaneMissing
    <2>3. CASE ~Completed
      BY <1>1, <2>1, <2>3 DEF HostedInv, RunsAreInTurn, WorkIsAccounted, PaneMissing, Completed
    <2>4. QED
      BY <2>2, <2>3
  <1>18. RecordsAreAccounted'
    BY HostedAssumption, <1>1, <1>2, <1>3 DEF HostedInv, HostedTypeOK, TurnTyped, RunsAreInTurn,
       PaneIsAccounted, WorkIsAccounted, RecordsAreAccounted, PaneMissing, Unlinks, ThisTurn,
       Server, Log, HostedGhosts, Outlived, Strays, Completed, PaneRuns
  <1>19. FilesAreKnown' /\ AnswersWhatWasAsked' /\ ReplyIsDelivered'
    BY HostedAssumption, <1>1, <1>2, <1>3 DEF HostedInv, HostedTypeOK, RolloutTyped,
       FilesAreKnown, RecordsAreAccounted, AnswersWhatWasAsked, ReplyIsDelivered, PaneMissing,
       Unlinks, ThisTurn, Server, Log, HostedGhosts, Outlived
  <1>20. QED
    BY <1>11, <1>12, <1>13, <1>14, <1>15, <1>16, <1>17, <1>18, <1>19 DEF HostedInv, HostedTypeOK

LEMMA PlainExitsHosted ==
    ASSUME HostedInv, NEW w \in {"zero", "nonzero"}, PlainExits(w)
    PROVE  HostedInv'
  <1>1. Since' = Since /\ Unread' = Unread
    BY SinceStands DEF PlainExits, Log
  <1>11. TurnTyped'
    BY HostedAssumption, <1>1 DEF HostedInv, HostedTypeOK, TurnTyped, DaemonSteps, PlainExits,
       ThisTurn, Server, Log, HostedGhosts, Outlived, Mishap, Awaits
  <1>12. FlagsTyped'
    BY Zenon DEF HostedInv, HostedTypeOK, FlagsTyped, PlainExits, ThisTurn, Server, Log,
       HostedGhosts, Outlived
  <1>13. RolloutTyped'
    BY HostedAssumption, <1>1 DEF HostedInv, HostedTypeOK, RolloutTyped, Endings, PlainExits,
       ThisTurn, Server, Log, HostedGhosts, Outlived
  <1>14. GhostsTyped'
    BY HostedAssumption, <1>1 DEF HostedInv, HostedTypeOK, TurnTyped, GhostsTyped, PlainExits,
       ThisTurn, Server, Log, HostedGhosts, Outlived
  <1>15. RunsAreInTurn' /\ PaneIsAccounted'
    BY HostedAssumption, <1>1 DEF HostedInv, HostedTypeOK, TurnTyped, RunsAreInTurn,
       PaneIsAccounted, WorkIsAccounted, PlainExits, ThisTurn, Server, Log, HostedGhosts,
       Outlived, PaneUp, PaneRuns
  <1>16. GivenOnce'
    BY HostedAssumption, <1>1 DEF HostedInv, HostedTypeOK, TurnTyped, GhostsTyped,
       RunsAreInTurn, GivenOnce, PlainExits, ThisTurn, Server, Log, HostedGhosts, Outlived,
       PaneRuns
  <1>17. WorkIsAccounted'
    BY HostedAssumption, <1>1 DEF HostedInv, HostedTypeOK, TurnTyped, RunsAreInTurn,
       PaneIsAccounted, WorkIsAccounted, RecordsAreAccounted, PlainExits, ThisTurn, Server, Log,
       HostedGhosts, Outlived, Strays, PaneUp, PaneRuns
  <1>18. RecordsAreAccounted'
    BY HostedAssumption, <1>1 DEF HostedInv, HostedTypeOK, TurnTyped, RunsAreInTurn,
       PaneIsAccounted, WorkIsAccounted, RecordsAreAccounted, PlainExits, ThisTurn, Server, Log,
       HostedGhosts, Outlived, Strays, Completed, PaneRuns
  <1>19. FilesAreKnown' /\ AnswersWhatWasAsked' /\ ReplyIsDelivered'
    BY HostedAssumption, <1>1 DEF HostedInv, HostedTypeOK, RolloutTyped, FilesAreKnown,
       RecordsAreAccounted, AnswersWhatWasAsked, ReplyIsDelivered, PlainExits, ThisTurn, Server,
       Log, HostedGhosts, Outlived
  <1>20. QED
    BY <1>11, <1>12, <1>13, <1>14, <1>15, <1>16, <1>17, <1>18, <1>19 DEF HostedInv, HostedTypeOK

LEMMA InterruptedHosted ==
    ASSUME HostedInv, NEW how \in {"stopped", "deadline", "overflow"}, Interrupted(how)
    PROVE  HostedInv'
  <1>1. Since' = Since /\ Unread' = Unread
    BY SinceStands DEF Interrupted, Log
  <1>2. Unlinks \/ UNCHANGED <<turnFiles, filesLeft>>
    BY Zenon DEF Interrupted
  <1>3. turnFiles' \subseteq {"env", "tornEnv", "sh", "out"} /\ filesLeft' \in BOOLEAN
    BY <1>2, UnlinksFits DEF HostedInv, HostedTypeOK, TurnTyped, FlagsTyped
  <1>11. TurnTyped'
    BY HostedAssumption, <1>1, <1>2, <1>3 DEF HostedInv, HostedTypeOK, TurnTyped, DaemonSteps,
       Interrupted, TurnIs, Unlinks, ThisTurn, Server, Log, HostedGhosts, Outlived, Mishap,
       Awaits
  <1>12. FlagsTyped'
    BY <1>3, Zenon DEF HostedInv, HostedTypeOK, FlagsTyped, Interrupted, TurnIs, Unlinks,
       ThisTurn, Server, Log, HostedGhosts, Outlived
  <1>13. RolloutTyped'
    BY HostedAssumption, <1>1, <1>2, <1>3 DEF HostedInv, HostedTypeOK, RolloutTyped, Endings,
       Interrupted, TurnIs, Unlinks, ThisTurn, Server, Log, HostedGhosts, Outlived
  <1>14. GhostsTyped'
    BY HostedAssumption, <1>1, <1>2, <1>3 DEF HostedInv, HostedTypeOK, TurnTyped, GhostsTyped,
       Interrupted, TurnIs, Unlinks, ThisTurn, Server, Log, HostedGhosts, Outlived
  <1>15. RunsAreInTurn' /\ PaneIsAccounted'
    BY HostedAssumption, <1>1, <1>2, <1>3 DEF HostedInv, HostedTypeOK, TurnTyped, RunsAreInTurn,
       PaneIsAccounted, WorkIsAccounted, Interrupted, TurnIs, Unlinks, ThisTurn, Server, Log,
       HostedGhosts, Outlived, PaneUp, PaneRuns
  <1>16. GivenOnce'
    BY HostedAssumption, <1>1, <1>2, <1>3 DEF HostedInv, HostedTypeOK, TurnTyped, GhostsTyped,
       RunsAreInTurn, GivenOnce, Interrupted, TurnIs, Unlinks, ThisTurn, Server, Log,
       HostedGhosts, Outlived, PaneRuns
  <1>17. WorkIsAccounted'
    BY HostedAssumption, <1>1, <1>2, <1>3 DEF HostedInv, HostedTypeOK, TurnTyped, RunsAreInTurn,
       PaneIsAccounted, WorkIsAccounted, RecordsAreAccounted, Interrupted, TurnIs, Unlinks,
       ThisTurn, Server, Log, HostedGhosts, Outlived, Strays, PaneUp, PaneRuns
  <1>18. RecordsAreAccounted'
    BY HostedAssumption, <1>1, <1>2, <1>3 DEF HostedInv, HostedTypeOK, TurnTyped, RunsAreInTurn,
       PaneIsAccounted, WorkIsAccounted, RecordsAreAccounted, Interrupted, TurnIs, Unlinks,
       ThisTurn, Server, Log, HostedGhosts, Outlived, Strays, Completed, PaneRuns
  <1>19. FilesAreKnown' /\ AnswersWhatWasAsked' /\ ReplyIsDelivered'
    BY HostedAssumption, <1>1, <1>2, <1>3 DEF HostedInv, HostedTypeOK, RolloutTyped,
       FilesAreKnown, RecordsAreAccounted, AnswersWhatWasAsked, ReplyIsDelivered, Interrupted,
       TurnIs, Unlinks, ThisTurn, Server, Log, HostedGhosts, Outlived
  <1>20. QED
    BY <1>11, <1>12, <1>13, <1>14, <1>15, <1>16, <1>17, <1>18, <1>19 DEF HostedInv, HostedTypeOK

LEMMA ResumesBusyHosted ==
    ASSUME HostedInv, ResumesBusy
    PROVE  HostedInv'
  <1>1. BeginsRun /\ HostedTypeOK
    BY DEF ResumesBusy, HostedInv
  <1>2. /\ Since' = {} /\ run \in Nat /\ run' = run + 1 /\ run' \in PaneRuns
        /\ run' \in 0..MaxPaneRuns /\ readTo' = Len(record) /\ record' = record
        /\ completedSeen' = FALSE /\ daemonAt' = "beginning" /\ readTo' \in 0..Len(record')
    BY <1>1, BeginsUnread
  <1>3. pane = "working" => paneRun \in Strays
    BY DEF ResumesBusy, HostedInv, WorkIsAccounted, WasBusy, LastIs, Unread, ErrorKinds,
       Since
  <1>11. TurnTyped'
    BY HostedAssumption, <1>1, <1>2, <1>3 DEF HostedInv, HostedTypeOK, TurnTyped, DaemonSteps,
       ResumesBusy, ThisTurn, Server, Log, HostedGhosts, Outlived
  <1>12. FlagsTyped'
    BY <1>2, Zenon DEF HostedInv, HostedTypeOK, FlagsTyped, ResumesBusy, ThisTurn, Server, Log,
       HostedGhosts, Outlived
  <1>13. RolloutTyped'
    BY HostedAssumption, <1>1, <1>2, <1>3 DEF HostedInv, HostedTypeOK, RolloutTyped, Endings,
       ResumesBusy, ThisTurn, Server, Log, HostedGhosts, Outlived
  <1>14. GhostsTyped'
    BY HostedAssumption, <1>1, <1>2, <1>3 DEF HostedInv, HostedTypeOK, TurnTyped, GhostsTyped,
       ResumesBusy, ThisTurn, Server, Log, HostedGhosts, Outlived
  <1>15. RunsAreInTurn' /\ PaneIsAccounted'
    BY HostedAssumption, <1>1, <1>2, <1>3 DEF HostedInv, HostedTypeOK, TurnTyped, RunsAreInTurn,
       PaneIsAccounted, WorkIsAccounted, ResumesBusy, ThisTurn, Server, Log, HostedGhosts,
       Outlived, PaneUp, PaneRuns
  <1>16. GivenOnce'
    BY HostedAssumption, <1>1, <1>2, <1>3 DEF HostedInv, HostedTypeOK, TurnTyped, GhostsTyped,
       RunsAreInTurn, GivenOnce, ResumesBusy, ThisTurn, Server, Log, HostedGhosts, Outlived,
       PaneRuns
  <1>17. WorkIsAccounted'
    BY HostedAssumption, <1>1, <1>2, <1>3 DEF HostedInv, HostedTypeOK, TurnTyped, RunsAreInTurn,
       PaneIsAccounted, WorkIsAccounted, RecordsAreAccounted, ResumesBusy, ThisTurn, Server,
       Log, HostedGhosts, Outlived, Strays, PaneUp, PaneRuns
  <1>18. RecordsAreAccounted'
    BY HostedAssumption, <1>1, <1>2, <1>3 DEF HostedInv, HostedTypeOK, TurnTyped, RunsAreInTurn,
       PaneIsAccounted, WorkIsAccounted, RecordsAreAccounted, ResumesBusy, ThisTurn, Server,
       Log, HostedGhosts, Outlived, Strays, Completed, PaneRuns
  <1>19. FilesAreKnown' /\ AnswersWhatWasAsked' /\ ReplyIsDelivered'
    BY HostedAssumption, <1>1, <1>2, <1>3 DEF HostedInv, HostedTypeOK, RolloutTyped,
       FilesAreKnown, RecordsAreAccounted, AnswersWhatWasAsked, ReplyIsDelivered, ResumesBusy,
       ThisTurn, Server, Log, HostedGhosts, Outlived
  <1>20. QED
    BY <1>11, <1>12, <1>13, <1>14, <1>15, <1>16, <1>17, <1>18, <1>19 DEF HostedInv, HostedTypeOK

LEMMA AsksAgainHosted ==
    ASSUME HostedInv, AsksAgain
    PROVE  HostedInv'
  <1>1. BeginsRun /\ HostedTypeOK
    BY DEF AsksAgain, HostedInv
  <1>2. /\ Since' = {} /\ run \in Nat /\ run' = run + 1 /\ run' \in PaneRuns
        /\ run' \in 0..MaxPaneRuns /\ readTo' = Len(record) /\ record' = record
        /\ completedSeen' = FALSE /\ daemonAt' = "beginning" /\ readTo' \in 0..Len(record')
    BY <1>1, BeginsUnread
  <1>3. pane = "working" => paneRun \in Strays
    BY DEF AsksAgain, HostedInv, WorkIsAccounted, SaidNothing, Failing, Unread, Since
  <1>11. TurnTyped'
    BY HostedAssumption, <1>1, <1>2, <1>3 DEF HostedInv, HostedTypeOK, TurnTyped, DaemonSteps,
       AsksAgain, ThisTurn, Server, Log, HostedGhosts, Outlived
  <1>12. FlagsTyped'
    BY <1>2, Zenon DEF HostedInv, HostedTypeOK, FlagsTyped, AsksAgain, ThisTurn, Server, Log,
       HostedGhosts, Outlived
  <1>13. RolloutTyped'
    BY HostedAssumption, <1>1, <1>2, <1>3 DEF HostedInv, HostedTypeOK, RolloutTyped, Endings,
       AsksAgain, ThisTurn, Server, Log, HostedGhosts, Outlived
  <1>14. GhostsTyped'
    BY HostedAssumption, <1>1, <1>2, <1>3 DEF HostedInv, HostedTypeOK, TurnTyped, GhostsTyped,
       AsksAgain, ThisTurn, Server, Log, HostedGhosts, Outlived
  <1>15. RunsAreInTurn' /\ PaneIsAccounted'
    BY HostedAssumption, <1>1, <1>2, <1>3 DEF HostedInv, HostedTypeOK, TurnTyped, RunsAreInTurn,
       PaneIsAccounted, WorkIsAccounted, AsksAgain, ThisTurn, Server, Log, HostedGhosts,
       Outlived, PaneUp, PaneRuns
  <1>16. GivenOnce'
    BY HostedAssumption, <1>1, <1>2, <1>3 DEF HostedInv, HostedTypeOK, TurnTyped, GhostsTyped,
       RunsAreInTurn, GivenOnce, AsksAgain, ThisTurn, Server, Log, HostedGhosts, Outlived,
       PaneRuns
  <1>17. WorkIsAccounted'
    BY HostedAssumption, <1>1, <1>2, <1>3 DEF HostedInv, HostedTypeOK, TurnTyped, RunsAreInTurn,
       PaneIsAccounted, WorkIsAccounted, RecordsAreAccounted, AsksAgain, ThisTurn, Server, Log,
       HostedGhosts, Outlived, Strays, PaneUp, PaneRuns
  <1>18. RecordsAreAccounted'
    BY HostedAssumption, <1>1, <1>2, <1>3 DEF HostedInv, HostedTypeOK, TurnTyped, RunsAreInTurn,
       PaneIsAccounted, WorkIsAccounted, RecordsAreAccounted, AsksAgain, ThisTurn, Server, Log,
       HostedGhosts, Outlived, Strays, Completed, PaneRuns
  <1>19. FilesAreKnown' /\ AnswersWhatWasAsked' /\ ReplyIsDelivered'
    BY HostedAssumption, <1>1, <1>2, <1>3 DEF HostedInv, HostedTypeOK, RolloutTyped,
       FilesAreKnown, RecordsAreAccounted, AnswersWhatWasAsked, ReplyIsDelivered, AsksAgain,
       ThisTurn, Server, Log, HostedGhosts, Outlived
  <1>20. QED
    BY <1>11, <1>12, <1>13, <1>14, <1>15, <1>16, <1>17, <1>18, <1>19 DEF HostedInv, HostedTypeOK

LEMMA ParsesHosted ==
    ASSUME HostedInv, Parses
    PROVE  HostedInv'
  <1>1. Since' = Since /\ Unread' = Unread
    BY SinceStands DEF Parses, Log
  <1>2. record \in Seq([of : PaneRuns, as : Closings]) /\ Len(record) \in Nat
    BY DEF HostedInv, HostedTypeOK, RolloutTyped
  <1>3. readTo \in 0..Len(record)
    BY DEF HostedInv, HostedTypeOK, RolloutTyped
  <1>4. \A i \in Unread : /\ i \in 1..Len(record) /\ record[i] \in Since
                          /\ record[i] \in [of : PaneRuns, as : Closings]
    <2>1. \A i \in Unread : i \in 1..Len(record)
      BY <1>2, <1>3 DEF Unread
    <2>2. \A i \in Unread : record[i] \in Since
      BY DEF Unread, Since
    <2>3. \A i \in 1..Len(record) : record[i] \in [of : PaneRuns, as : Closings]
      BY <1>2, EntriesFit, Zenon
    <2>4. QED
      BY <2>1, <2>2, <2>3, Zenon
  <1>11. TurnTyped'
    BY HostedAssumption, <1>1, <1>2, <1>3, <1>4 DEF HostedInv, HostedTypeOK, TurnTyped,
       DaemonSteps, Parses, TurnIs, ThisTurn, Server, Log, HostedGhosts, Outlived
  <1>12. FlagsTyped'
    BY Zenon DEF HostedInv, HostedTypeOK, FlagsTyped, Parses, TurnIs, ThisTurn, Server, Log,
       HostedGhosts, Outlived
  <1>13. RolloutTyped'
    BY <1>2, <1>3, <1>4, HostedAssumption DEF RolloutTyped, Endings, Parses, TurnIs, LastIs,
       Log, PaneRuns
  <1>14. GhostsTyped'
    BY HostedAssumption, <1>1, <1>2, <1>3, <1>4 DEF HostedInv, HostedTypeOK, TurnTyped,
       GhostsTyped, Parses, TurnIs, ThisTurn, Server, Log, HostedGhosts, Outlived
  <1>15. RunsAreInTurn' /\ PaneIsAccounted'
    BY HostedAssumption, <1>1, <1>2, <1>3, <1>4 DEF HostedInv, HostedTypeOK, TurnTyped,
       RunsAreInTurn, PaneIsAccounted, WorkIsAccounted, Parses, TurnIs, ThisTurn, Server, Log,
       HostedGhosts, Outlived, PaneUp, PaneRuns
  <1>16. GivenOnce'
    BY HostedAssumption, <1>1, <1>2, <1>3, <1>4 DEF HostedInv, HostedTypeOK, TurnTyped,
       GhostsTyped, RunsAreInTurn, GivenOnce, Parses, TurnIs, ThisTurn, Server, Log,
       HostedGhosts, Outlived, PaneRuns
  <1>17. WorkIsAccounted'
    BY HostedAssumption, <1>1, <1>2, <1>3, <1>4 DEF HostedInv, HostedTypeOK, TurnTyped,
       RunsAreInTurn, PaneIsAccounted, WorkIsAccounted, RecordsAreAccounted, Parses, TurnIs,
       ThisTurn, Server, Log, HostedGhosts, Outlived, Strays, PaneUp, PaneRuns
  <1>18. RecordsAreAccounted'
    BY HostedAssumption, <1>1, <1>2, <1>3, <1>4 DEF HostedInv, HostedTypeOK, TurnTyped,
       RunsAreInTurn, PaneIsAccounted, WorkIsAccounted, RecordsAreAccounted, Parses, TurnIs,
       ThisTurn, Server, Log, HostedGhosts, Outlived, Strays, Completed, PaneRuns
  <1>19. FilesAreKnown' /\ AnswersWhatWasAsked'
    BY <1>1, <1>2, <1>4 DEF HostedInv, RecordsAreAccounted, AnswersWhatWasAsked, Parses, TurnIs,
       LastIs, FilesAreKnown, ThisTurn, HostedGhosts, Outlived
  <1>10. ReplyIsDelivered'
    BY <1>1, <1>2, <1>3, <1>4 DEF ReplyIsDelivered, Parses, TurnIs, Unsuccessful,
       FailsWithoutReply, SaidNothing, Failing, Replied, Unread, ErrorKinds, Log
  <1>20. QED
    BY <1>10, <1>11, <1>12, <1>13, <1>14, <1>15, <1>16, <1>17, <1>18, <1>19
       DEF HostedInv, HostedTypeOK

LEMMA TurnEndsHosted ==
    ASSUME HostedInv, NEW b \in BOOLEAN, TurnEnds(b)
    PROVE  HostedInv'
  <1>1. Since' = Since /\ Unread' = Unread
    BY SinceStands DEF TurnEnds, Log
  <1>11. TurnTyped'
    BY HostedAssumption, <1>1 DEF HostedInv, HostedTypeOK, TurnTyped, DaemonSteps, TurnEnds,
       Kills, PaneUp, ThisTurn, Server, Log, HostedGhosts, Outlived, Mishap, Awaits
  <1>12. FlagsTyped'
    BY Zenon DEF HostedInv, HostedTypeOK, FlagsTyped, TurnEnds, Kills, PaneUp, ThisTurn, Server,
       Log, HostedGhosts, Outlived
  <1>13. RolloutTyped'
    BY HostedAssumption, <1>1 DEF HostedInv, HostedTypeOK, RolloutTyped, Endings, TurnEnds,
       Kills, PaneUp, ThisTurn, Server, Log, HostedGhosts, Outlived
  <1>14. GhostsTyped'
    BY HostedAssumption DEF HostedInv, HostedTypeOK, TurnTyped, GhostsTyped, RunsAreInTurn,
       PaneIsAccounted, PaneRuns, TurnEnds, Kills, Swept, PaneUp, Server
  <1>15. RunsAreInTurn' /\ PaneIsAccounted'
    BY HostedAssumption, <1>1 DEF HostedInv, HostedTypeOK, TurnTyped, RunsAreInTurn,
       PaneIsAccounted, WorkIsAccounted, TurnEnds, Kills, PaneUp, ThisTurn, Server, Log,
       HostedGhosts, Outlived, PaneUp, PaneRuns
  <1>16. GivenOnce'
    BY HostedAssumption, <1>1 DEF HostedInv, HostedTypeOK, TurnTyped, GhostsTyped,
       RunsAreInTurn, GivenOnce, TurnEnds, Kills, PaneUp, ThisTurn, Server, Log, HostedGhosts,
       Outlived, PaneRuns
  <1>17. WorkIsAccounted'
    BY HostedAssumption, <1>1 DEF HostedInv, HostedTypeOK, TurnTyped, RunsAreInTurn,
       PaneIsAccounted, WorkIsAccounted, RecordsAreAccounted, TurnEnds, Kills, PaneUp, ThisTurn,
       Server, Log, HostedGhosts, Outlived, Strays, PaneUp, PaneRuns
  <1>18. RecordsAreAccounted'
    BY HostedAssumption, <1>1 DEF HostedInv, HostedTypeOK, TurnTyped, RunsAreInTurn,
       PaneIsAccounted, WorkIsAccounted, RecordsAreAccounted, TurnEnds, Kills, PaneUp, ThisTurn,
       Server, Log, HostedGhosts, Outlived, Strays, Completed, PaneRuns
  <1>19. FilesAreKnown' /\ AnswersWhatWasAsked' /\ ReplyIsDelivered'
    BY HostedAssumption, <1>1 DEF HostedInv, HostedTypeOK, RolloutTyped, FilesAreKnown,
       RecordsAreAccounted, AnswersWhatWasAsked, ReplyIsDelivered, TurnEnds, Kills, PaneUp,
       ThisTurn, Server, Log, HostedGhosts, Outlived
  <1>20. QED
    BY <1>11, <1>12, <1>13, <1>14, <1>15, <1>16, <1>17, <1>18, <1>19 DEF HostedInv, HostedTypeOK

LEMMA CrashesHosted ==
    ASSUME HostedInv, Crashes
    PROVE  HostedInv'
  <1>1. Since' = Since /\ Unread' = Unread
    BY SinceStands DEF Crashes, Log
  <1>3. filesLeft' \in BOOLEAN
    BY DEF Crashes
  <1>11. TurnTyped'
    BY HostedAssumption, <1>1 DEF HostedInv, HostedTypeOK, TurnTyped, DaemonSteps, Crashes,
       ThisTurn, Server, Log, HostedGhosts, Outlived, Mishap, Awaits
  <1>12. FlagsTyped'
    BY <1>3, Zenon DEF HostedInv, HostedTypeOK, FlagsTyped, Crashes, ThisTurn, Server, Log,
       HostedGhosts, Outlived
  <1>13. RolloutTyped'
    BY HostedAssumption, <1>1 DEF HostedInv, HostedTypeOK, RolloutTyped, Endings, Crashes,
       ThisTurn, Server, Log, HostedGhosts, Outlived
  <1>14. GhostsTyped'
    BY HostedAssumption, <1>1 DEF HostedInv, HostedTypeOK, TurnTyped, GhostsTyped, Crashes,
       ThisTurn, Server, Log, HostedGhosts, Outlived
  <1>15. RunsAreInTurn' /\ PaneIsAccounted'
    BY HostedAssumption, <1>1 DEF HostedInv, HostedTypeOK, TurnTyped, RunsAreInTurn,
       PaneIsAccounted, WorkIsAccounted, Crashes, ThisTurn, Server, Log, HostedGhosts, Outlived,
       PaneUp, PaneRuns
  <1>16. GivenOnce'
    BY HostedAssumption, <1>1 DEF HostedInv, HostedTypeOK, TurnTyped, GhostsTyped,
       RunsAreInTurn, GivenOnce, Crashes, ThisTurn, Server, Log, HostedGhosts, Outlived,
       PaneRuns
  <1>17. WorkIsAccounted'
    BY HostedAssumption, <1>1 DEF HostedInv, HostedTypeOK, TurnTyped, RunsAreInTurn,
       PaneIsAccounted, WorkIsAccounted, RecordsAreAccounted, Crashes, ThisTurn, Server, Log,
       HostedGhosts, Outlived, Strays, PaneUp, PaneRuns
  <1>18. RecordsAreAccounted'
    BY HostedAssumption, <1>1 DEF HostedInv, HostedTypeOK, TurnTyped, RunsAreInTurn,
       PaneIsAccounted, WorkIsAccounted, RecordsAreAccounted, Crashes, ThisTurn, Server, Log,
       HostedGhosts, Outlived, Strays, Completed, PaneRuns
  <1>19. FilesAreKnown' /\ AnswersWhatWasAsked' /\ ReplyIsDelivered'
    BY HostedAssumption, <1>1 DEF HostedInv, HostedTypeOK, RolloutTyped, FilesAreKnown,
       RecordsAreAccounted, AnswersWhatWasAsked, ReplyIsDelivered, Crashes, ThisTurn, Server,
       Log, HostedGhosts, Outlived
  <1>20. QED
    BY <1>11, <1>12, <1>13, <1>14, <1>15, <1>16, <1>17, <1>18, <1>19 DEF HostedInv, HostedTypeOK

LEMMA RestartsHosted ==
    ASSUME HostedInv, NEW b \in BOOLEAN, Restarts(b)
    PROVE  HostedInv'
  <1>1. Since' = Since /\ Unread' = Unread
    BY SinceStands DEF Restarts, Log
  <1>11. TurnTyped'
    BY HostedAssumption, <1>1 DEF HostedInv, HostedTypeOK, TurnTyped, DaemonSteps, Restarts,
       Swept, PaneUp, ThisTurn, Server, Log, HostedGhosts, Outlived, Mishap, Awaits
  <1>12. FlagsTyped'
    BY Zenon DEF HostedInv, HostedTypeOK, FlagsTyped, Restarts, Swept, PaneUp, ThisTurn, Server,
       Log, HostedGhosts, Outlived
  <1>13. RolloutTyped'
    BY HostedAssumption, <1>1 DEF HostedInv, HostedTypeOK, RolloutTyped, Endings, Restarts,
       Swept, PaneUp, ThisTurn, Server, Log, HostedGhosts, Outlived
  <1>14. GhostsTyped'
    BY HostedAssumption DEF HostedInv, HostedTypeOK, TurnTyped, GhostsTyped, RunsAreInTurn,
       PaneIsAccounted, PaneRuns, Restarts, Kills, Swept, PaneUp, Server
  <1>15. RunsAreInTurn' /\ PaneIsAccounted'
    BY HostedAssumption, <1>1 DEF HostedInv, HostedTypeOK, TurnTyped, RunsAreInTurn,
       PaneIsAccounted, WorkIsAccounted, Restarts, Swept, PaneUp, ThisTurn, Server, Log,
       HostedGhosts, Outlived, PaneUp, PaneRuns
  <1>16. GivenOnce'
    BY HostedAssumption, <1>1 DEF HostedInv, HostedTypeOK, TurnTyped, GhostsTyped,
       RunsAreInTurn, GivenOnce, Restarts, Swept, PaneUp, ThisTurn, Server, Log, HostedGhosts,
       Outlived, PaneRuns
  <1>17. WorkIsAccounted'
    BY HostedAssumption, <1>1 DEF HostedInv, HostedTypeOK, TurnTyped, RunsAreInTurn,
       PaneIsAccounted, WorkIsAccounted, RecordsAreAccounted, Restarts, Swept, PaneUp, ThisTurn,
       Server, Log, HostedGhosts, Outlived, Strays, PaneUp, PaneRuns
  <1>18. RecordsAreAccounted'
    BY HostedAssumption, <1>1 DEF HostedInv, HostedTypeOK, TurnTyped, RunsAreInTurn,
       PaneIsAccounted, WorkIsAccounted, RecordsAreAccounted, Restarts, Swept, PaneUp, ThisTurn,
       Server, Log, HostedGhosts, Outlived, Strays, Completed, PaneRuns
  <1>19. FilesAreKnown' /\ AnswersWhatWasAsked' /\ ReplyIsDelivered'
    BY HostedAssumption, <1>1 DEF HostedInv, HostedTypeOK, RolloutTyped, FilesAreKnown,
       RecordsAreAccounted, AnswersWhatWasAsked, ReplyIsDelivered, Restarts, Swept, PaneUp,
       ThisTurn, Server, Log, HostedGhosts, Outlived
  <1>20. QED
    BY <1>11, <1>12, <1>13, <1>14, <1>15, <1>16, <1>17, <1>18, <1>19 DEF HostedInv, HostedTypeOK

LEMMA StutterHosted == ASSUME HostedInv, UNCHANGED hostedVars PROVE HostedInv'
  <1>1. Since' = Since /\ Unread' = Unread
    BY SinceStands DEF hostedVars
  <1>2. HostedTypeOK'
    BY DEF hostedVars, HostedInv, HostedTypeOK, TurnTyped, FlagsTyped, RolloutTyped,
       GhostsTyped
  <1>3. QED
    BY <1>1, <1>2 DEF hostedVars, HostedInv, RunsAreInTurn, PaneIsAccounted, GivenOnce,
       WorkIsAccounted, RecordsAreAccounted, Completed, Strays, FilesAreKnown,
       AnswersWhatWasAsked, ReplyIsDelivered

LEMMA HostedInvKept == ASSUME HostedInv, [HostedNext]_hostedVars PROVE HostedInv'
  BY StutterHosted, TurnStartsHosted, StagesHosted, CreatesHosted, ProbesHosted,
     ReleasesHosted, SpawnsHosted, PaneWorksHosted, ChildWorksHosted, PaneDiesHosted,
     FollowsHosted, PaneFinishedHosted, PaneMissingHosted, PlainExitsHosted,
     InterruptedHosted, ResumesBusyHosted, AsksAgainHosted, ParsesHosted, TurnEndsHosted,
     CrashesHosted, RestartsHosted DEF HostedNext

LEMMA HostedInvKeeps == HostedInv => HostedKeeps
  <1>1. SUFFICES ASSUME HostedInv PROVE HostedKeeps
    OBVIOUS
  <1>2. CarriedOnce
    <2>1. Cardinality({}) = 0 /\ Cardinality({"pane"}) = 1 /\ Cardinality({"child"}) = 1
      BY FS_EmptySet, FS_Singleton
    <2>2. QED
      BY <1>1, <2>1 DEF HostedInv, GivenOnce, CarriedOnce
  <1>3. OneAtATime /\ FilesGo
    BY <1>1 DEF HostedInv, RunsAreInTurn, WorkIsAccounted, OneAtATime, FilesAreKnown, FilesGo
  <1>4. QED
    BY <1>1, <1>2, <1>3 DEF HostedInv, HostedKeeps

\* A codex turn is carried out once, in its pane or beside it, and told as it went
\* (backends/codex.py, tmux.py).
THEOREM HostedRunsKeep == HostedSpec => []HostedKeeps
  <1>1. HostedInit => HostedInv
    BY HostedInvStarts
  <1>2. HostedInv /\ [HostedNext]_hostedVars => HostedInv'
    BY HostedInvKept
  <1>3. HostedInv => HostedKeeps
    BY HostedInvKeeps
  <1>4. QED
    BY <1>1, <1>2, <1>3, PTL DEF HostedSpec

-----------------------------------------------------------------------------
(* CodexRollouts.                                                          *)

\* Where a turn stands: its gate is its own until it has found a file.
TurnAtGate(t) ==
    /\ runAt[t] = "queued" => /\ codex[t] = "none" /\ rollout[t] = "none"
                              /\ path[t] = NoFile /\ reply[t] = "none"
    /\ codex[t] = "alive" => runAt[t] \in {"running", "leaving"}
    /\ holdsGate[t] <=> runAt[t] = "running" /\ path[t] = NoFile
    /\ path[t] # NoFile => rollout[path[t]] # "none"
    /\ codex[t] = "alive" /\ runAt[t] = "leaving" => path[t] # NoFile \/ t \in abandoned
    /\ t \notin knownFiles[t]
    /\ reply[t] = "nothing" => runAt[t] = "over" /\ t \notin Freshest(t)

\* One turn holds the lock of a directory.
OneAtGate ==
    /\ \A d \in Directories : d \in locked <=> \E t \in FirstTurns : holdsGate[t] /\ place[t] = d
    /\ \A t, u \in FirstTurns : holdsGate[t] /\ holdsGate[u] /\ place[t] = place[u] => t = u

\* Another turn that may show a new file to the one at the gate was abandoned, or reads
\* another's file itself.
OthersAtGate ==
    \A t, u \in FirstTurns :
        /\ holdsGate[t] /\ u # t /\ place[u] = place[t] /\ u \notin knownFiles[t]
        /\ codex[u] = "alive" \/ rollout[u] # "none"
        => u \in abandoned \/ path[u] \notin {NoFile, u}

RolloutInv ==
    /\ RolloutTypeOK /\ \A t \in FirstTurns : TurnAtGate(t)
    /\ OneAtGate /\ OthersAtGate /\ ReadsItsOwnUnlessAbandoned

LEMMA RolloutInvStarts == RolloutInit => RolloutInv
  <1>1. SUFFICES ASSUME RolloutInit PROVE RolloutInv
    OBVIOUS
  <1>2. RolloutTypeOK
    BY <1>1 DEF RolloutInit, RolloutTypeOK, Files, NoFile
  <1>3. \A t \in FirstTurns : TurnAtGate(t)
    BY <1>1 DEF RolloutInit, TurnAtGate, NoFile
  <1>4. OneAtGate /\ OthersAtGate /\ ReadsItsOwnUnlessAbandoned
    BY <1>1 DEF RolloutInit, OneAtGate, OthersAtGate, ReadsItsOwnUnlessAbandoned, Strayed, NoFile
  <1>5. QED
    BY <1>2, <1>3, <1>4 DEF RolloutInv

\* What a poll finds: the file it had, or a new one of the directory.
LEMMA LocatedIs ==
  ASSUME RolloutTypeOK, NEW t \in FirstTurns
  PROVE  /\ path[t] # NoFile => Located(t) = path[t]
         /\ path[t] = NoFile /\ Located(t) # NoFile =>
              /\ Located(t) \in FirstTurns /\ rollout[Located(t)] # "none"
              /\ Located(t) \notin knownFiles[t] /\ place[Located(t)] = place[t]
         /\ path[t] = NoFile /\ Located(t) = NoFile => t \notin Freshest(t)
         /\ Located(t) \in FirstTurns \cup {NoFile}
         /\ NoFile \notin FirstTurns
  <1> DEFINE here == {f \in Freshest(t) : Directory(f) = Directory(t)}
  <1>1. NoFile \notin FirstTurns
    BY RolloutAssumption DEF NoFile
  <1>2. here \subseteq FirstTurns /\ \A f \in here : rollout[f] # "none" /\ f \notin knownFiles[t]
    BY DEF Freshest, NewFiles, Files
  <1>3. here # {} => (CHOOSE f \in here : TRUE) \in here
    OBVIOUS
  <1>4. FreshestHere(t) = IF here = {} THEN NoFile ELSE CHOOSE f \in here : TRUE
    BY DEF FreshestHere
  <1>5. t \in Freshest(t) => here # {}
    BY DEF Directory
  <1>6. \A f \in here : place[f] = place[t]
    BY DEF Directory
  <1> HIDE DEF here
  <1>7. QED
    BY <1>1, <1>2, <1>3, <1>4, <1>5, <1>6 DEF Located, RolloutTypeOK

LEMMA RolloutTypesKept ==
  ASSUME RolloutTypeOK, [RolloutNext]_rolloutVars PROVE RolloutTypeOK'
  <1>1. ASSUME NEW t \in FirstTurns, NEW inPane \in BOOLEAN, Starts(t, inPane)
        PROVE  RolloutTypeOK'
    BY <1>1 DEF Starts, RolloutTypeOK, Files, Directory
  <1>2. ASSUME NEW t \in FirstTurns, NEW state \in {"open", "complete"}, Writes(t, state)
        PROVE  RolloutTypeOK'
    BY <1>2 DEF Writes, RolloutTypeOK, Files
  <1>3. ASSUME NEW t \in FirstTurns, Exits(t) PROVE RolloutTypeOK'
    BY <1>3 DEF Exits, RolloutTypeOK, Files
  <1>4. ASSUME NEW t \in FirstTurns, Polls(t) PROVE RolloutTypeOK'
    <2>1. sawComplete' \in [FirstTurns -> BOOLEAN]
      <3>1. sawComplete \in [FirstTurns -> BOOLEAN]
        BY DEF RolloutTypeOK
      <3>2. (sawComplete[t] \/ TaskComplete(Located(t))) \in BOOLEAN
        BY DEF TaskComplete
      <3>3. sawComplete' = [sawComplete EXCEPT ![t] = sawComplete[t] \/ TaskComplete(Located(t))]
        BY <1>4 DEF Polls
      <3>4. QED
        BY <3>1, <3>2, <3>3
    <2>2. path' \in [FirstTurns -> FirstTurns \union {NoFile}]
      BY <1>4, LocatedIs DEF Polls, RolloutTypeOK
    <2>3. holdsGate' \in [FirstTurns -> BOOLEAN] /\ locked' \subseteq Directories
      BY <1>4 DEF Polls, Releases, RolloutTypeOK
    <2>4. UNCHANGED <<place, runAt, hosted, knownFiles, codex, rollout, since, reply, abandoned>>
      BY <1>4 DEF Polls
    <2>5. QED
      BY <2>1, <2>2, <2>3, <2>4 DEF RolloutTypeOK, Files
  <1>5. ASSUME NEW t \in FirstTurns, RunReturns(t) PROVE RolloutTypeOK'
    BY <1>5, LocatedIs DEF RunReturns, Releases, RolloutTypeOK, Files
  <1>6. ASSUME NEW t \in FirstTurns, Leaves(t) PROVE RolloutTypeOK'
    BY <1>6 DEF Leaves, Releases, RolloutTypeOK, Files
  <1>7. ASSUME NEW t \in FirstTurns, PaneKilled(t) PROVE RolloutTypeOK'
    BY <1>7 DEF PaneKilled, RolloutTypeOK, Files
  <1>8. CASE UNCHANGED rolloutVars
    BY <1>8 DEF rolloutVars, RolloutTypeOK, Files
  <1>9. QED
    BY <1>1, <1>2, <1>3, <1>4, <1>5, <1>6, <1>7, <1>8 DEF RolloutNext

\* What a step may do to a turn's own standing.
LEMMA TurnAtGateKept ==
  ASSUME RolloutInv, [RolloutNext]_rolloutVars, NEW u \in FirstTurns PROVE TurnAtGate(u)'
  <1>1. /\ RolloutTypeOK /\ TurnAtGate(u) /\ NoFile \notin FirstTurns
        /\ \A v \in FirstTurns : TurnAtGate(v)
        /\ FirstTurns \cap {"nothing", "failed", "none"} = {}
    BY RolloutAssumption DEF RolloutInv, NoFile
  <1>2. ASSUME NEW t \in FirstTurns, NEW inPane \in BOOLEAN, Starts(t, inPane)
        PROVE  TurnAtGate(u)'
    <2>1. t # u => (Freshest(u)' = Freshest(u))
      BY <1>1, <1>2 DEF Starts, Freshest, NewFiles, Files, RolloutTypeOK
    <2>2. CASE t = u
      BY <1>1, <1>2, <2>2 DEF Starts, TurnAtGate, RolloutTypeOK, Files
    <2>3. CASE t # u
      BY <1>1, <1>2, <2>1, <2>3 DEF Starts, TurnAtGate, RolloutTypeOK
    <2>4. QED
      BY <2>2, <2>3
  <1>3. ASSUME NEW t \in FirstTurns, NEW state \in {"open", "complete"}, Writes(t, state)
        PROVE  TurnAtGate(u)'
    <2>1. \A v \in FirstTurns : rollout'[v] = IF v = t THEN state ELSE rollout[v]
      BY <1>1, <1>3 DEF Writes, RolloutTypeOK
    <2>2. u # t /\ u \in Freshest(u)' => u \in Freshest(u)
      <3>1. u # t => since'[u] = since[u] \union {t}
        BY <1>1, <1>3 DEF Writes, RolloutTypeOK
      <3>2. /\ NewFiles(u) \subseteq NewFiles(u)'
            /\ u # t => (u \in NewFiles(u)' => u \in NewFiles(u))
        BY <1>1, <1>3, <2>1 DEF Writes, NewFiles, Files
      <3>3. QED
        BY <3>1, <3>2 DEF Freshest
    <2>3. u = t => reply[u] # "nothing"
      BY <1>1, <1>3 DEF Writes, TurnAtGate
    <2>4. UNCHANGED <<runAt, codex, path, reply, holdsGate, knownFiles, abandoned>>
      BY <1>3 DEF Writes
    <2>5. codex[t] = "alive" /\ path[u] \in FirstTurns \cup {NoFile}
      BY <1>1, <1>3 DEF Writes, RolloutTypeOK
    <2>6. path[u] # NoFile => rollout'[path[u]] # "none"
      BY <1>1, <2>1, <2>5 DEF TurnAtGate
    <2>7. rollout'[u] = "none" => rollout[u] = "none"
      BY <2>1
    <2>8. QED
      BY <1>1, <2>1, <2>2, <2>3, <2>4, <2>5, <2>6 DEF TurnAtGate
  <1>4. ASSUME NEW t \in FirstTurns, Exits(t) PROVE TurnAtGate(u)'
    <2>1. Freshest(u)' = Freshest(u)
      BY <1>4 DEF Exits, Freshest, NewFiles, Files
    <2>2. QED
      BY <1>1, <1>4, <2>1 DEF Exits, TurnAtGate, RolloutTypeOK
  <1>5. ASSUME NEW t \in FirstTurns, Polls(t) PROVE TurnAtGate(u)'
    <2>1. Freshest(u)' = Freshest(u)
      BY <1>5 DEF Polls, Releases, Freshest, NewFiles, Files
    <2>2. /\ UNCHANGED <<runAt, codex, reply, knownFiles, rollout, abandoned>>
          /\ path' = [path EXCEPT ![t] = Located(t)] /\ runAt[t] = "running"
          /\ holdsGate' = IF path[t] = NoFile /\ Located(t) # NoFile
                          THEN [holdsGate EXCEPT ![t] = FALSE] ELSE holdsGate
      BY <1>5 DEF Polls, Releases
    <2>3. path[t] # NoFile => Located(t) = path[t]
      BY <1>1, LocatedIs
    <2>4. Located(t) # NoFile => rollout[Located(t)] # "none"
      BY <1>1, <2>3, LocatedIs DEF TurnAtGate
    <2>5. path' \in [FirstTurns -> FirstTurns \union {NoFile}]
      BY <1>1, <2>2, LocatedIs DEF RolloutTypeOK
    <2>6. path'[t] = Located(t) /\ \A v \in FirstTurns \ {t} : path'[v] = path[v]
      BY <1>1, <2>2 DEF RolloutTypeOK
    <2>7. \A v \in FirstTurns \ {t} : holdsGate'[v] = holdsGate[v]
      BY <1>1, <2>2 DEF RolloutTypeOK
    <2>8. holdsGate'[t] <=> Located(t) = NoFile
      BY <1>1, <2>2, <2>3 DEF RolloutTypeOK, TurnAtGate
    <2>9. QED
      BY <1>1, <2>1, <2>2, <2>3, <2>4, <2>6, <2>7, <2>8 DEF TurnAtGate
  <1>6. ASSUME NEW t \in FirstTurns, RunReturns(t) PROVE TurnAtGate(u)'
    <2>1. Freshest(u)' = Freshest(u)
      BY <1>6 DEF RunReturns, Freshest, NewFiles, Files
    <2>2. /\ UNCHANGED <<knownFiles, rollout, abandoned>>
          /\ path' = [path EXCEPT ![t] = Located(t)] /\ runAt[t] = "running"
          /\ holdsGate' = [holdsGate EXCEPT ![t] = FALSE]
          /\ runAt' = [runAt EXCEPT ![t] = "over"] /\ codex' = [codex EXCEPT ![t] = "gone"]
          /\ reply' = [reply EXCEPT ![t] = IF Located(t) = NoFile THEN "nothing"
                                           ELSE IF TaskComplete(Located(t)) THEN Located(t)
                                           ELSE "failed"]
      BY <1>6 DEF RunReturns, Releases
    <2>3. /\ path[t] # NoFile => Located(t) = path[t]
          /\ Located(t) = NoFile => t \notin Freshest(t)
          /\ Located(t) \in FirstTurns \cup {NoFile}
      BY <1>1, LocatedIs
    <2>4. Located(t) # NoFile => rollout[Located(t)] # "none"
      BY <1>1, <2>3, LocatedIs DEF TurnAtGate
    <2>5. reply'[t] = "nothing" => Located(t) = NoFile
      BY <1>1, <2>2, <2>3 DEF RolloutTypeOK
    <2>6. CASE u = t
      <3>1. /\ path'[u] = Located(t) /\ holdsGate'[u] = FALSE
            /\ runAt'[u] = "over" /\ codex'[u] = "gone"
        BY <1>1, <2>2, <2>6 DEF RolloutTypeOK
      <3>2. QED
        BY <1>1, <2>1, <2>2, <2>3, <2>4, <2>5, <2>6, <3>1 DEF TurnAtGate
    <2>7. CASE u # t
      BY <1>1, <2>1, <2>2, <2>7 DEF TurnAtGate, RolloutTypeOK
    <2>8. QED
      BY <2>6, <2>7
  <1>7. ASSUME NEW t \in FirstTurns, Leaves(t) PROVE TurnAtGate(u)'
    <2>1. Freshest(u)' = Freshest(u)
      BY <1>7 DEF Leaves, Freshest, NewFiles, Files
    <2>2. /\ UNCHANGED <<knownFiles, rollout, path>> /\ runAt[t] = "running"
          /\ holdsGate' = [holdsGate EXCEPT ![t] = FALSE]
          /\ reply' = [reply EXCEPT ![t] = "failed"] /\ abandoned \subseteq abandoned'
      BY <1>7 DEF Leaves, Releases
    <2>3. CASE u = t /\ hosted[t]
      BY <1>1, <1>7, <2>1, <2>2, <2>3 DEF Leaves, TurnAtGate, RolloutTypeOK
    <2>4. CASE u = t /\ ~hosted[t]
      BY <1>1, <1>7, <2>1, <2>2, <2>4 DEF Leaves, TurnAtGate, RolloutTypeOK
    <2>5. CASE u # t
      <3>1. runAt'[u] = runAt[u] /\ codex'[u] = codex[u] /\ holdsGate'[u] = holdsGate[u]
            /\ reply'[u] = reply[u]
        BY <1>1, <1>7, <2>2, <2>5 DEF Leaves, RolloutTypeOK
      <3>2. QED
        BY <1>1, <2>1, <2>2, <3>1 DEF TurnAtGate
    <2>6. QED
      BY <2>3, <2>4, <2>5
  <1>8. ASSUME NEW t \in FirstTurns, PaneKilled(t) PROVE TurnAtGate(u)'
    <2>1. Freshest(u)' = Freshest(u)
      BY <1>8 DEF PaneKilled, Freshest, NewFiles, Files
    <2>2. QED
      BY <1>1, <1>8, <2>1 DEF PaneKilled, TurnAtGate, RolloutTypeOK
  <1>9. CASE UNCHANGED rolloutVars
    <2>1. Freshest(u)' = Freshest(u)
      BY <1>9 DEF rolloutVars, Freshest, NewFiles, Files
    <2>2. QED
      BY <1>1, <1>9, <2>1 DEF rolloutVars, TurnAtGate
  <1>10. QED
    BY <1>2, <1>3, <1>4, <1>5, <1>6, <1>7, <1>8, <1>9 DEF RolloutNext

\* What a step does to the gates: one is taken, one given up, or none.
LEMMA GatesMove ==
  ASSUME RolloutInv, [RolloutNext]_rolloutVars
  PROVE  \/ UNCHANGED <<locked, holdsGate>>
         \/ \E t \in FirstTurns :
              /\ place[t] \notin locked /\ locked' = locked \union {place[t]}
              /\ holdsGate' = [holdsGate EXCEPT ![t] = TRUE]
         \/ \E t \in FirstTurns :
              /\ holdsGate' = [holdsGate EXCEPT ![t] = FALSE]
              /\ locked' = IF holdsGate[t] THEN locked \ {place[t]} ELSE locked
  BY DEF RolloutNext, rolloutVars, Starts, Writes, Exits, Polls, RunReturns, Leaves, PaneKilled,
         Releases, Directory

LEMMA OneAtGateKept ==
  ASSUME RolloutInv, [RolloutNext]_rolloutVars PROVE OneAtGate'
  <1>1. /\ RolloutTypeOK /\ place' = place
        /\ \A d \in Directories :
              d \in locked <=> \E t \in FirstTurns : holdsGate[t] /\ place[t] = d
        /\ \A t, u \in FirstTurns : holdsGate[t] /\ holdsGate[u] /\ place[t] = place[u] => t = u
    BY DEF RolloutInv, OneAtGate, RolloutNext, rolloutVars, Starts, Writes, Exits, Polls,
           RunReturns, Leaves, PaneKilled
  <1>2. DOMAIN holdsGate = FirstTurns /\ \A t \in FirstTurns : place[t] \in Directories
    BY <1>1 DEF RolloutTypeOK
  <1>3. ASSUME NEW t \in FirstTurns, place[t] \notin locked, locked' = locked \union {place[t]},
               holdsGate' = [holdsGate EXCEPT ![t] = TRUE]
        PROVE  OneAtGate'
    <2>1. \A u \in FirstTurns : holdsGate'[u] <=> u = t \/ holdsGate[u]
      BY <1>2, <1>3
    <2>2. \A u \in FirstTurns : holdsGate[u] => place[u] # place[t]
      BY <1>1, <1>2, <1>3
    <2>3. QED
      BY <1>1, <1>2, <1>3, <2>1, <2>2 DEF OneAtGate
  <1>4. ASSUME NEW t \in FirstTurns, holdsGate' = [holdsGate EXCEPT ![t] = FALSE],
               locked' = IF holdsGate[t] THEN locked \ {place[t]} ELSE locked
        PROVE  OneAtGate'
    <2>1. \A u \in FirstTurns : holdsGate'[u] <=> u # t /\ holdsGate[u]
      BY <1>2, <1>4
    <2>2. QED
      BY <1>1, <1>2, <1>4, <2>1 DEF OneAtGate
  <1>5. CASE UNCHANGED <<locked, holdsGate>>
    BY <1>1, <1>5 DEF OneAtGate
  <1>6. QED
    BY <1>3, <1>4, <1>5, GatesMove

\* A turn without the gate whose codex still runs has its file, or never will.
LEMMA RunsPastGate ==
  ASSUME RolloutInv, NEW u \in FirstTurns, codex[u] = "alive", ~holdsGate[u]
  PROVE  u \in abandoned \/ path[u] \notin {NoFile, u} \/ (path[u] = u /\ rollout[u] # "none")
  BY DEF RolloutInv, TurnAtGate

\* Nobody's file is given up for another.
LEMMA FilesStay ==
  ASSUME RolloutInv, [RolloutNext]_rolloutVars
  PROVE  /\ place' = place /\ abandoned \subseteq abandoned'
         /\ \A u \in FirstTurns : path[u] # NoFile => path'[u] = path[u]
         /\ \A u \in FirstTurns : path'[u] = path[u] \/ (path[u] = NoFile /\ holdsGate[u]
              /\ path'[u] = Located(u) /\ path'[u] # NoFile)
  <1>1. RolloutTypeOK /\ \A u \in FirstTurns : TurnAtGate(u)
    BY DEF RolloutInv
  <1>2. place' = place /\ abandoned \subseteq abandoned'
    BY DEF RolloutNext, rolloutVars, Starts, Writes, Exits, Polls, RunReturns, Leaves, PaneKilled
  <1>3. \/ path' = path
        \/ \E t \in FirstTurns : path' = [path EXCEPT ![t] = Located(t)] /\ runAt[t] = "running"
    BY DEF RolloutNext, rolloutVars, Starts, Writes, Exits, Polls, RunReturns, Leaves, PaneKilled
  <1>4. ASSUME NEW t \in FirstTurns, path' = [path EXCEPT ![t] = Located(t)],
               runAt[t] = "running", NEW u \in FirstTurns
        PROVE  /\ path[u] # NoFile => path'[u] = path[u]
               /\ path'[u] = path[u] \/ (path[u] = NoFile /\ holdsGate[u]
                    /\ path'[u] = Located(u) /\ path'[u] # NoFile)
    <2>1. path[t] # NoFile => Located(t) = path[t]
      BY <1>1, LocatedIs
    <2>2. u # t => path'[u] = path[u]
      BY <1>1, <1>4 DEF RolloutTypeOK
    <2>3. path'[t] = Located(t)
      BY <1>1, <1>4 DEF RolloutTypeOK
    <2>4. holdsGate[t] <=> path[t] = NoFile
      BY <1>1, <1>4 DEF TurnAtGate
    <2>5. QED
      BY <2>1, <2>2, <2>3, <2>4
  <1>5. QED
    BY <1>2, <1>3, <1>4

\* A file found at the gate that is not the turn's own is of a turn that was abandoned, or
\* reads another's.
LEMMA FoundAtGate ==
  ASSUME RolloutInv, NEW t \in FirstTurns, path[t] = NoFile, holdsGate[t], Located(t) # NoFile,
         Located(t) # t
  PROVE  Located(t) \in abandoned \/ path[Located(t)] \notin {NoFile, Located(t)}
  <1>1. RolloutTypeOK /\ OthersAtGate
    BY DEF RolloutInv
  <1>2. /\ Located(t) \in FirstTurns /\ rollout[Located(t)] # "none"
        /\ Located(t) \notin knownFiles[t] /\ place[Located(t)] = place[t]
    BY <1>1, LocatedIs
  <1>3. QED
    BY <1>1, <1>2 DEF OthersAtGate

LEMMA OwnFilesKept ==
  ASSUME RolloutInv, [RolloutNext]_rolloutVars PROVE ReadsItsOwnUnlessAbandoned'
  <1>1. /\ abandoned = {} => \A t \in FirstTurns : path[t] \in {NoFile, t}
        /\ \A t \in FirstTurns : path[t] \notin {NoFile, t} =>
             \/ path[t] \in abandoned
             \/ path[t] \in FirstTurns /\ path[path[t]] \notin {NoFile, path[t]}
    BY DEF RolloutInv, ReadsItsOwnUnlessAbandoned, Strayed
  <1>2. /\ abandoned \subseteq abandoned' /\ RolloutTypeOK
        /\ \A u \in FirstTurns : path[u] # NoFile => path'[u] = path[u]
        /\ \A u \in FirstTurns : path'[u] = path[u] \/ (path[u] = NoFile /\ holdsGate[u]
              /\ path'[u] = Located(u) /\ path'[u] # NoFile)
    BY FilesStay DEF RolloutInv
  <1>3. ASSUME NEW t \in FirstTurns, path'[t] \notin {NoFile, t}
        PROVE  /\ abandoned' # {}
               /\ path'[t] \in abandoned' \/ path'[t] \in Strayed'
    <2>1. CASE path'[t] = path[t]
      <3>1. abandoned # {}
        BY <1>1, <1>3, <2>1
      <3>2. \/ path[t] \in abandoned
            \/ path[t] \in FirstTurns /\ path[path[t]] \notin {NoFile, path[t]}
        BY <1>1, <1>3, <2>1
      <3>3. path[t] \in abandoned \/
              (path[t] \in FirstTurns /\ path'[path[t]] \notin {NoFile, path[t]})
        BY <1>2, <3>2
      <3>4. QED
        BY <1>2, <2>1, <3>1, <3>3 DEF Strayed
    <2>2. CASE path[t] = NoFile /\ holdsGate[t] /\ path'[t] = Located(t)
      <3>1. Located(t) \in abandoned \/ path[Located(t)] \notin {NoFile, Located(t)}
        BY <1>3, <2>2, FoundAtGate
      <3>2. Located(t) \in FirstTurns
        BY <1>2, <1>3, <2>2, LocatedIs
      <3>3. Located(t) \in abandoned \/ path'[Located(t)] \notin {NoFile, Located(t)}
        BY <1>2, <3>1, <3>2
      <3>4. abandoned # {}
        BY <1>1, <3>1, <3>2
      <3>5. QED
        BY <1>2, <2>2, <3>2, <3>3, <3>4 DEF Strayed
    <2>3. QED
      BY <1>2, <2>1, <2>2
  <1>4. \A t \in Strayed' : t \in FirstTurns /\ path'[t] \notin {NoFile, t}
    BY DEF Strayed
  <1>5. QED
    BY <1>3, <1>4 DEF ReadsItsOwnUnlessAbandoned

LEMMA OthersAtGateKept ==
  ASSUME RolloutInv, [RolloutNext]_rolloutVars PROVE OthersAtGate'
  <1>1. /\ RolloutTypeOK /\ OthersAtGate /\ OneAtGate /\ \A v \in FirstTurns : TurnAtGate(v)
    BY DEF RolloutInv
  <1>2. SUFFICES ASSUME NEW t \in FirstTurns, NEW u \in FirstTurns, holdsGate'[t], u # t,
                        place'[u] = place'[t], u \notin knownFiles'[t],
                        codex'[u] = "alive" \/ rollout'[u] # "none"
                 PROVE  u \in abandoned' \/ path'[u] \notin {NoFile, u}
    BY DEF OthersAtGate
  <1>3. /\ place' = place /\ abandoned \subseteq abandoned'
        /\ path[u] # NoFile => path'[u] = path[u]
    BY FilesStay
  <1>4. SUFFICES u \in abandoned \/ path[u] \notin {NoFile, u}
    BY <1>3
  <1>5. ASSUME holdsGate[t], knownFiles'[t] = knownFiles[t],
               codex[u] = "alive" \/ rollout[u] # "none"
        PROVE  u \in abandoned \/ path[u] \notin {NoFile, u}
    BY <1>1, <1>2, <1>3, <1>5 DEF OthersAtGate
  <1>6. ASSUME NEW x \in FirstTurns, NEW inPane \in BOOLEAN, Starts(x, inPane)
        PROVE  u \in abandoned \/ path[u] \notin {NoFile, u}
    <2>1. CASE x = t
      <3>1. knownFiles'[t] = Files /\ codex'[u] = codex[u] /\ rollout' = rollout
        BY <1>1, <1>2, <1>6, <2>1 DEF Starts, RolloutTypeOK
      <3>2. rollout[u] = "none" /\ codex[u] = "alive"
        BY <1>2, <3>1 DEF Files
      <3>3. ~holdsGate[u]
        BY <1>1, <1>2, <1>3, <1>6, <2>1 DEF Starts, OneAtGate, Directory, RolloutTypeOK
      <3>4. QED
        BY <3>2, <3>3, RunsPastGate
    <2>2. CASE x = u
      <3>1. holdsGate[t] /\ place[t] \notin locked
        BY <1>1, <1>2, <1>3, <1>6, <2>2 DEF Starts, Directory, RolloutTypeOK
      <3>2. QED
        BY <1>1, <3>1 DEF OneAtGate, RolloutTypeOK
    <2>3. CASE x # t /\ x # u
      <3>1. /\ holdsGate[t] /\ knownFiles'[t] = knownFiles[t] /\ codex'[u] = codex[u]
            /\ rollout' = rollout
        BY <1>1, <1>2, <1>6, <2>3 DEF Starts, RolloutTypeOK
      <3>2. QED
        BY <1>2, <1>5, <3>1
    <2>4. QED
      BY <2>1, <2>2, <2>3
  <1>7. ASSUME NEW x \in FirstTurns, NEW state \in {"open", "complete"}, Writes(x, state)
        PROVE  u \in abandoned \/ path[u] \notin {NoFile, u}
    <2>1. /\ holdsGate' = holdsGate /\ knownFiles' = knownFiles /\ codex' = codex
          /\ codex[x] = "alive" /\ (rollout'[u] = rollout[u] \/ u = x)
      BY <1>1, <1>7 DEF Writes, RolloutTypeOK
    <2>2. QED
      BY <1>2, <1>5, <2>1
  <1>8. ASSUME \E x \in FirstTurns :
              Exits(x) \/ Polls(x) \/ RunReturns(x) \/ Leaves(x) \/ PaneKilled(x)
        PROVE  u \in abandoned \/ path[u] \notin {NoFile, u}
    <2>1. PICK x \in FirstTurns :
               Exits(x) \/ Polls(x) \/ RunReturns(x) \/ Leaves(x) \/ PaneKilled(x)
      BY <1>8
    <2>2. knownFiles' = knownFiles /\ rollout' = rollout
      BY <2>1 DEF Exits, Polls, RunReturns, Leaves, PaneKilled
    <2>3. codex' = codex \/ codex' = [codex EXCEPT ![x] = "gone"]
      BY <2>1 DEF Exits, Polls, RunReturns, Leaves, PaneKilled
    <2>4. holdsGate' = holdsGate \/ holdsGate' = [holdsGate EXCEPT ![x] = FALSE]
      BY <2>1 DEF Exits, Polls, RunReturns, Leaves, PaneKilled, Releases
    <2>5. codex'[u] = "alive" => codex[u] = "alive"
      BY <1>1, <2>3 DEF RolloutTypeOK
    <2>6. holdsGate[t]
      BY <1>1, <1>2, <2>4 DEF RolloutTypeOK
    <2>7. QED
      BY <1>2, <1>5, <2>2, <2>5, <2>6
  <1>9. CASE UNCHANGED rolloutVars
    BY <1>2, <1>5, <1>9 DEF rolloutVars
  <1>10. QED
    BY <1>6, <1>7, <1>8, <1>9 DEF RolloutNext

LEMMA RolloutInvKept == RolloutInv /\ [RolloutNext]_rolloutVars => RolloutInv'
  <1>1. SUFFICES ASSUME RolloutInv, [RolloutNext]_rolloutVars PROVE RolloutInv'
    OBVIOUS
  <1>2. RolloutTypeOK' /\ OneAtGate' /\ OthersAtGate' /\ ReadsItsOwnUnlessAbandoned'
    BY <1>1, RolloutTypesKept, OneAtGateKept, OthersAtGateKept, OwnFilesKept DEF RolloutInv
  <1>3. \A u \in FirstTurns : TurnAtGate(u)'
    BY <1>1, TurnAtGateKept
  <1>4. QED
    BY <1>2, <1>3 DEF RolloutInv

\* One gate held in a locked directory is the one there is.
LEMMA RolloutInvFinds == RolloutInv => RolloutTypeOK /\ FindsItsRollout
  <1>1. SUFFICES ASSUME RolloutInv PROVE RolloutTypeOK /\ FindsItsRollout
    OBVIOUS
  <1>2. RolloutTypeOK /\ OneAtGate /\ ReadsItsOwnUnlessAbandoned
    BY <1>1 DEF RolloutInv
  <1>3. CompletedIsAnswered
    BY <1>1 DEF RolloutInv, TurnAtGate, CompletedIsAnswered
  <1>4. ASSUME NEW d \in Directories
        PROVE  d \in locked <=>
                 Cardinality({t \in FirstTurns : holdsGate[t] /\ Directory(t) = d}) = 1
    <2> DEFINE at == {t \in FirstTurns : holdsGate[t] /\ Directory(t) = d}
    <2>1. \A t, u \in at : t = u
      BY <1>2 DEF OneAtGate, Directory
    <2>2. d \in locked <=> at # {}
      BY <1>2 DEF OneAtGate, Directory
    <2> HIDE DEF at
    <2>3. at = {} => Cardinality(at) # 1
      BY FS_EmptySet
    <2>4. ASSUME at # {} PROVE Cardinality(at) = 1
      <3>1. PICK t \in at : at = {t}
        BY <2>1, <2>4
      <3>2. QED
        BY <3>1, FS_Singleton
    <2>5. d \in locked <=> Cardinality(at) = 1
      BY <2>2, <2>3, <2>4
    <2>6. QED
      BY <2>5 DEF at
  <1>5. QED
    BY <1>2, <1>3, <1>4 DEF FindsItsRollout, GateOpens

\* A first turn reads the rollout of its own codex unless a turn was abandoned, what its codex
\* completed is answered, and its gate opens (_FirstTurnGate, codex.py).
THEOREM RolloutsAreFound == RolloutSpec => []FindsItsRollout
  <1>1. RolloutInit => RolloutInv
    BY RolloutInvStarts
  <1>2. RolloutInv /\ [RolloutNext]_rolloutVars => RolloutInv'
    BY RolloutInvKept
  <1>3. RolloutInv => FindsItsRollout
    BY RolloutInvFinds
  <1>4. QED
    BY <1>1, <1>2, <1>3, PTL DEF RolloutSpec

-----------------------------------------------------------------------------
(* SessionMemory.                                                          *)

AgentRuns == [at : {"idle", "claude", "codex"}, fresh : BOOLEAN, thread : 0..MaxSpoken,
              tells : SUBSET Nat]
Logs == Seq(SUBSET Nat)
Answered == {m \in 1..spoken : answeredBy[m] # "none"}
AnsweredTo(n) == {m \in Answered : m <= n}

\* The logs, and nothing in them is of a turn to come.
LogTypes ==
    /\ claudeLog \in Logs /\ copies \in [Homes -> [1..MaxSpoken -> Logs]]
    /\ Told(claudeLog) \subseteq 0..spoken
    /\ \A h \in Homes, t \in 1..MaxSpoken : Told(copies[h][t]) \subseteq 0..spoken

\* The turns so far and the run under way; a thread is named by a run that ended.
TurnTypes ==
    /\ backend \in {"claude", "codex"} /\ home \in Homes /\ moves \in 0..MaxMoves
    /\ spoken \in 0..MaxSpoken /\ claudeFile \in BOOLEAN
    /\ agentRun \in AgentRuns /\ agentRun.tells \subseteq 0..spoken
    /\ agentRun.at = "idle" => agentRun = NoRun
    /\ agentRun.at # "idle" => threads < spoken
    /\ threads \in 0..spoken /\ thread \in 0..threads
    /\ knew \in Seq(SUBSET Nat) /\ Len(knew) = spoken
    /\ \A n \in 1..spoken : knew[n] \subseteq 0..(n - 1)
    /\ answeredBy \in Seq({"claude", "codex", "none"}) /\ Len(answeredBy) = spoken
    /\ agentRun.at # "idle" => answeredBy[spoken] = "none"

OtherTypes ==
    /\ newer \in [1..MaxSpoken -> Homes] /\ sites \in [Sites -> {"none", "link", "real"}]
    /\ gaps \subseteq {"moved", "behind", "cut"}

\* A codex run has a new thread or the mapped one, whose rollout is in the home.
RunStands ==
    agentRun.at = "codex" =>
        IF agentRun.fresh THEN thread = 0
        ELSE /\ thread # 0 /\ agentRun.thread = thread /\ copies[home][thread] # <<>>

\* A thread that was never named has no rollout; all of them are in the home unless it moved,
\* and then no compaction's trigger is in a log.
RolloutsStand ==
    /\ \A h \in Homes, t \in 1..MaxSpoken : t > threads => copies[h][t] = <<>>
    /\ "moved" \notin gaps =>
         /\ \A h \in Homes, t \in 1..MaxSpoken :
              /\ copies[h][t] # <<>> => h = home /\ newer[t] = home
              /\ 0 \notin Told(copies[h][t])
         /\ 0 \notin Told(claudeLog) /\ 0 \notin agentRun.tells
         /\ thread # 0 => copies[home][thread] # <<>>

\* Unless something was lost: a backend's log tells of all that was answered up to its own
\* last answer, and the run under way has been told of all that was answered.
LogsTell ==
    gaps = {} =>
      /\ \A n \in LastBy("claude") : claudeFile /\ AnsweredTo(n) \subseteq Told(claudeLog)
      /\ \A n \in LastBy("codex") :
           thread # 0 /\ AnsweredTo(n) \subseteq Told(copies[home][thread])
      /\ agentRun.at # "idle" =>
           /\ Answered \subseteq knew[spoken]
           /\ agentRun.fresh => Answered \subseteq agentRun.tells
           /\ agentRun.at = "claude" /\ ~agentRun.fresh => Answered \subseteq Told(claudeLog)
           /\ agentRun.at = "codex" /\ ~agentRun.fresh =>
                Answered \subseteq Told(copies[home][thread])
      /\ KnowsTheConversation

MemoryInv == LogTypes /\ TurnTypes /\ OtherTypes /\ RunStands /\ RolloutsStand /\ LogsTell

LEMMA LogFacts ==
  ASSUME NEW s \in Logs
  PROVE  /\ \A x \in SUBSET Nat :
              /\ Append(s, x) \in Logs /\ Append(s, x) # <<>>
              /\ Told(Append(s, x)) = Told(s) \union x
         /\ Told(s) \subseteq Nat /\ Told(<<>>) = {} /\ <<>> \in Logs
  <1>1. ASSUME NEW x \in SUBSET Nat
        PROVE  /\ Append(s, x) \in Logs /\ Append(s, x) # <<>>
               /\ Told(Append(s, x)) = Told(s) \union x
    <2>1. /\ Append(s, x) \in Logs /\ Len(Append(s, x)) = Len(s) + 1 /\ Len(s) \in Nat
          /\ DOMAIN Append(s, x) = 1..(Len(s) + 1) /\ DOMAIN s = 1..Len(s)
          /\ \A i \in 1..Len(s) : Append(s, x)[i] = s[i]
          /\ Append(s, x)[Len(s) + 1] = x
      BY DEF Logs
    <2>2. Append(s, x) # <<>>
      BY <2>1
    <2>3. Told(Append(s, x)) \subseteq Told(s) \union x
      <3>1. ASSUME NEW i \in DOMAIN Append(s, x) PROVE Append(s, x)[i] \subseteq Told(s) \union x
        BY <2>1 DEF Told
      <3>2. QED
        BY <3>1 DEF Told
    <2>4. Told(s) \union x \subseteq Told(Append(s, x))
      <3>1. ASSUME NEW i \in DOMAIN s PROVE s[i] \subseteq Told(Append(s, x))
        <4>1. i \in DOMAIN Append(s, x) /\ Append(s, x)[i] = s[i]
          BY <2>1
        <4>2. QED
          BY <4>1 DEF Told
      <3>2. x \subseteq Told(Append(s, x))
        <4>1. Len(s) + 1 \in DOMAIN Append(s, x)
          BY <2>1
        <4>2. QED
          BY <2>1, <4>1 DEF Told
      <3>3. QED
        BY <3>1, <3>2 DEF Told
    <2>5. QED
      BY <2>1, <2>2, <2>3, <2>4
  <1>2. Told(s) \subseteq Nat
    <2>1. \A i \in DOMAIN s : s[i] \subseteq Nat
      BY DEF Logs
    <2>2. QED
      BY <2>1 DEF Told
  <1>3. Told(<<>>) = {} /\ <<>> \in Logs
    BY DEF Told, Logs
  <1>4. QED
    BY <1>1, <1>2, <1>3

\* A handoff is of the log, and of all of it unless it was shortened.
LEMMA HandoffIs ==
  ASSUME NEW s \in Logs, NEW budget \in Nat
  PROVE  /\ Handoff(s, budget) \subseteq Told(s)
         /\ Shortened(s, budget) = {} => Handoff(s, budget) = Told(s)
  <1> DEFINE from == IF budget < Len(s) THEN Len(s) - budget + 1 ELSE 1
             last == SubSeq(s, from, Len(s))
  <1>1. Len(s) \in Nat /\ DOMAIN s = 1..Len(s) /\ s \in Seq(SUBSET Nat)
    BY DEF Logs
  <1>a. from \in 1..(Len(s) + 1) /\ (from = 1 \/ budget < Len(s))
    BY <1>1
  <1>b. Shortened(s, budget) = {} => from = 1
    BY DEF Shortened
  <1> HIDE DEF from
  <1>2. /\ DOMAIN last = 1..(Len(s) - from + 1)
        /\ \A i \in 1..(Len(s) - from + 1) : last[i] = s[from + i - 1]
    BY <1>1, <1>a
  <1>3. Handoff(s, budget) = Told(last)
    BY DEF Handoff, LastTurns, from
  <1>4. \A i \in DOMAIN last : from + i - 1 \in DOMAIN s /\ last[i] = s[from + i - 1]
    BY <1>1, <1>a, <1>2
  <1> HIDE DEF last
  <1>5. Told(last) \subseteq Told(s)
    BY <1>4 DEF Told
  <1>6. ASSUME Shortened(s, budget) = {} PROVE Told(s) \subseteq Told(last)
    <2>1. from = 1 /\ DOMAIN last = DOMAIN s
      BY <1>1, <1>2, <1>b, <1>6
    <2>2. \A i \in DOMAIN s : i \in DOMAIN last /\ last[i] = s[i]
      BY <1>1, <1>4, <2>1
    <2>3. QED
      BY <2>2 DEF Told
  <1>7. QED
    BY <1>3, <1>5, <1>6

LEMMA MemoryInvStarts == MemoryInit => MemoryInv
  <1>1. SUFFICES ASSUME MemoryInit PROVE MemoryInv
    OBVIOUS
  <1>2. {MaxSpoken, MaxMoves, HandoffTurns} \subseteq Nat
    BY MemoryAssumption
  <1>3. Told(<<>>) = {} /\ <<>> \in Logs
    BY DEF Told, Logs
  <1>4. NoRun \in AgentRuns /\ NoRun.at = "idle" /\ NoRun.tells = {}
    BY <1>2 DEF NoRun, AgentRuns
  <1>5. LogTypes
    BY <1>1, <1>3 DEF MemoryInit, LogTypes, Homes
  <1>6. TurnTypes
    <2>1. knew \in Seq(SUBSET Nat) /\ Len(knew) = 0
      BY <1>1 DEF MemoryInit
    <2>2. answeredBy \in Seq({"claude", "codex", "none"}) /\ Len(answeredBy) = 0
      BY <1>1 DEF MemoryInit
    <2>3. spoken = 0 /\ threads = 0 /\ thread = 0 /\ moves = 0 /\ agentRun = NoRun
      BY <1>1 DEF MemoryInit
    <2>4. agentRun \in AgentRuns /\ agentRun.tells = {} /\ agentRun.at = "idle"
      BY <1>4, <2>3
    <2>5. backend \in {"claude", "codex"} /\ home \in Homes /\ claudeFile \in BOOLEAN
      BY <1>1 DEF MemoryInit
    <2>6. 1..spoken = {} /\ 0 \in 0..MaxSpoken /\ 0 \in 0..MaxMoves
      BY <1>2, <2>3
    <2>7. QED
      BY <2>1, <2>2, <2>3, <2>4, <2>5, <2>6 DEF TurnTypes
  <1>7. OtherTypes
    BY <1>1 DEF MemoryInit, OtherTypes, Homes, Sites
  <1>8. RunStands
    BY <1>1, <1>4 DEF MemoryInit, RunStands
  <1>9. RolloutsStand
    BY <1>1, <1>3, <1>4 DEF MemoryInit, RolloutsStand, Homes
  <1>10. LogsTell
    BY <1>1, <1>4 DEF MemoryInit, LogsTell, LastBy, Answered, KnowsTheConversation
  <1>11. QED
    BY <1>5, <1>6, <1>7, <1>8, <1>9, <1>10 DEF MemoryInv

\* What is the same when a turn begins, and what it begins with.
BeganWith(b, isNew, thr, tells) ==
    /\ spoken' = spoken + 1 /\ spoken' \in 1..MaxSpoken /\ spoken \in Nat
    /\ UNCHANGED <<backend, home, moves>> /\ agentRun = NoRun
    /\ agentRun' \in AgentRuns /\ agentRun'.at = b /\ agentRun'.fresh = isNew
    /\ agentRun'.thread = thr /\ agentRun'.tells = tells
    /\ knew' \in Seq(SUBSET Nat) /\ Len(knew') = spoken' /\ knew'[spoken'] = tells
    /\ answeredBy' \in Seq({"claude", "codex", "none"}) /\ Len(answeredBy') = spoken'
    /\ answeredBy'[spoken'] = "none"
    /\ \A n \in 1..spoken : knew'[n] = knew[n] /\ answeredBy'[n] = answeredBy[n]
    /\ Answered' = Answered
    /\ \A c \in {"claude", "codex"} : LastBy(c)' = LastBy(c) /\ LastBy(c) \subseteq Answered

LEMMA BeginsIs ==
  ASSUME TurnTypes, NEW b \in {"claude", "codex"}, NEW isNew \in BOOLEAN,
         NEW thr \in 0..MaxSpoken, NEW tells \in SUBSET (0..spoken),
         Begins(b, isNew, thr, tells)
  PROVE  BeganWith(b, isNew, thr, tells)
  <1>0. MaxSpoken \in Nat
    BY MemoryAssumption
  <1>1. /\ spoken' = spoken + 1 /\ spoken' \in 1..MaxSpoken /\ spoken \in Nat
        /\ UNCHANGED <<backend, home, moves>> /\ agentRun = NoRun
    BY <1>0 DEF Begins, TurnTypes
  <1>2. /\ agentRun' \in AgentRuns /\ agentRun'.at = b /\ agentRun'.fresh = isNew
        /\ agentRun'.thread = thr /\ agentRun'.tells = tells
    BY <1>1 DEF Begins, AgentRuns
  <1>3. /\ knew' \in Seq(SUBSET Nat) /\ Len(knew') = spoken' /\ knew'[spoken'] = tells
        /\ \A n \in 1..spoken : knew'[n] = knew[n]
    BY <1>1 DEF Begins, TurnTypes
  <1>4. /\ answeredBy' \in Seq({"claude", "codex", "none"}) /\ Len(answeredBy') = spoken'
        /\ answeredBy'[spoken'] = "none" /\ \A n \in 1..spoken : answeredBy'[n] = answeredBy[n]
    BY <1>1 DEF Begins, TurnTypes
  <1>5. Answered' = Answered
    BY <1>1, <1>4 DEF Answered
  <1>6. DOMAIN answeredBy = 1..spoken /\ DOMAIN answeredBy' = 1..spoken'
    BY <1>1, <1>4 DEF TurnTypes
  <1>7. ASSUME NEW c \in {"claude", "codex"}
        PROVE  LastBy(c)' = LastBy(c) /\ LastBy(c) \subseteq Answered
    BY <1>1, <1>4, <1>6 DEF LastBy, Answered
  <1>8. QED
    BY <1>1, <1>2, <1>3, <1>4, <1>5, <1>7 DEF BeganWith

LEMMA BeginsTypes ==
  ASSUME TurnTypes, NEW b \in {"claude", "codex"}, NEW isNew \in BOOLEAN,
         NEW thr \in 0..MaxSpoken, NEW tells \in SUBSET (0..spoken),
         Begins(b, isNew, thr, tells),
         threads' = threads, thread' \in {thread, 0}, claudeFile' = claudeFile
  PROVE  TurnTypes'
  <1>0. BeganWith(b, isNew, thr, tells)
    BY BeginsIs
  <1>1. /\ spoken' = spoken + 1 /\ spoken' \in 1..MaxSpoken /\ spoken \in Nat
        /\ UNCHANGED <<backend, home, moves>>
        /\ agentRun' \in AgentRuns /\ agentRun'.at = b /\ agentRun'.tells = tells
        /\ knew' \in Seq(SUBSET Nat) /\ Len(knew') = spoken' /\ knew'[spoken'] = tells
        /\ answeredBy' \in Seq({"claude", "codex", "none"}) /\ Len(answeredBy') = spoken'
        /\ answeredBy'[spoken'] = "none"
        /\ \A n \in 1..spoken : knew'[n] = knew[n]
    BY <1>0 DEF BeganWith
  <1>2. /\ backend \in {"claude", "codex"} /\ home \in Homes /\ moves \in 0..MaxMoves
        /\ claudeFile \in BOOLEAN /\ threads \in 0..spoken /\ thread \in 0..threads
        /\ \A n \in 1..spoken : knew[n] \subseteq 0..(n - 1)
    BY DEF TurnTypes
  <1>3. \A n \in 1..spoken' : knew'[n] \subseteq 0..(n - 1)
    BY <1>1, <1>2
  <1>4. threads' \in 0..spoken' /\ threads' < spoken' /\ thread' \in 0..threads'
    BY <1>1, <1>2
  <1>5. spoken' \in 0..MaxSpoken /\ tells \subseteq 0..spoken'
    BY <1>1
  <1>6. QED
    BY <1>1, <1>2, <1>3, <1>4, <1>5 DEF TurnTypes

\* A log's tellings as the turns go on.
LEMMA BeginsTells ==
  ASSUME MemoryInv, NEW b \in {"claude", "codex"}, NEW isNew \in BOOLEAN,
         NEW thr \in 0..MaxSpoken, NEW tells \in SUBSET (0..spoken),
         Begins(b, isNew, thr, tells), claudeLog' = claudeLog, claudeFile' = claudeFile,
         gaps \subseteq gaps',
         gaps' = {} =>
           /\ Answered \subseteq tells
           /\ ~isNew => tells \subseteq (IF b = "claude" THEN Told(claudeLog)
                                         ELSE Told(copies'[home][thread']))
           /\ \/ thread' = thread /\ copies' = copies
              \/ LastBy("codex") = {}
  PROVE  LogsTell'
  <1>1. SUFFICES ASSUME gaps' = {} PROVE LogsTell'
    BY DEF LogsTell
  <1>2. TurnTypes /\ LogsTell /\ gaps = {}
    BY <1>1 DEF MemoryInv
  <1>0. BeganWith(b, isNew, thr, tells)
    BY <1>2, BeginsIs
  <1>3. /\ spoken' = spoken + 1 /\ spoken' \in 1..MaxSpoken /\ spoken \in Nat /\ home' = home
        /\ agentRun'.at = b /\ agentRun'.fresh = isNew /\ agentRun'.tells = tells
        /\ knew'[spoken'] = tells /\ answeredBy'[spoken'] = "none"
        /\ Len(knew') = spoken' /\ Len(answeredBy') = spoken'
        /\ \A n \in 1..spoken : knew'[n] = knew[n] /\ answeredBy'[n] = answeredBy[n]
        /\ Answered' = Answered
        /\ \A c \in {"claude", "codex"} : LastBy(c)' = LastBy(c) /\ LastBy(c) \subseteq Answered
        /\ knew' \in Seq(SUBSET Nat)
    BY <1>0 DEF BeganWith
  <1>4. \A n : AnsweredTo(n)' = AnsweredTo(n)
    BY <1>3 DEF AnsweredTo
  <1>5. \A n \in LastBy("claude")' :
          claudeFile' /\ AnsweredTo(n)' \subseteq Told(claudeLog')
    <2>1. \A n \in LastBy("claude") : claudeFile /\ AnsweredTo(n) \subseteq Told(claudeLog)
      BY <1>2 DEF LogsTell
    <2>2. LastBy("claude")' = LastBy("claude") /\ claudeLog' = claudeLog /\ claudeFile' = claudeFile
      BY <1>3
    <2>3. QED
      BY <1>4, <2>1, <2>2
  <1>6. \A n \in LastBy("codex")' :
          thread' # 0 /\ AnsweredTo(n)' \subseteq Told(copies'[home'][thread'])
    <2>1. \A n \in LastBy("codex") :
            thread # 0 /\ AnsweredTo(n) \subseteq Told(copies[home][thread])
      BY <1>2 DEF LogsTell
    <2>2. LastBy("codex")' = LastBy("codex")
      BY <1>3
    <2>3. (thread' = thread /\ copies' = copies) \/ LastBy("codex") = {}
      BY <1>1
    <2>4. QED
      BY <1>3, <1>4, <2>1, <2>2, <2>3
  <1>7. /\ Answered' \subseteq knew'[spoken']
        /\ agentRun'.fresh => Answered' \subseteq agentRun'.tells
        /\ agentRun'.at = "claude" /\ ~agentRun'.fresh => Answered' \subseteq Told(claudeLog')
        /\ agentRun'.at = "codex" /\ ~agentRun'.fresh =>
             Answered' \subseteq Told(copies'[home'][thread'])
    BY <1>1, <1>3
  <1>8. KnowsTheConversation'
    <2>1. \A n \in DOMAIN knew :
            answeredBy[n] # "none" => {m \in 1..(n - 1) : answeredBy[m] # "none"} \subseteq knew[n]
      BY <1>2 DEF LogsTell, KnowsTheConversation
    <2>2. DOMAIN knew = 1..spoken /\ DOMAIN knew' = 1..(spoken + 1)
      BY <1>2, <1>3 DEF TurnTypes
    <2>3. ASSUME NEW n \in DOMAIN knew', answeredBy'[n] # "none",
                 NEW m \in 1..(n - 1), answeredBy'[m] # "none"
          PROVE  m \in knew'[n]
      <3>1. n \in 1..spoken /\ m \in 1..spoken
        BY <1>3, <2>2, <2>3
      <3>2. QED
        BY <1>3, <2>1, <2>2, <2>3, <3>1
    <2>4. QED
      BY <2>3 DEF KnowsTheConversation
  <1>9. QED
    BY <1>5, <1>6, <1>7, <1>8 DEF LogsTell

\* Whoever is not behind has, in its own log, all that was answered.
LEMMA NotBehind ==
  ASSUME TurnTypes, NEW b \in {"claude", "codex"}, ~Behind(b), NEW m \in Answered
  PROVE  \E n \in LastBy(b) : m \in AnsweredTo(n)
  <1>1. m \in 1..spoken /\ answeredBy[m] # "none" /\ DOMAIN answeredBy = 1..spoken
    BY DEF Answered, TurnTypes
  <1>2. answeredBy[m] = b => m \in LastBy(b)
    BY <1>1 DEF LastBy
  <1>3. answeredBy[m] # b => \E n \in LastBy(b) : ~(n < m)
    BY <1>1 DEF Behind
  <1>4. LastBy(b) \subseteq 1..spoken /\ spoken \in Nat
    BY <1>1 DEF LastBy, TurnTypes
  <1>5. QED
    BY <1>1, <1>2, <1>3, <1>4 DEF AnsweredTo

LEMMA ClaudeBegins ==
  ASSUME MemoryInv, ClaudeResumes \/ \E budget \in 0..HandoffTurns : ClaudeStarts(budget)
  PROVE  MemoryInv'
  <1>1. /\ LogTypes /\ TurnTypes /\ OtherTypes /\ RunStands /\ RolloutsStand /\ LogsTell
        /\ MaxSpoken \in Nat /\ HandoffTurns \in Nat
    BY MemoryAssumption DEF MemoryInv
  <1>2. UNCHANGED <<claudeLog, claudeFile, thread, threads, copies, newer, sites>>
    BY DEF ClaudeResumes, ClaudeStarts
  <1>3. PICK isNew \in BOOLEAN, tells \in SUBSET (0..spoken) :
          /\ Begins("claude", isNew, 0, tells)
          /\ gaps \subseteq gaps' /\ gaps' \subseteq gaps \union {"behind", "cut"}
          /\ "moved" \notin gaps => 0 \notin tells
          /\ gaps' = {} => Answered \subseteq tells
          /\ ~isNew => tells \subseteq Told(claudeLog)
    <2>1. CASE ClaudeResumes
      <3>1. /\ Begins("claude", FALSE, 0, Told(claudeLog))
            /\ gaps' = IF Behind("claude") THEN gaps \union {"behind"} ELSE gaps
        BY <2>1 DEF ClaudeResumes
      <3>2. Told(claudeLog) \in SUBSET (0..spoken)
        BY <1>1 DEF LogTypes
      <3>3. "moved" \notin gaps => 0 \notin Told(claudeLog)
        BY <1>1 DEF RolloutsStand
      <3>4. ASSUME gaps' = {} PROVE Answered \subseteq Told(claudeLog)
        <4>1. gaps = {} /\ ~Behind("claude")
          BY <3>1, <3>4
        <4>2. \A n \in LastBy("claude") : AnsweredTo(n) \subseteq Told(claudeLog)
          BY <1>1, <4>1 DEF LogsTell
        <4>3. ASSUME NEW m \in Answered PROVE m \in Told(claudeLog)
          BY <1>1, <4>1, <4>2, NotBehind
        <4>4. QED
          BY <4>3
      <3>5. QED
        BY <3>1, <3>2, <3>3, <3>4
    <2>2. ASSUME NEW budget \in 0..HandoffTurns, ClaudeStarts(budget)
          PROVE  \E isNew \in BOOLEAN, tells \in SUBSET (0..spoken) :
                   /\ Begins("claude", isNew, 0, tells)
                   /\ gaps \subseteq gaps' /\ gaps' \subseteq gaps \union {"behind", "cut"}
                   /\ "moved" \notin gaps => 0 \notin tells
                   /\ gaps' = {} => Answered \subseteq tells
                   /\ ~isNew => tells \subseteq Told(claudeLog)
      <3>1. /\ ~claudeFile /\ Begins("claude", TRUE, 0, Handoff(CodexTurns, budget))
            /\ gaps' = gaps \union Shortened(CodexTurns, budget)
        BY <2>2 DEF ClaudeStarts
      <3>2. thread \in 0..MaxSpoken /\ \A t \in 1..MaxSpoken : newer[t] \in Homes
        BY <1>1 DEF TurnTypes, OtherTypes
      <3>3. CodexTurns = <<>> \/ \E h \in Homes, t \in 1..MaxSpoken : CodexTurns = copies[h][t]
        BY <1>1, <3>2 DEF CodexTurns, Mapped
      <3>4. <<>> \in Logs /\ Told(<<>>) = {}
        BY DEF Logs, Told
      <3>5. CodexTurns \in Logs /\ Told(CodexTurns) \subseteq 0..spoken
        BY <1>1, <3>3, <3>4 DEF LogTypes
      <3>6. "moved" \notin gaps => 0 \notin Told(CodexTurns)
        BY <1>1, <3>3, <3>4 DEF RolloutsStand
      <3>7. /\ Handoff(CodexTurns, budget) \subseteq Told(CodexTurns)
            /\ Shortened(CodexTurns, budget) = {} =>
                 Handoff(CodexTurns, budget) = Told(CodexTurns)
        BY <1>1, <3>5, HandoffIs
      <3>8. Shortened(CodexTurns, budget) \subseteq {"cut"}
        BY DEF Shortened
      <3>9. ASSUME gaps' = {} PROVE Answered \subseteq Handoff(CodexTurns, budget)
        <4>1. gaps = {} /\ Handoff(CodexTurns, budget) = Told(CodexTurns)
          BY <3>1, <3>7, <3>9
        <4>2. LastBy("claude") = {}
          BY <1>1, <3>1, <4>1 DEF LogsTell
        <4>3. ASSUME NEW m \in Answered PROVE m \in Told(CodexTurns)
          <5>1. m \in 1..spoken /\ answeredBy[m] \in {"claude", "codex"}
                /\ DOMAIN answeredBy = 1..spoken /\ spoken \in Nat
            BY <1>1 DEF Answered, TurnTypes
          <5>2. m \in LastBy("codex") /\ m \in AnsweredTo(m)
            BY <4>2, <4>3, <5>1 DEF LastBy, AnsweredTo
          <5>3. thread # 0 /\ m \in Told(copies[home][thread])
            BY <1>1, <4>1, <5>2 DEF LogsTell
          <5>4. home \in Homes /\ thread \in 1..MaxSpoken
            BY <1>1, <3>2, <5>3 DEF TurnTypes
          <5>5. newer[thread] = home
            BY <1>1, <4>1, <5>3, <5>4 DEF RolloutsStand
          <5>6. QED
            BY <5>3, <5>5 DEF CodexTurns, Mapped
        <4>4. QED
          BY <4>1, <4>3
      <3>10. QED
        BY <3>1, <3>5, <3>6, <3>7, <3>8, <3>9
    <2>3. QED
      BY <2>1, <2>2
  <1>a. 0 \in 0..MaxSpoken /\ thread' \in {thread, 0} /\ threads' = threads
    BY <1>1, <1>2
  <1>0. BeganWith("claude", isNew, 0, tells)
    BY <1>1, <1>3, <1>a, BeginsIs
  <1>4. /\ spoken' = spoken + 1 /\ spoken \in Nat /\ home' = home /\ agentRun' \in AgentRuns
        /\ agentRun'.at = "claude" /\ agentRun'.tells = tells
    BY <1>0 DEF BeganWith
  <1>5. TurnTypes'
    BY <1>1, <1>2, <1>3, <1>a, BeginsTypes
  <1>6. LogTypes'
    <2>1. 0..spoken \subseteq 0..spoken'
      BY <1>4
    <2>2. QED
      BY <1>1, <1>2, <2>1 DEF LogTypes
  <1>7. OtherTypes'
    BY <1>1, <1>2, <1>3 DEF OtherTypes
  <1>8. RunStands'
    BY <1>4 DEF RunStands
  <1>9. RolloutsStand'
    BY <1>1, <1>2, <1>3, <1>4 DEF RolloutsStand
  <1>10. LogsTell'
    <2>1. gaps' = {} =>
           /\ Answered \subseteq tells
           /\ ~isNew => tells \subseteq (IF "claude" = "claude" THEN Told(claudeLog)
                                         ELSE Told(copies'[home][thread']))
           /\ \/ thread' = thread /\ copies' = copies
              \/ LastBy("codex") = {}
      BY <1>2, <1>3
    <2>2. claudeLog' = claudeLog /\ claudeFile' = claudeFile
      BY <1>2
    <2>3. QED
      BY <1>3, <1>a, <2>1, <2>2, BeginsTells
  <1>11. QED
    BY <1>5, <1>6, <1>7, <1>8, <1>9, <1>10 DEF MemoryInv

\* A run that is handed the mapped thread: its rollout, copied to the home when only the
\* shared tree has it.
LEMMA CodexResumesWith ==
  ASSUME MemoryInv, NEW cleared \in BOOLEAN, CodexResumes(cleared) PROVE MemoryInv'
  <1>1. /\ LogTypes /\ TurnTypes /\ OtherTypes /\ RunStands /\ RolloutsStand /\ LogsTell
        /\ MaxSpoken \in Nat
    BY MemoryAssumption DEF MemoryInv
  <1> DEFINE found == IF copies[home][thread] # <<>> THEN copies[home][thread]
                      ELSE copies["shared"][thread]
             tells == Told(found)
  <1>2. /\ thread # 0 /\ (copies[home][thread] # <<>> \/ copies["shared"][thread] # <<>>)
        /\ Begins("codex", FALSE, thread, tells)
        /\ copies' = [copies EXCEPT ![home][thread] = found]
        /\ newer' = IF copies[home][thread] # <<>> THEN newer ELSE [newer EXCEPT ![thread] = home]
        /\ gaps' = IF Behind("codex") THEN gaps \union {"behind"} ELSE gaps
        /\ UNCHANGED <<claudeLog, claudeFile, thread, threads>> /\ Linked(cleared)
    BY DEF CodexResumes, Mapped, Resumable
  <1>3. thread \in 1..MaxSpoken /\ home \in Homes /\ "shared" \in Homes /\ thread \in 0..MaxSpoken
        /\ thread <= threads
    BY <1>1, <1>2 DEF TurnTypes, Homes
  <1>4. /\ found \in Logs /\ found # <<>> /\ tells \in SUBSET (0..spoken)
        /\ \E h \in Homes : found = copies[h][thread]
    BY <1>1, <1>2, <1>3 DEF LogTypes
  <1>5. ASSUME "moved" \notin gaps PROVE copies' = copies /\ newer' = newer /\ 0 \notin tells
                                         /\ found = copies[home][thread]
    <2>1. copies[home][thread] # <<>>
      BY <1>1, <1>2, <1>3, <1>5 DEF RolloutsStand
    <2>2. found = copies[home][thread] /\ newer' = newer
      BY <1>2, <2>1
    <2>3. 0 \notin tells
      BY <1>1, <1>3, <1>5, <2>2 DEF RolloutsStand
    <2>4. copies' = copies
      BY <1>1, <1>2, <1>3, <2>2 DEF LogTypes
    <2>5. QED
      BY <2>2, <2>3, <2>4
  <1> HIDE DEF found, tells
  <1>6. \A h \in Homes, t \in 1..MaxSpoken :
          copies'[h][t] = IF h = home /\ t = thread THEN found ELSE copies[h][t]
    BY <1>1, <1>2, <1>3 DEF LogTypes
  <1>7. BeganWith("codex", FALSE, thread, tells)
    BY <1>1, <1>2, <1>3, <1>4, BeginsIs
  <1>8. /\ spoken' = spoken + 1 /\ spoken \in Nat /\ home' = home /\ agentRun' \in AgentRuns
        /\ agentRun'.at = "codex" /\ agentRun'.tells = tells /\ agentRun'.fresh = FALSE
        /\ agentRun'.thread = thread
    BY <1>7 DEF BeganWith
  <1>9. TurnTypes'
    BY <1>1, <1>2, <1>3, <1>4, BeginsTypes
  <1>10. LogTypes'
    <2>1. 0..spoken \subseteq 0..spoken'
      BY <1>8
    <2>2. copies' \in [Homes -> [1..MaxSpoken -> Logs]]
      BY <1>1, <1>2, <1>3, <1>4 DEF LogTypes
    <2>3. \A h \in Homes, t \in 1..MaxSpoken : Told(copies'[h][t]) \subseteq 0..spoken
      BY <1>1, <1>4, <1>6 DEF LogTypes, tells
    <2>4. QED
      BY <1>1, <1>2, <2>1, <2>2, <2>3 DEF LogTypes
  <1>11. OtherTypes'
    <2>1. newer' \in [1..MaxSpoken -> Homes] /\ gaps' \subseteq {"moved", "behind", "cut"}
      BY <1>1, <1>2, <1>3 DEF OtherTypes
    <2>2. sites' \in [Sites -> {"none", "link", "real"}]
      BY <1>1, <1>2 DEF Linked, OtherTypes
    <2>3. QED
      BY <2>1, <2>2 DEF OtherTypes
  <1>12. RunStands'
    BY <1>2, <1>3, <1>4, <1>6, <1>8 DEF RunStands
  <1>13. RolloutsStand'
    <2>1. \A h \in Homes, t \in 1..MaxSpoken : t > threads => copies'[h][t] = <<>>
      <3>1. ASSUME NEW h \in Homes, NEW t \in 1..MaxSpoken, t > threads PROVE t # thread
        BY <1>1, <1>3, <3>1 DEF TurnTypes
      <3>2. QED
        BY <1>1, <1>6, <3>1 DEF RolloutsStand
    <2>2. "moved" \notin gaps' => "moved" \notin gaps
      BY <1>2
    <2>3. QED
      BY <1>1, <1>2, <1>5, <1>8, <2>1, <2>2 DEF RolloutsStand
  <1>14. LogsTell'
    <2>1. ASSUME gaps' = {}
          PROVE  Answered \subseteq tells /\ copies' = copies
      <3>1. gaps = {} /\ ~Behind("codex")
        BY <1>2, <2>1
      <3>2. copies' = copies /\ found = copies[home][thread]
        BY <1>5, <3>1
      <3>3. \A n \in LastBy("codex") : AnsweredTo(n) \subseteq Told(copies[home][thread])
        BY <1>1, <3>1 DEF LogsTell
      <3>4. ASSUME NEW m \in Answered PROVE m \in tells
        <4>1. PICK n \in LastBy("codex") : m \in AnsweredTo(n)
          BY <1>1, <3>1, NotBehind
        <4>2. QED
          BY <3>2, <3>3, <4>1 DEF tells
      <3>5. QED
        BY <3>2, <3>4
    <2>2. tells \subseteq Told(copies'[home][thread'])
      BY <1>2, <1>3, <1>6 DEF tells
    <2>3. gaps' = {} =>
           /\ Answered \subseteq tells
           /\ ~FALSE => tells \subseteq (IF "codex" = "claude" THEN Told(claudeLog)
                                         ELSE Told(copies'[home][thread']))
           /\ \/ thread' = thread /\ copies' = copies
              \/ LastBy("codex") = {}
      BY <1>2, <2>1, <2>2
    <2>4. claudeLog' = claudeLog /\ claudeFile' = claudeFile /\ gaps \subseteq gaps'
      BY <1>2
    <2>5. QED
      BY <1>2, <1>3, <1>4, <2>3, <2>4, BeginsTells
  <1>15. QED
    BY <1>9, <1>10, <1>11, <1>12, <1>13, <1>14 DEF MemoryInv

LEMMA CodexStartsWith ==
  ASSUME MemoryInv, NEW budget \in 0..HandoffTurns, NEW cleared \in BOOLEAN,
         CodexStarts(budget, cleared)
  PROVE  MemoryInv'
  <1>1. /\ LogTypes /\ TurnTypes /\ OtherTypes /\ RunStands /\ RolloutsStand /\ LogsTell
        /\ MaxSpoken \in Nat /\ HandoffTurns \in Nat
    BY MemoryAssumption DEF MemoryInv
  <1> DEFINE tells == Handoff(claudeLog, budget)
  <1>2. /\ thread # 0 => copies[home][thread] = <<>>
        /\ Begins("codex", TRUE, 0, tells) /\ thread' = 0
        /\ gaps' = gaps \union Shortened(claudeLog, budget)
        /\ UNCHANGED <<claudeLog, claudeFile, threads, copies, newer>> /\ Linked(cleared)
    BY DEF CodexStarts, Mapped
  <1>3. /\ tells \subseteq Told(claudeLog)
        /\ Shortened(claudeLog, budget) = {} => tells = Told(claudeLog)
        /\ Shortened(claudeLog, budget) \subseteq {"cut"}
    BY <1>1, HandoffIs DEF LogTypes, Shortened
  <1>4. tells \in SUBSET (0..spoken) /\ ("moved" \notin gaps => 0 \notin tells)
    BY <1>1, <1>3 DEF LogTypes, RolloutsStand
  <1>5. 0 \in 0..MaxSpoken /\ thread' \in {thread, 0} /\ threads' = threads
    BY <1>1, <1>2
  <1> HIDE DEF tells
  <1>6. BeganWith("codex", TRUE, 0, tells)
    BY <1>1, <1>2, <1>4, <1>5, BeginsIs
  <1>7. /\ spoken' = spoken + 1 /\ spoken \in Nat /\ home' = home /\ agentRun' \in AgentRuns
        /\ agentRun'.at = "codex" /\ agentRun'.tells = tells /\ agentRun'.fresh = TRUE
    BY <1>6 DEF BeganWith
  <1>8. TurnTypes'
    BY <1>1, <1>2, <1>4, <1>5, BeginsTypes
  <1>9. LogTypes'
    <2>1. 0..spoken \subseteq 0..spoken'
      BY <1>7
    <2>2. QED
      BY <1>1, <1>2, <2>1 DEF LogTypes
  <1>10. OtherTypes'
    <2>1. sites' \in [Sites -> {"none", "link", "real"}]
      BY <1>1, <1>2 DEF Linked, OtherTypes
    <2>2. QED
      BY <1>1, <1>2, <1>3, <2>1 DEF OtherTypes
  <1>11. RunStands'
    BY <1>2, <1>7 DEF RunStands
  <1>12. RolloutsStand'
    BY <1>1, <1>2, <1>4, <1>7 DEF RolloutsStand
  <1>13. LogsTell'
    <2>1. ASSUME gaps' = {} PROVE Answered \subseteq tells /\ LastBy("codex") = {}
      <3>1. gaps = {} /\ tells = Told(claudeLog)
        BY <1>2, <1>3, <2>1
      <3>2. thread = 0
        BY <1>1, <1>2, <3>1 DEF RolloutsStand
      <3>3. LastBy("codex") = {}
        BY <1>1, <3>1, <3>2 DEF LogsTell
      <3>4. ASSUME NEW m \in Answered PROVE m \in tells
        <4>1. m \in 1..spoken /\ answeredBy[m] \in {"claude", "codex"}
              /\ DOMAIN answeredBy = 1..spoken /\ spoken \in Nat
          BY <1>1 DEF Answered, TurnTypes
        <4>2. m \in LastBy("claude") /\ m \in AnsweredTo(m)
          BY <3>3, <3>4, <4>1 DEF LastBy, AnsweredTo
        <4>3. QED
          BY <1>1, <3>1, <4>2 DEF LogsTell
      <3>5. QED
        BY <3>3, <3>4
    <2>2. gaps' = {} =>
           /\ Answered \subseteq tells
           /\ ~TRUE => tells \subseteq (IF "codex" = "claude" THEN Told(claudeLog)
                                         ELSE Told(copies'[home][thread']))
           /\ \/ thread' = thread /\ copies' = copies
              \/ LastBy("codex") = {}
      BY <2>1
    <2>3. claudeLog' = claudeLog /\ claudeFile' = claudeFile /\ gaps \subseteq gaps'
      BY <1>2
    <2>4. QED
      BY <1>2, <1>4, <1>5, <2>2, <2>3, BeginsTells
  <1>14. QED
    BY <1>8, <1>9, <1>10, <1>11, <1>12, <1>13 DEF MemoryInv

\* What a run leaves when it ends, with or without an answer.
EndedWith(verdict) ==
    /\ agentRun' = NoRun /\ spoken' = spoken /\ spoken \in 1..MaxSpoken /\ MaxSpoken \in Nat
    /\ UNCHANGED <<backend, home, moves, knew>>
    /\ answeredBy' \in Seq({"claude", "codex", "none"}) /\ Len(answeredBy') = spoken
    /\ answeredBy'[spoken] = verdict
    /\ \A n \in 1..(spoken - 1) : answeredBy'[n] = answeredBy[n]
    /\ Answered \subseteq 1..(spoken - 1)
    /\ Answered' = Answered \union (IF verdict = "none" THEN {} ELSE {spoken})
    /\ \A c \in {"claude", "codex"} :
         /\ LastBy(c)' = LastBy(c) \union (IF verdict = c THEN {spoken} ELSE {})
         /\ LastBy(c) \subseteq Answered

LEMMA RunEndsIs ==
  ASSUME TurnTypes, agentRun.at # "idle", NEW verdict \in {"claude", "codex", "none"},
         RunEnds(verdict)
  PROVE  EndedWith(verdict)
  <1>1. /\ MaxSpoken \in Nat /\ agentRun' = NoRun /\ spoken' = spoken
        /\ UNCHANGED <<backend, home, moves, knew>>
    BY MemoryAssumption DEF RunEnds
  <1>2. spoken \in 1..MaxSpoken /\ answeredBy[spoken] = "none"
    BY <1>1 DEF TurnTypes
  <1>3. /\ answeredBy' \in Seq({"claude", "codex", "none"}) /\ Len(answeredBy') = spoken
        /\ answeredBy'[spoken] = verdict
        /\ \A n \in 1..(spoken - 1) : answeredBy'[n] = answeredBy[n]
    BY <1>1, <1>2 DEF RunEnds, TurnTypes
  <1>4. DOMAIN answeredBy = 1..spoken /\ DOMAIN answeredBy' = 1..spoken
    BY <1>3 DEF TurnTypes
  <1>5. Answered \subseteq 1..(spoken - 1)
    BY <1>2 DEF Answered
  <1>6. \A n \in 1..spoken : answeredBy'[n] = IF n = spoken THEN verdict ELSE answeredBy[n]
    BY <1>2, <1>3
  <1>7. Answered' = Answered \union (IF verdict = "none" THEN {} ELSE {spoken})
    BY <1>1, <1>2, <1>6 DEF Answered
  <1>8. ASSUME NEW c \in {"claude", "codex"}
        PROVE  /\ LastBy(c)' = LastBy(c) \union (IF verdict = c THEN {spoken} ELSE {})
               /\ LastBy(c) \subseteq Answered
    BY <1>2, <1>4, <1>6 DEF LastBy, Answered
  <1>9. QED
    BY <1>1, <1>2, <1>3, <1>5, <1>7, <1>8 DEF EndedWith

LEMMA RunEndsTypes ==
  ASSUME TurnTypes, agentRun.at # "idle", NEW verdict \in {"claude", "codex", "none"},
         RunEnds(verdict), threads' \in {threads, threads + 1}, thread' \in 0..threads',
         claudeFile' \in BOOLEAN
  PROVE  TurnTypes'
  <1>1. EndedWith(verdict)
    BY RunEndsIs
  <1>2. /\ agentRun' = NoRun /\ spoken' = spoken /\ spoken \in 1..MaxSpoken /\ MaxSpoken \in Nat
        /\ UNCHANGED <<backend, home, moves, knew>>
        /\ answeredBy' \in Seq({"claude", "codex", "none"}) /\ Len(answeredBy') = spoken
    BY <1>1 DEF EndedWith
  <1>3. NoRun \in AgentRuns /\ NoRun.at = "idle" /\ NoRun.tells = {}
    BY <1>2 DEF NoRun, AgentRuns
  <1>4. threads' \in 0..spoken
    BY <1>2 DEF TurnTypes
  <1>5. QED
    BY <1>2, <1>3, <1>4 DEF TurnTypes

LEMMA RunEndsTells ==
  ASSUME MemoryInv, agentRun.at # "idle", NEW verdict \in {"claude", "codex", "none"},
         RunEnds(verdict), gaps' = gaps,
         gaps = {} =>
           /\ Told(claudeLog) \subseteq Told(claudeLog') /\ (claudeFile => claudeFile')
           /\ LastBy("codex") # {} =>
                /\ thread' # 0
                /\ Told(copies[home][thread]) \subseteq Told(copies'[home][thread'])
           /\ verdict = "claude" =>
                claudeFile' /\ Answered \union {spoken} \subseteq Told(claudeLog')
           /\ verdict = "codex" =>
                thread' # 0 /\ Answered \union {spoken} \subseteq Told(copies'[home][thread'])
  PROVE  LogsTell'
  <1>1. SUFFICES ASSUME gaps = {} PROVE LogsTell'
    BY DEF LogsTell
  <1>2. TurnTypes /\ LogsTell
    BY DEF MemoryInv
  <1>3. EndedWith(verdict)
    BY <1>2, RunEndsIs
  <1>4. /\ agentRun' = NoRun /\ spoken' = spoken /\ spoken \in Nat /\ spoken \in 1..MaxSpoken
        /\ home' = home /\ knew' = knew
        /\ answeredBy'[spoken] = verdict
        /\ \A n \in 1..(spoken - 1) : answeredBy'[n] = answeredBy[n]
        /\ Answered \subseteq 1..(spoken - 1)
        /\ Answered' = Answered \union (IF verdict = "none" THEN {} ELSE {spoken})
        /\ \A c \in {"claude", "codex"} :
             /\ LastBy(c)' = LastBy(c) \union (IF verdict = c THEN {spoken} ELSE {})
             /\ LastBy(c) \subseteq Answered
    BY <1>3 DEF EndedWith
  <1>5. \A n \in 1..(spoken - 1) : AnsweredTo(n)' = AnsweredTo(n)
    BY <1>4 DEF AnsweredTo
  <1>6. AnsweredTo(spoken)' \subseteq Answered \union {spoken}
    BY <1>4 DEF AnsweredTo
  <1>7. \A n \in LastBy("claude")' : claudeFile' /\ AnsweredTo(n)' \subseteq Told(claudeLog')
    <2>1. ASSUME NEW n \in LastBy("claude")'
          PROVE  claudeFile' /\ AnsweredTo(n)' \subseteq Told(claudeLog')
      <3>1. CASE n \in LastBy("claude")
        <4>1. claudeFile /\ AnsweredTo(n) \subseteq Told(claudeLog)
          BY <1>1, <1>2, <3>1 DEF LogsTell
        <4>2. AnsweredTo(n)' = AnsweredTo(n)
          BY <1>4, <1>5, <3>1
        <4>3. QED
          BY <1>1, <4>1, <4>2
      <3>2. CASE verdict = "claude" /\ n = spoken
        <4>1. claudeFile' /\ Answered \union {spoken} \subseteq Told(claudeLog')
          BY <1>1, <3>2
        <4>2. AnsweredTo(n)' = AnsweredTo(spoken)'
          BY <1>4, <3>2 DEF AnsweredTo
        <4>3. QED
          BY <1>6, <4>1, <4>2
      <3>3. QED
        BY <1>4, <2>1, <3>1, <3>2
    <2>2. QED
      BY <2>1
  <1>8. \A n \in LastBy("codex")' :
          thread' # 0 /\ AnsweredTo(n)' \subseteq Told(copies'[home'][thread'])
    <2>1. ASSUME NEW n \in LastBy("codex")'
          PROVE  thread' # 0 /\ AnsweredTo(n)' \subseteq Told(copies'[home][thread'])
      <3>1. CASE n \in LastBy("codex")
        <4>1. thread # 0 /\ AnsweredTo(n) \subseteq Told(copies[home][thread])
          BY <1>1, <1>2, <3>1 DEF LogsTell
        <4>2. AnsweredTo(n)' = AnsweredTo(n)
          BY <1>4, <1>5, <3>1
        <4>3. QED
          BY <1>1, <3>1, <4>1, <4>2
      <3>2. CASE verdict = "codex" /\ n = spoken
        <4>1. thread' # 0 /\ Answered \union {spoken} \subseteq Told(copies'[home][thread'])
          BY <1>1, <3>2
        <4>2. AnsweredTo(n)' = AnsweredTo(spoken)'
          BY <1>4, <3>2 DEF AnsweredTo
        <4>3. QED
          BY <1>6, <4>1, <4>2
      <3>3. QED
        BY <1>4, <2>1, <3>1, <3>2
    <2>2. QED
      BY <1>4, <2>1
  <1>9. KnowsTheConversation'
    <2>1. \A n \in DOMAIN knew :
            answeredBy[n] # "none" => {m \in 1..(n - 1) : answeredBy[m] # "none"} \subseteq knew[n]
      BY <1>1, <1>2 DEF LogsTell, KnowsTheConversation
    <2>2. DOMAIN knew = 1..spoken /\ Answered \subseteq knew[spoken]
      BY <1>1, <1>2 DEF TurnTypes, LogsTell
    <2>3. ASSUME NEW n \in DOMAIN knew', answeredBy'[n] # "none",
                 NEW m \in 1..(n - 1), answeredBy'[m] # "none"
          PROVE  m \in knew'[n]
      <3>1. n \in 1..spoken /\ m \in 1..(spoken - 1) /\ answeredBy'[m] = answeredBy[m]
        BY <1>4, <2>2, <2>3
      <3>2. CASE n = spoken
        <4>1. m \in Answered
          BY <1>4, <2>3, <3>1 DEF Answered
        <4>2. QED
          BY <1>4, <2>2, <3>2, <4>1
      <3>3. CASE n # spoken
        <4>1. answeredBy'[n] = answeredBy[n]
          BY <1>4, <3>1, <3>3
        <4>2. QED
          BY <1>4, <2>1, <2>2, <2>3, <3>1, <4>1
      <3>4. QED
        BY <3>2, <3>3
    <2>4. QED
      BY <2>3 DEF KnowsTheConversation
  <1>10. agentRun'.at = "idle"
    BY <1>4 DEF NoRun
  <1>11. QED
    BY <1>7, <1>8, <1>9, <1>10 DEF LogsTell

\* What a run writes to a log: its own turn, and what it was told of when it was new.
LEMMA EntryIs ==
  ASSUME MemoryInv, agentRun.at # "idle"
  PROVE  /\ Entry \in SUBSET Nat /\ Entry \subseteq 0..spoken /\ spoken \in Entry
         /\ "moved" \notin gaps => 0 \notin Entry
         /\ agentRun.fresh => agentRun.tells \subseteq Entry
         /\ spoken \in 1..MaxSpoken
  <1>1. TurnTypes /\ RolloutsStand /\ MaxSpoken \in Nat
    BY MemoryAssumption DEF MemoryInv
  <1>2. spoken \in 1..MaxSpoken /\ agentRun.tells \subseteq 0..spoken
    BY <1>1 DEF TurnTypes
  <1>3. Entry = {spoken} \union (IF agentRun.fresh THEN agentRun.tells ELSE {})
    BY DEF Entry
  <1>4. "moved" \notin gaps => 0 \notin agentRun.tells
    BY <1>1 DEF RolloutsStand
  <1>5. QED
    BY <1>2, <1>3, <1>4

LEMMA ClaudeEnds ==
  ASSUME MemoryInv, ClaudeAnswers \/ ClaudeFails PROVE MemoryInv'
  <1>1. /\ LogTypes /\ TurnTypes /\ OtherTypes /\ RunStands /\ RolloutsStand /\ LogsTell
    BY DEF MemoryInv
  <1>2. /\ agentRun.at = "claude" /\ UNCHANGED <<thread, threads, copies, newer, sites, gaps>>
        /\ \/ claudeLog' = Append(claudeLog, Entry) /\ claudeFile' = TRUE
           \/ claudeLog' = claudeLog /\ claudeFile' \in {claudeFile, TRUE} /\ RunEnds("none")
    BY DEF ClaudeAnswers, ClaudeFails
  <1>3. PICK verdict \in {"claude", "none"} :
          /\ RunEnds(verdict)
          /\ verdict = "claude" => claudeLog' = Append(claudeLog, Entry) /\ claudeFile' = TRUE
    BY DEF ClaudeAnswers, ClaudeFails
  <1>4. agentRun.at # "idle" /\ verdict \in {"claude", "codex", "none"}
    BY <1>2, <1>3
  <1>5. EndedWith(verdict)
    BY <1>1, <1>3, <1>4, RunEndsIs
  <1>6. /\ agentRun' = NoRun /\ spoken' = spoken /\ home' = home
        /\ NoRun.at = "idle" /\ NoRun.tells = {}
    BY <1>5 DEF EndedWith, NoRun
  <1>7. /\ Entry \in SUBSET Nat /\ Entry \subseteq 0..spoken /\ spoken \in Entry
        /\ "moved" \notin gaps => 0 \notin Entry
        /\ agentRun.fresh => agentRun.tells \subseteq Entry
    BY <1>4, EntryIs
  <1>8. claudeLog \in Logs
    BY <1>1 DEF LogTypes
  <1>9. /\ Append(claudeLog, Entry) \in Logs
        /\ Told(Append(claudeLog, Entry)) = Told(claudeLog) \union Entry
    BY <1>7, <1>8, LogFacts
  <1>10. /\ claudeLog' \in Logs /\ Told(claudeLog) \subseteq Told(claudeLog')
         /\ Told(claudeLog') \subseteq Told(claudeLog) \union Entry
    BY <1>2, <1>8, <1>9
  <1>11. TurnTypes'
    <2>1. threads' \in {threads, threads + 1} /\ thread' \in 0..threads' /\ claudeFile' \in BOOLEAN
      BY <1>1, <1>2 DEF TurnTypes
    <2>2. QED
      BY <1>1, <1>3, <1>4, <2>1, RunEndsTypes
  <1>12. LogTypes'
    BY <1>1, <1>2, <1>6, <1>7, <1>10 DEF LogTypes
  <1>13. OtherTypes'
    BY <1>1, <1>2 DEF OtherTypes
  <1>14. RunStands'
    BY <1>6 DEF RunStands
  <1>15. RolloutsStand'
    BY <1>1, <1>2, <1>6, <1>7, <1>10 DEF RolloutsStand
  <1>16. LogsTell'
    <2>1. ASSUME gaps = {}
          PROVE  /\ Told(claudeLog) \subseteq Told(claudeLog') /\ (claudeFile => claudeFile')
                 /\ LastBy("codex") # {} =>
                      /\ thread' # 0
                      /\ Told(copies[home][thread]) \subseteq Told(copies'[home][thread'])
                 /\ verdict = "claude" =>
                      claudeFile' /\ Answered \union {spoken} \subseteq Told(claudeLog')
      <3>1. LastBy("codex") # {} => thread # 0
        BY <1>1, <2>1 DEF LogsTell
      <3>2. claudeFile => claudeFile'
        BY <1>2
      <3>3. agentRun.fresh => Answered \subseteq agentRun.tells
        BY <1>1, <1>4, <2>1 DEF LogsTell
      <3>4. ~agentRun.fresh => Answered \subseteq Told(claudeLog)
        BY <1>1, <1>2, <1>4, <2>1 DEF LogsTell
      <3>5. ASSUME verdict = "claude"
            PROVE  claudeFile' /\ Answered \union {spoken} \subseteq Told(claudeLog')
        <4>1. claudeFile' /\ Told(claudeLog') = Told(claudeLog) \union Entry
          BY <1>3, <1>9, <3>5
        <4>2. QED
          BY <1>7, <3>3, <3>4, <4>1
      <3>6. QED
        BY <1>2, <1>10, <3>1, <3>2, <3>5
    <2>2. verdict # "codex" /\ gaps' = gaps
      BY <1>2, <1>3
    <2>3. QED
      BY <1>3, <1>4, <2>1, <2>2, RunEndsTells
  <1>17. QED
    BY <1>11, <1>12, <1>13, <1>14, <1>15, <1>16 DEF MemoryInv

\* What the rollouts are when a codex run has written to its own.
Wrote ==
    /\ threads' = (IF agentRun.fresh THEN threads + 1 ELSE threads)
    /\ Writing \in 1..MaxSpoken /\ Writing <= threads'
    /\ (IF agentRun.fresh THEN Writing = threads + 1 ELSE Writing = thread)
    /\ copies' \in [Homes -> [1..MaxSpoken -> Logs]]
    /\ \A h \in Homes, t \in 1..MaxSpoken :
         ~(h = home /\ t = Writing) => copies'[h][t] = copies[h][t]
    /\ copies'[home][Writing] # <<>>
    /\ Told(copies'[home][Writing]) = Told(copies[home][Writing]) \union Entry
    /\ newer' \in [1..MaxSpoken -> Homes] /\ newer'[Writing] = home
    /\ \A t \in 1..MaxSpoken : t # Writing => newer'[t] = newer[t]

LEMMA AppendsIs ==
  ASSUME MemoryInv, agentRun.at = "codex", Appends(Entry) PROVE Wrote
  <1>1. /\ LogTypes /\ TurnTypes /\ OtherTypes /\ RunStands /\ MaxSpoken \in Nat
    BY MemoryAssumption DEF MemoryInv
  <1>2. Entry \in SUBSET Nat /\ spoken \in 1..MaxSpoken
    BY EntryIs
  <1>3. threads \in Nat /\ threads < spoken /\ thread \in 0..threads /\ home \in Homes
    BY <1>1, <1>2 DEF TurnTypes
  <1>4. IF agentRun.fresh THEN Writing = threads + 1 ELSE Writing = thread /\ thread # 0
    BY <1>1 DEF Writing, RunStands
  <1>5. Writing \in 1..MaxSpoken
    BY <1>1, <1>2, <1>3, <1>4
  <1>6. /\ threads' = (IF agentRun.fresh THEN threads + 1 ELSE threads)
        /\ copies' = [copies EXCEPT ![home][Writing] = Append(copies[home][Writing], Entry)]
        /\ newer' = [newer EXCEPT ![Writing] = home]
    BY DEF Appends
  <1>7. Writing <= threads'
    BY <1>3, <1>4, <1>6
  <1>8. copies \in [Homes -> [1..MaxSpoken -> Logs]] /\ newer \in [1..MaxSpoken -> Homes]
    BY <1>1 DEF LogTypes, OtherTypes
  <1>9. copies[home][Writing] \in Logs
    BY <1>3, <1>5, <1>8
  <1> DEFINE longer == Append(copies[home][Writing], Entry)
  <1>10. /\ longer \in Logs /\ longer # <<>>
         /\ Told(longer) = Told(copies[home][Writing]) \union Entry
    BY <1>2, <1>9, LogFacts
  <1> HIDE DEF longer
  <1>11. copies' = [copies EXCEPT ![home][Writing] = longer]
    BY <1>6 DEF longer
  <1>12. /\ copies' \in [Homes -> [1..MaxSpoken -> Logs]] /\ copies'[home][Writing] = longer
         /\ \A h \in Homes, t \in 1..MaxSpoken :
              ~(h = home /\ t = Writing) => copies'[h][t] = copies[h][t]
    BY <1>3, <1>5, <1>8, <1>10, <1>11
  <1>13. /\ newer' \in [1..MaxSpoken -> Homes] /\ newer'[Writing] = home
         /\ \A t \in 1..MaxSpoken : t # Writing => newer'[t] = newer[t]
    BY <1>3, <1>5, <1>6, <1>8
  <1>14. QED
    BY <1>4, <1>5, <1>6, <1>7, <1>10, <1>12, <1>13 DEF Wrote

LEMMA TamperedIs ==
  ASSUME OtherTypes, Tampers PROVE sites' \in [Sites -> {"none", "link", "real"}]
  BY DEF OtherTypes, Tampers

\* A codex run that wrote nothing, or wrote to its rollout and has that mapped or not.
LEMMA CodexEnds ==
  ASSUME MemoryInv, CodexFails \/ \E verdict \in {"codex", "none"} : CodexAnswers(verdict)
  PROVE  MemoryInv'
  <1>1. /\ LogTypes /\ TurnTypes /\ OtherTypes /\ RunStands /\ RolloutsStand /\ LogsTell
        /\ MaxSpoken \in Nat
    BY MemoryAssumption DEF MemoryInv
  <1>2. /\ agentRun.at = "codex" /\ UNCHANGED <<claudeLog, claudeFile, gaps>> /\ Tampers
        /\ \/ UNCHANGED <<copies, newer, threads, thread>> /\ RunEnds("none")
           \/ Appends(Entry) /\ thread' = thread /\ RunEnds("none")
           \/ /\ Appends(Entry) /\ thread' = Writing
              /\ \E verdict \in {"codex", "none"} : RunEnds(verdict)
    BY DEF CodexFails, CodexAnswers, Maps
  <1>3. PICK verdict \in {"codex", "none"} :
          /\ RunEnds(verdict)
          /\ verdict = "codex" => Appends(Entry) /\ thread' = Writing
    BY DEF CodexFails, CodexAnswers, Maps
  <1>4. agentRun.at # "idle" /\ verdict \in {"claude", "codex", "none"}
    BY <1>2, <1>3
  <1>5. EndedWith(verdict)
    BY <1>1, <1>3, <1>4, RunEndsIs
  <1>6. /\ agentRun' = NoRun /\ spoken' = spoken /\ home' = home /\ spoken \in 1..MaxSpoken
        /\ NoRun.at = "idle" /\ NoRun.tells = {}
    BY <1>5 DEF EndedWith, NoRun
  <1>7. /\ Entry \subseteq 0..spoken /\ spoken \in Entry
        /\ "moved" \notin gaps => 0 \notin Entry
        /\ agentRun.fresh => agentRun.tells \subseteq Entry
    BY <1>4, EntryIs
  <1>8. \/ UNCHANGED <<copies, newer, threads, thread>>
        \/ Wrote /\ thread' \in {thread, Writing}
    BY <1>2, AppendsIs
  <1>9. verdict = "codex" => Wrote /\ thread' = Writing
    BY <1>2, <1>3, AppendsIs
  <1>10. threads \in Nat /\ thread \in 0..threads /\ threads < spoken /\ home \in Homes
    BY <1>1, <1>4, <1>6 DEF TurnTypes
  <1>11. TurnTypes'
    <2>1. threads' \in {threads, threads + 1} /\ thread' \in 0..threads' /\ claudeFile' \in BOOLEAN
      BY <1>1, <1>2, <1>8, <1>10 DEF Wrote, TurnTypes
    <2>2. QED
      BY <1>1, <1>3, <1>4, <2>1, RunEndsTypes
  <1>12. \A h \in Homes, t \in 1..MaxSpoken :
           \/ copies'[h][t] = copies[h][t]
           \/ h = home /\ t = Writing /\ Wrote
    BY <1>8 DEF Wrote
  <1>13. LogTypes'
    <2>1. copies' \in [Homes -> [1..MaxSpoken -> Logs]]
      BY <1>1, <1>8 DEF LogTypes, Wrote
    <2>2. ASSUME NEW h \in Homes, NEW t \in 1..MaxSpoken
          PROVE  Told(copies'[h][t]) \subseteq 0..spoken
      <3>1. Told(copies[h][t]) \subseteq 0..spoken
        BY <1>1 DEF LogTypes
      <3>2. QED
        BY <1>7, <1>12, <3>1 DEF Wrote
    <2>3. QED
      BY <1>1, <1>2, <1>6, <2>1, <2>2 DEF LogTypes
  <1>14. OtherTypes'
    BY <1>1, <1>2, <1>8, TamperedIs DEF OtherTypes, Wrote
  <1>15. RunStands'
    BY <1>6 DEF RunStands
  <1>16. RolloutsStand'
    <2>1. ASSUME NEW h \in Homes, NEW t \in 1..MaxSpoken, t > threads' PROVE copies'[h][t] = <<>>
      <3>1. t > threads
        BY <1>8, <1>10, <2>1 DEF Wrote
      <3>2. Wrote => t # Writing
        BY <1>10, <2>1 DEF Wrote
      <3>3. QED
        BY <1>1, <1>12, <3>1, <3>2 DEF RolloutsStand
    <2>2. ASSUME "moved" \notin gaps, NEW h \in Homes, NEW t \in 1..MaxSpoken
          PROVE  /\ copies'[h][t] # <<>> => h = home /\ newer'[t] = home
                 /\ 0 \notin Told(copies'[h][t])
      <3>1. copies[h][t] # <<>> => h = home /\ newer[t] = home
        BY <1>1, <2>2 DEF RolloutsStand
      <3>2. 0 \notin Told(copies[h][t])
        BY <1>1, <2>2 DEF RolloutsStand
      <3>3. CASE h = home /\ t = Writing /\ Wrote
        BY <1>7, <2>2, <3>2, <3>3 DEF Wrote
      <3>4. CASE copies'[h][t] = copies[h][t] /\ ~(h = home /\ t = Writing /\ Wrote)
        <4>1. h = home => newer'[t] = newer[t]
          BY <1>8, <3>4 DEF Wrote
        <4>2. QED
          BY <3>1, <3>2, <3>4, <4>1
      <3>5. QED
        BY <1>12, <3>3, <3>4
    <2>3. ASSUME "moved" \notin gaps, thread' # 0 PROVE copies'[home][thread'] # <<>>
      <3>1. CASE Wrote /\ thread' = Writing
        BY <3>1 DEF Wrote
      <3>2. CASE thread' = thread
        <4>1. thread \in 1..MaxSpoken
          BY <1>1, <1>6, <1>10, <2>3, <3>2
        <4>2. copies[home][thread] # <<>>
          BY <1>1, <2>3, <3>2 DEF RolloutsStand
        <4>3. QED
          BY <1>10, <1>12, <3>2, <4>1, <4>2 DEF Wrote
      <3>3. QED
        BY <1>8, <3>1, <3>2
    <2>4. "moved" \notin gaps => 0 \notin Told(claudeLog)
      BY <1>1 DEF RolloutsStand
    <2>5. QED
      BY <1>2, <1>6, <2>1, <2>2, <2>3, <2>4 DEF RolloutsStand
  <1>17. LogsTell'
    <2>1. ASSUME gaps = {}
          PROVE  /\ LastBy("codex") # {} =>
                      /\ thread' # 0
                      /\ Told(copies[home][thread]) \subseteq Told(copies'[home][thread'])
                 /\ verdict = "codex" =>
                      thread' # 0 /\ Answered \union {spoken} \subseteq Told(copies'[home][thread'])
      <3>1. LastBy("codex") # {} => thread # 0
        BY <1>1, <2>1 DEF LogsTell
      <3>2. agentRun.fresh => thread = 0 /\ Answered \subseteq agentRun.tells
        BY <1>1, <1>2, <1>4, <2>1 DEF LogsTell, RunStands
      <3>3. ~agentRun.fresh => Answered \subseteq Told(copies[home][thread]) /\ thread # 0
        BY <1>1, <1>2, <1>4, <2>1 DEF LogsTell, RunStands
      <3>4. ASSUME thread # 0
            PROVE  thread' # 0 /\ Told(copies[home][thread]) \subseteq Told(copies'[home][thread'])
        <4>1. thread \in 1..MaxSpoken /\ ~agentRun.fresh
          BY <1>1, <1>6, <1>10, <3>2, <3>4
        <4>2. thread' = thread
          BY <1>8, <4>1 DEF Wrote
        <4>3. QED
          BY <1>10, <1>12, <3>4, <4>1, <4>2 DEF Wrote
      <3>5. ASSUME verdict = "codex"
            PROVE  thread' # 0 /\ Answered \union {spoken} \subseteq Told(copies'[home][thread'])
        <4>1. Wrote /\ thread' = Writing
          BY <1>9, <3>5
        <4>2. /\ Told(copies'[home][thread']) = Told(copies[home][Writing]) \union Entry
              /\ thread' # 0
          BY <4>1 DEF Wrote
        <4>3. ~agentRun.fresh => Writing = thread
          BY <4>1 DEF Wrote
        <4>4. QED
          BY <1>7, <3>2, <3>3, <4>2, <4>3
      <3>6. QED
        BY <3>1, <3>4, <3>5
    <2>2. verdict # "claude" /\ gaps' = gaps /\ claudeLog' = claudeLog /\ claudeFile' = claudeFile
      BY <1>2, <1>3
    <2>3. QED
      BY <1>3, <1>4, <2>1, <2>2, RunEndsTells
  <1>18. QED
    BY <1>11, <1>13, <1>14, <1>15, <1>16, <1>17 DEF MemoryInv

\* The operator's edits and a compaction leave the turns alone.
LEMMA QuietKept ==
  ASSUME MemoryInv, UNCHANGED <<spoken, claudeLog, claudeFile, thread, threads, sites, agentRun,
                                knew, answeredBy>>,
         backend' \in {"claude", "codex"}, moves' \in 0..MaxMoves,
         agentRun.at = "idle"
  PROVE  /\ home' \in Homes => TurnTypes'
         /\ gaps' \subseteq {"moved", "behind", "cut"} /\ newer' \in [1..MaxSpoken -> Homes] =>
              OtherTypes'
         /\ RunStands'
         /\ UNCHANGED <<home, copies, gaps>> => LogsTell'
  <1>1. /\ LogTypes /\ TurnTypes /\ OtherTypes /\ RunStands /\ RolloutsStand /\ LogsTell
    BY DEF MemoryInv
  <1>2. home' \in Homes => TurnTypes'
    BY <1>1 DEF TurnTypes
  <1>3. gaps' \subseteq {"moved", "behind", "cut"} /\ newer' \in [1..MaxSpoken -> Homes] =>
              OtherTypes'
    BY <1>1 DEF OtherTypes
  <1>4. RunStands'
    BY DEF RunStands
  <1>5. ASSUME UNCHANGED <<home, copies, gaps>> PROVE LogsTell'
    <2>1. LastBy("claude")' = LastBy("claude") /\ LastBy("codex")' = LastBy("codex")
      BY DEF LastBy
    <2>2. \A n : AnsweredTo(n)' = AnsweredTo(n)
      BY DEF AnsweredTo, Answered
    <2>3. KnowsTheConversation' <=> KnowsTheConversation
      BY <1>5 DEF KnowsTheConversation
    <2>4. QED
      BY <1>1, <1>5, <2>1, <2>2, <2>3 DEF LogsTell
  <1>6. QED
    BY <1>2, <1>3, <1>4, <1>5

LEMMA HomeMoves ==
  ASSUME MemoryInv, MovesHome PROVE MemoryInv'
  <1>1. /\ LogTypes /\ TurnTypes /\ OtherTypes /\ RunStands /\ RolloutsStand /\ LogsTell
        /\ {MaxMoves, MaxSpoken} \subseteq Nat
    BY MemoryAssumption DEF MemoryInv
  <1>2. /\ agentRun = NoRun /\ moves < MaxMoves /\ moves' = moves + 1
        /\ home' = (IF home = "own" THEN "shared" ELSE "own")
        /\ gaps' = (IF threads = 0 THEN gaps ELSE gaps \union {"moved"})
        /\ UNCHANGED <<backend, spoken, claudeLog, claudeFile, thread, threads, copies, newer,
                       sites, agentRun, knew, answeredBy>>
    BY DEF MovesHome
  <1>3. agentRun.at = "idle"
    BY <1>2 DEF NoRun
  <1>4. home' \in Homes /\ moves' \in 0..MaxMoves /\ backend' \in {"claude", "codex"}
    BY <1>1, <1>2 DEF Homes, TurnTypes
  <1>5. TurnTypes' /\ OtherTypes' /\ RunStands'
    BY <1>1, <1>2, <1>3, <1>4, QuietKept DEF OtherTypes
  <1>6. LogTypes'
    BY <1>1, <1>2 DEF LogTypes
  <1>7. RolloutsStand'
    <2>1. ASSUME "moved" \notin gaps' PROVE threads = 0 /\ "moved" \notin gaps
      BY <1>2, <2>1
    <2>2. threads = 0 => thread = 0 /\ \A h \in Homes, t \in 1..MaxSpoken : copies[h][t] = <<>>
      <3>1. threads = 0 => \A t \in 1..MaxSpoken : t > threads
        BY <1>1
      <3>2. QED
        BY <1>1, <3>1 DEF RolloutsStand, TurnTypes
    <2>3. Told(<<>>) = {}
      BY DEF Told
    <2>4. QED
      BY <1>1, <1>2, <2>1, <2>2, <2>3 DEF RolloutsStand
  <1>8. LogsTell'
    <2>1. SUFFICES ASSUME gaps' = {} PROVE LogsTell'
      BY DEF LogsTell
    <2>2. threads = 0 /\ gaps = {}
      BY <1>2, <2>1
    <2>3. thread = 0
      BY <1>1, <2>2 DEF TurnTypes
    <2>4. LastBy("codex") = {}
      BY <1>1, <2>2, <2>3 DEF LogsTell
    <2>5. LastBy("claude")' = LastBy("claude") /\ LastBy("codex")' = LastBy("codex")
      BY <1>2 DEF LastBy
    <2>6. \A n : AnsweredTo(n)' = AnsweredTo(n)
      BY <1>2 DEF AnsweredTo, Answered
    <2>7. KnowsTheConversation' <=> KnowsTheConversation
      BY <1>2, <2>1, <2>2 DEF KnowsTheConversation
    <2>8. QED
      BY <1>1, <1>2, <1>3, <2>2, <2>4, <2>5, <2>6, <2>7 DEF LogsTell
  <1>9. QED
    BY <1>5, <1>6, <1>7, <1>8 DEF MemoryInv

LEMMA BackendChanges ==
  ASSUME MemoryInv, ChangesBackend PROVE MemoryInv'
  <1>1. /\ LogTypes /\ TurnTypes /\ OtherTypes /\ RunStands /\ RolloutsStand /\ LogsTell
        /\ MaxMoves \in Nat
    BY MemoryAssumption DEF MemoryInv
  <1>2. /\ agentRun = NoRun /\ moves < MaxMoves /\ moves' = moves + 1
        /\ backend' = (IF backend = "claude" THEN "codex" ELSE "claude")
        /\ UNCHANGED <<home, spoken, claudeLog, claudeFile, thread, threads, copies, newer, sites,
                       agentRun, knew, answeredBy, gaps>>
    BY DEF ChangesBackend
  <1>3. agentRun.at = "idle"
    BY <1>2 DEF NoRun
  <1>4. home' \in Homes /\ moves' \in 0..MaxMoves /\ backend' \in {"claude", "codex"}
    BY <1>1, <1>2 DEF TurnTypes
  <1>5. TurnTypes' /\ OtherTypes' /\ RunStands' /\ LogsTell'
    BY <1>1, <1>2, <1>3, <1>4, QuietKept DEF OtherTypes
  <1>6. LogTypes' /\ RolloutsStand'
    BY <1>1, <1>2 DEF LogTypes, RolloutsStand
  <1>7. QED
    BY <1>5, <1>6 DEF MemoryInv

\* A compaction's trigger gets into a rollout only when another home's is watched.
LEMMA CodexCompacted ==
  ASSUME MemoryInv, CodexCompacts PROVE MemoryInv'
  <1>1. /\ LogTypes /\ TurnTypes /\ OtherTypes /\ RunStands /\ RolloutsStand /\ LogsTell
        /\ MaxMoves \in Nat
    BY MemoryAssumption DEF MemoryInv
  <1>2. /\ agentRun = NoRun /\ thread # 0 /\ copies[home][thread] # <<>>
        /\ newer' = [newer EXCEPT ![thread] = home]
        /\ newer[thread] = home => copies' = copies
        /\ newer[thread] # home =>
             copies' = [copies EXCEPT ![home][thread] = Append(copies[home][thread], {0})]
        /\ UNCHANGED <<backend, home, moves, spoken, claudeLog, claudeFile, thread, threads, sites,
                       agentRun, knew, answeredBy, gaps>>
    BY DEF CodexCompacts, Mapped, Watched
  <1>3. agentRun.at = "idle"
    BY <1>2 DEF NoRun
  <1>4. /\ home \in Homes /\ moves \in 0..MaxMoves /\ backend \in {"claude", "codex"}
        /\ thread \in 1..MaxSpoken /\ thread <= threads /\ spoken \in Nat
    BY <1>1, <1>2, MemoryAssumption DEF TurnTypes
  <1>5. newer' \in [1..MaxSpoken -> Homes]
    BY <1>1, <1>2, <1>4 DEF OtherTypes
  <1>6. TurnTypes' /\ OtherTypes' /\ RunStands'
    BY <1>1, <1>2, <1>3, <1>4, <1>5, QuietKept DEF OtherTypes
  <1> DEFINE longer == Append(copies[home][thread], {0})
  <1>7. longer \in Logs /\ longer # <<>> /\ Told(longer) = Told(copies[home][thread]) \union {0}
    <2>1. copies[home][thread] \in Logs
      BY <1>1, <1>4 DEF LogTypes
    <2>2. {0} \in SUBSET Nat
      OBVIOUS
    <2>3. QED
      BY <2>1, <2>2, LogFacts
  <1>8. newer[thread] # home => copies' = [copies EXCEPT ![home][thread] = longer]
    BY <1>2
  <1> HIDE DEF longer
  <1>9. "moved" \notin gaps => copies' = copies /\ newer' = newer
    <2>1. "moved" \notin gaps => newer[thread] = home
      BY <1>1, <1>2, <1>4 DEF RolloutsStand
    <2>2. QED
      BY <1>1, <1>2, <1>4, <2>1 DEF OtherTypes
  <1>10. \A h \in Homes, t \in 1..MaxSpoken :
           copies'[h][t] = copies[h][t] \/ (h = home /\ t = thread /\ copies'[h][t] = longer)
    <2>1. copies \in [Homes -> [1..MaxSpoken -> Logs]]
      BY <1>1 DEF LogTypes
    <2>2. CASE newer[thread] # home
      <3>1. copies' = [copies EXCEPT ![home][thread] = longer] /\ home \in Homes
            /\ thread \in 1..MaxSpoken
        BY <1>4, <1>8, <2>2
      <3>2. QED
        BY <2>1, <3>1
    <2>3. CASE newer[thread] = home
      BY <1>2, <2>3
    <2>4. QED
      BY <2>2, <2>3
  <1>11. LogTypes'
    <2>1. copies' \in [Homes -> [1..MaxSpoken -> Logs]]
      <3>1. copies \in [Homes -> [1..MaxSpoken -> Logs]]
        BY <1>1 DEF LogTypes
      <3>2. CASE newer[thread] # home
        <4>1. [copies[home] EXCEPT ![thread] = longer] \in [1..MaxSpoken -> Logs]
          BY <1>4, <1>7, <3>1
        <4>2. copies' = [copies EXCEPT ![home] = [copies[home] EXCEPT ![thread] = longer]]
          BY <1>8, <3>2
        <4>3. QED
          BY <1>4, <3>1, <4>1, <4>2
      <3>3. CASE newer[thread] = home
        BY <1>2, <3>1, <3>3
      <3>4. QED
        BY <3>2, <3>3
    <2>2. \A h \in Homes, t \in 1..MaxSpoken : Told(copies'[h][t]) \subseteq 0..spoken
      BY <1>1, <1>4, <1>7, <1>10 DEF LogTypes
    <2>3. QED
      BY <1>1, <1>2, <2>1, <2>2 DEF LogTypes
  <1>12. RolloutsStand'
    <2>1. \A h \in Homes, t \in 1..MaxSpoken : t > threads => copies'[h][t] = <<>>
      <3>1. ASSUME NEW t \in 1..MaxSpoken, t > threads PROVE t # thread
        BY <1>1, <1>4, <3>1 DEF TurnTypes
      <3>2. QED
        BY <1>1, <1>10, <3>1 DEF RolloutsStand
    <2>2. QED
      BY <1>1, <1>2, <1>9, <2>1 DEF RolloutsStand
  <1>13. LogsTell'
    <2>1. SUFFICES ASSUME gaps' = {} PROVE LogsTell'
      BY DEF LogsTell
    <2>2. UNCHANGED <<home, copies, gaps>>
      BY <1>2, <1>9, <2>1
    <2>3. QED
      BY <1>2, <1>3, <1>4, <2>2, QuietKept
  <1>14. QED
    BY <1>6, <1>11, <1>12, <1>13 DEF MemoryInv

LEMMA MemoryInvKept == MemoryInv /\ [MemoryNext]_memoryVars => MemoryInv'
  <1>1. SUFFICES ASSUME MemoryInv, [MemoryNext]_memoryVars PROVE MemoryInv'
    OBVIOUS
  <1>2. CASE ClaudeResumes \/ \E budget \in 0..HandoffTurns : ClaudeStarts(budget)
    BY <1>1, <1>2, ClaudeBegins
  <1>3. CASE \E cleared \in BOOLEAN : CodexResumes(cleared)
    BY <1>1, <1>3, CodexResumesWith
  <1>4. CASE \E cleared \in BOOLEAN : \E budget \in 0..HandoffTurns : CodexStarts(budget, cleared)
    BY <1>1, <1>4, CodexStartsWith
  <1>5. CASE ClaudeAnswers \/ ClaudeFails
    BY <1>1, <1>5, ClaudeEnds
  <1>6. CASE CodexFails \/ \E verdict \in {"codex", "none"} : CodexAnswers(verdict)
    BY <1>1, <1>6, CodexEnds
  <1>7. CASE ChangesBackend \/ MovesHome \/ CodexCompacts
    BY <1>1, <1>7, BackendChanges, HomeMoves, CodexCompacted
  <1>8. CASE UNCHANGED memoryVars
    <2>1. /\ LogTypes /\ TurnTypes /\ OtherTypes /\ RunStands /\ RolloutsStand /\ LogsTell
      BY <1>1 DEF MemoryInv
    <2>2. LogTypes' /\ OtherTypes' /\ RunStands' /\ RolloutsStand'
      BY <1>8, <2>1 DEF memoryVars, LogTypes, OtherTypes, RunStands, RolloutsStand
    <2>3. TurnTypes'
      BY <1>8, <2>1 DEF memoryVars, TurnTypes
    <2>4. LogsTell'
      <3>1. LastBy("claude")' = LastBy("claude") /\ LastBy("codex")' = LastBy("codex")
        BY <1>8 DEF memoryVars, LastBy
      <3>2. (\A n : AnsweredTo(n)' = AnsweredTo(n)) /\ Answered' = Answered
        BY <1>8 DEF memoryVars, AnsweredTo, Answered
      <3>3. KnowsTheConversation' <=> KnowsTheConversation
        BY <1>8 DEF memoryVars, KnowsTheConversation
      <3>4. QED
        BY <1>8, <2>1, <3>1, <3>2, <3>3 DEF memoryVars, LogsTell
    <2>5. QED
      BY <2>2, <2>3, <2>4 DEF MemoryInv
  <1>9. QED
    BY <1>1, <1>2, <1>3, <1>4, <1>5, <1>6, <1>7, <1>8 DEF MemoryNext

LEMMA MemoryInvKnows == MemoryInv => MemoryTypeOK /\ MemoryIsKept
  <1>1. SUFFICES ASSUME MemoryInv PROVE MemoryTypeOK /\ MemoryIsKept
    OBVIOUS
  <1>2. /\ LogTypes /\ TurnTypes /\ OtherTypes /\ RunStands /\ RolloutsStand /\ LogsTell
        /\ MaxSpoken \in Nat
    BY <1>1, MemoryAssumption DEF MemoryInv
  <1>3. MemoryTypeOK
    <2>1. DOMAIN knew = 1..spoken /\ agentRun.at \in {"idle", "claude", "codex"}
      BY <1>2 DEF TurnTypes, AgentRuns
    <2>2. {thread, threads} \subseteq 0..MaxSpoken
      BY <1>2 DEF TurnTypes
    <2>3. QED
      BY <1>2, <2>1, <2>2 DEF TurnTypes, OtherTypes, MemoryTypeOK
  <1>4. ResumesWhatIsThere
    BY <1>2 DEF RunStands, ResumesWhatIsThere
  <1>5. KnowsTheConversation
    <2>1. gaps = {} => KnowsTheConversation
      BY <1>2 DEF LogsTell
    <2>2. QED
      BY <2>1 DEF KnowsTheConversation
  <1>6. CompactionAsksNothing
    BY <1>2 DEF RolloutsStand, CompactionAsksNothing
  <1>7. QED
    BY <1>3, <1>4, <1>5, <1>6 DEF MemoryIsKept

\* A turn resumes what is there and has been told of the turns before it
\* (codex_state.py, backends).
THEOREM MemoryStays == MemorySpec => []MemoryIsKept
  <1>1. MemoryInit => MemoryInv
    BY MemoryInvStarts
  <1>2. MemoryInv /\ [MemoryNext]_memoryVars => MemoryInv'
    BY MemoryInvKept
  <1>3. MemoryInv => MemoryIsKept
    BY MemoryInvKnows
  <1>4. QED
    BY <1>1, <1>2, <1>3, PTL DEF MemorySpec

-----------------------------------------------------------------------------
(* JailMounts.                                                             *)

\* The tree, level by level.
Level2 == {"ssh", "bin", "claude", "codex", "data", "repo"}
Level3 == {"history", "projects", "scratch", "config", "auth", "rollouts", "dataEnv",
           "memory", "ownCodex", "workspace", "repoEnv", "subEnv", "repoGit"}
Level4 == {"mine", "otherLog", "otherRun", "memoryEnv", "ownRuns", "mcp", "workGit",
           "repoHooks"}

LEMMA TreeHolds == DOMAIN Parent = Level2 \union Level3 \union Level4 \union {"hooks"}
  BY DEF Parent, Level2, Level3, Level4

LEMMA ParentIs ==
    /\ \A p \in Level2 : Parent[p] = "home"
    /\ \A p \in Level3 : Parent[p] \in Level2
    /\ \A p \in Level4 : Parent[p] \in Level3
    /\ Parent["hooks"] = "workGit"
  BY DEF Parent, Level2, Level3, Level4

LEMMA AboveStep ==
    \A p \in Paths : Above[p] = {p} \union IF p \in DOMAIN Parent THEN Above[Parent[p]] ELSE {}
  <1> DEFINE Once(f) == [p \in Paths |-> {p} \union IF p \in DOMAIN Parent THEN f[Parent[p]]
                                                   ELSE {}]
             A1 == [p \in Paths |-> {p}]
             A2 == Once(A1)
             A3 == Once(A2)
             A4 == Once(A3)
             A5 == Once(A4)
  <1>1. Paths = {"home", "tmp"} \union Level2 \union Level3 \union Level4 \union {"hooks"}
    BY TreeHolds DEF Paths
  <1>2. /\ \A p \in {"home", "tmp"} : p \notin DOMAIN Parent
        /\ \A p \in Paths \ {"home", "tmp"} : p \in DOMAIN Parent /\ Parent[p] \in Paths
    BY <1>1, TreeHolds, ParentIs DEF Level2, Level3, Level4
  <1>3. \A p \in {"home", "tmp"} : A2[p] = A1[p]
    BY <1>1, <1>2
  <1>4. \A p \in {"home", "tmp"} \union Level2 : A3[p] = A2[p]
    <2> HIDE DEF A1
    <2>1. \A p \in Paths : A3[p] = {p} \union IF p \in DOMAIN Parent THEN A2[Parent[p]] ELSE {}
      OBVIOUS
    <2>2. \A p \in Paths : A2[p] = {p} \union IF p \in DOMAIN Parent THEN A1[Parent[p]] ELSE {}
      OBVIOUS
    <2> HIDE DEF A2, A3
    <2>3. SUFFICES ASSUME NEW p \in {"home", "tmp"} \union Level2
                   PROVE  A3[p] = A2[p]
      OBVIOUS
    <2>4. CASE p \notin DOMAIN Parent
      BY <1>1, <2>1, <2>2, <2>3, <2>4
    <2>5. CASE p \in DOMAIN Parent
      <3>1. A2[Parent[p]] = A1[Parent[p]]
        BY <1>1, <1>2, <1>3, <2>3, <2>5, ParentIs
      <3>2. QED
        BY <1>1, <2>1, <2>2, <2>3, <2>5, <3>1
    <2>6. QED
      BY <2>4, <2>5
  <1>5. \A p \in {"home", "tmp"} \union Level2 \union Level3 : A4[p] = A3[p]
    <2> HIDE DEF A2
    <2>1. \A p \in Paths : A4[p] = {p} \union IF p \in DOMAIN Parent THEN A3[Parent[p]] ELSE {}
      OBVIOUS
    <2>2. \A p \in Paths : A3[p] = {p} \union IF p \in DOMAIN Parent THEN A2[Parent[p]] ELSE {}
      OBVIOUS
    <2> HIDE DEF A3, A4
    <2>3. SUFFICES ASSUME NEW p \in {"home", "tmp"} \union Level2 \union Level3
                   PROVE  A4[p] = A3[p]
      OBVIOUS
    <2>4. CASE p \notin DOMAIN Parent
      BY <1>1, <2>1, <2>2, <2>3, <2>4
    <2>5. CASE p \in DOMAIN Parent
      <3>1. A3[Parent[p]] = A2[Parent[p]]
        BY <1>1, <1>2, <1>4, <2>3, <2>5, ParentIs
      <3>2. QED
        BY <1>1, <2>1, <2>2, <2>3, <2>5, <3>1
    <2>6. QED
      BY <2>4, <2>5
  <1>6. \A p \in Paths \ {"hooks"} : A5[p] = A4[p]
    <2> HIDE DEF A3
    <2>1. \A p \in Paths : A5[p] = {p} \union IF p \in DOMAIN Parent THEN A4[Parent[p]] ELSE {}
      OBVIOUS
    <2>2. \A p \in Paths : A4[p] = {p} \union IF p \in DOMAIN Parent THEN A3[Parent[p]] ELSE {}
      OBVIOUS
    <2> HIDE DEF A4, A5
    <2>3. SUFFICES ASSUME NEW p \in Paths \ {"hooks"}
                   PROVE  A5[p] = A4[p]
      OBVIOUS
    <2>4. CASE p \notin DOMAIN Parent
      BY <1>1, <2>1, <2>2, <2>3, <2>4
    <2>5. CASE p \in DOMAIN Parent
      <3>1. A4[Parent[p]] = A3[Parent[p]]
        BY <1>1, <1>2, <1>5, <2>3, <2>5, ParentIs
      <3>2. QED
        BY <1>1, <2>1, <2>2, <2>3, <2>5, <3>1
    <2>6. QED
      BY <2>4, <2>5
  <1>7. Once(A5) = A5
    <2> HIDE DEF A4
    <2>1. \A p \in Paths : A5[p] = {p} \union IF p \in DOMAIN Parent THEN A4[Parent[p]] ELSE {}
      OBVIOUS
    <2>2. A5 = [p \in Paths |-> A5[p]]
      OBVIOUS
    <2> HIDE DEF A5
    <2>3. \A p \in DOMAIN Parent : A5[Parent[p]] = A4[Parent[p]]
      BY <1>1, <1>6, TreeHolds, ParentIs DEF Level2, Level3, Level4
    <2>4. QED
      BY <2>1, <2>2, <2>3
  <1>8. \E f : f = Once(f)
    <2> HIDE DEF A5
    <2>1. QED
      BY <1>7
  <1>9. Above = Once(Above)
    <2>1. Above = CHOOSE f : f = Once(f)
      BY DEF Above
    <2> HIDE DEF Once
    <2>2. QED
      BY <1>8, <2>1
  <1>10. QED
    <2> HIDE DEF A5
    <2>1. QED
      BY <1>9

LEMMA PathsAre ==
    /\ Paths = {"home", "tmp"} \union Level2 \union Level3 \union Level4 \union {"hooks"}
    /\ \A p \in {"home", "tmp"} : p \notin DOMAIN Parent
    /\ \A p \in Paths \ {"home", "tmp"} : p \in DOMAIN Parent /\ Parent[p] \in Paths
  <1>1. Paths = {"home", "tmp"} \union Level2 \union Level3 \union Level4 \union {"hooks"}
    BY TreeHolds DEF Paths
  <1>2. QED
    BY <1>1, TreeHolds, ParentIs DEF Level2, Level3, Level4

LEMMA AboveIs ==
    /\ Above["home"] = {"home"} /\ Above["tmp"] = {"tmp"}
    /\ \A p \in Level2 : Above[p] = {p, "home"}
    /\ \A p \in Level3 : Above[p] = {p, Parent[p], "home"}
    /\ \A p \in Level4 : Above[p] = {p, Parent[p], Parent[Parent[p]], "home"}
    /\ Above["hooks"] = {"hooks", "workGit", "workspace", "data", "home"}
  <1>1. \A p \in {"home", "tmp"} : Above[p] = {p}
    BY AboveStep, PathsAre
  <1>2. \A p \in DOMAIN Parent : p \in Paths /\ Above[p] = {p} \union Above[Parent[p]]
    BY AboveStep DEF Paths
  <1>3. \A p \in Level2 : Above[p] = {p, "home"}
    BY <1>1, <1>2, TreeHolds, ParentIs
  <1>4. \A p \in Level3 : Above[p] = {p, Parent[p], "home"}
    BY <1>2, <1>3, TreeHolds, ParentIs
  <1>5. \A p \in Level4 : Above[p] = {p, Parent[p], Parent[Parent[p]], "home"}
    BY <1>2, <1>4, TreeHolds, ParentIs
  <1>6. Above["hooks"] = {"hooks", "workGit", "workspace", "data", "home"}
    <2>1. Above["workGit"] = {"workGit", "workspace", "data", "home"}
      BY <1>5 DEF Level4, Parent
    <2>2. QED
      BY <1>2, <2>1, TreeHolds, ParentIs
  <1>7. QED
    BY <1>1, <1>3, <1>4, <1>5, <1>6

LEMMA DepthIs ==
    /\ Depth["home"] = 1 /\ Depth["tmp"] = 1 /\ Depth["hooks"] = 5
    /\ \A p \in Level2 : Depth[p] = 2
    /\ \A p \in Level3 : Depth[p] = 3
    /\ \A p \in Level4 : Depth[p] = 4
  <1>1. \A p \in Paths : Depth[p] = Cardinality(Above[p])
    BY DEF Depth
  <1>2. \A p \in {"home", "tmp"} : IsFiniteSet(Above[p]) /\ Cardinality(Above[p]) = 1
    <2>1. \A p \in {"home", "tmp"} : Above[p] = {p}
      BY AboveIs
    <2>2. QED
      BY <2>1, FS_Singleton
  <1>3. \A p \in DOMAIN Parent : p \in Paths /\ Above[p] = {p} \union Above[Parent[p]]
    BY AboveStep DEF Paths
  <1>4. ASSUME NEW p \in DOMAIN Parent, p \notin Above[Parent[p]], IsFiniteSet(Above[Parent[p]]),
               NEW n \in Nat, Cardinality(Above[Parent[p]]) = n
        PROVE  IsFiniteSet(Above[p]) /\ Cardinality(Above[p]) = n + 1
    <2>1. Above[p] = Above[Parent[p]] \union {p}
      BY <1>3
    <2>2. QED
      BY <1>4, <2>1, FS_AddElement
  <1>5. \A p \in Level2 : IsFiniteSet(Above[p]) /\ Cardinality(Above[p]) = 2
    BY <1>2, <1>4, TreeHolds, ParentIs, AboveIs DEF Level2
  <1>6. \A p \in Level3 : IsFiniteSet(Above[p]) /\ Cardinality(Above[p]) = 3
    <2>1. \A p \in Level3 : p \notin Above[Parent[p]]
      BY ParentIs, AboveIs DEF Level2, Level3
    <2>2. QED
      BY <1>4, <1>5, <2>1, TreeHolds, ParentIs
  <1>7. \A p \in Level4 : IsFiniteSet(Above[p]) /\ Cardinality(Above[p]) = 4
    <2>1. \A p \in Level4 : p \notin Above[Parent[p]]
      BY ParentIs, AboveIs DEF Level2, Level3, Level4
    <2>2. QED
      BY <1>4, <1>6, <2>1, TreeHolds, ParentIs
  <1>8. Cardinality(Above["hooks"]) = 5
    <2>1. "workGit" \in Level4 /\ "hooks" \notin Above["workGit"]
      BY AboveIs DEF Level4, Parent
    <2>2. QED
      BY <1>4, <1>7, <2>1, TreeHolds, ParentIs
  <1>9. QED
    BY <1>1, <1>2, <1>5, <1>6, <1>7, <1>8, PathsAre

\* At each depth there is one path above another.
LEMMA AboveAtDepth ==
    ASSUME NEW p \in Paths, NEW a \in Above[p], NEW b \in Above[p]
    PROVE  /\ a \in Paths /\ Depth[a] \in 1..5
           /\ Depth[a] = Depth[b] => a = b
           /\ Depth[a] >= Depth[b] => b \in Above[a]
  <1>1. CASE p \in {"home", "tmp"}
    BY <1>1, AboveIs, DepthIs, PathsAre
  <1>2. CASE p \in Level2
    BY <1>2, AboveIs, DepthIs, PathsAre
  <1>3. CASE p \in Level3
    BY <1>3, AboveIs, DepthIs, PathsAre, ParentIs
  <1>4. CASE p \in Level4
    BY <1>4, AboveIs, DepthIs, PathsAre, ParentIs
  <1>5. CASE p = "hooks"
    <2>1. /\ Parent["workGit"] = "workspace" /\ Parent["workspace"] = "data"
          /\ "workGit" \in Level4 /\ "workspace" \in Level3 /\ "data" \in Level2
      BY DEF Parent, Level2, Level3, Level4
    <2>2. /\ Above["workGit"] = {"workGit", "workspace", "data", "home"}
          /\ Above["workspace"] = {"workspace", "data", "home"}
          /\ Above["data"] = {"data", "home"} /\ Above["home"] = {"home"}
      BY <2>1, AboveIs
    <2>3. QED
      BY <1>5, <2>1, <2>2, AboveIs, DepthIs, PathsAre
  <1>6. QED
    BY <1>1, <1>2, <1>3, <1>4, <1>5, PathsAre

Kinds == {"opaque", "read_only", "read_write", "write_denied", "masked"}

LEMMA RankIs ==
    /\ Rank("opaque") = 1 /\ Rank("read_only") = 2 /\ Rank("read_write") = 3
    /\ Rank("write_denied") = 4 /\ Rank("masked") = 5
    /\ Kinds = {MountKinds[i] : i \in 1..Len(MountKinds)}
  <1>1. /\ Len(MountKinds) = 5
        /\ MountKinds[1] = "opaque" /\ MountKinds[2] = "read_only"
        /\ MountKinds[3] = "read_write" /\ MountKinds[4] = "write_denied"
        /\ MountKinds[5] = "masked"
    BY DEF MountKinds
  <1>2. Kinds = {MountKinds[i] : i \in 1..Len(MountKinds)}
    BY <1>1 DEF Kinds
  <1>3. ASSUME NEW i \in 1..5 PROVE Rank(MountKinds[i]) = i
    <2>1. \A j \in 1..5 : MountKinds[j] = MountKinds[i] => j = i
      BY <1>1, <1>3
    <2>2. QED
      BY <1>1, <2>1 DEF Rank
  <1>4. QED
    BY <1>1, <1>2, <1>3

\* Of mounts over a path one is the deepest, and of its kind: bounded, so it exists.
LEMMA TopMount ==
    ASSUME NEW lain \in SUBSET [kind : Kinds, at : Paths], lain # {},
           NEW p \in Paths, \A m \in lain : Under(p, m.at)
    PROVE  \E m \in lain : \A n \in lain \ {m} : LiesOver(m, n)
  <1>1. \A m \in lain : Depth[m.at] \in 1..5 /\ Rank(m.kind) \in 1..5
    BY AboveAtDepth, RankIs DEF Under, Kinds
  <1>2. \A m, n \in lain : Depth[m.at] = Depth[n.at] => m.at = n.at
    BY AboveAtDepth DEF Under
  <1>3. \A k, l \in Kinds : Rank(k) = Rank(l) => k = l
    BY RankIs DEF Kinds
  <1>4. PICK d \in 1..5 : /\ \E m \in lain : Depth[m.at] = d
                          /\ \A m \in lain : Depth[m.at] <= d
    <2>1. ASSUME \A m \in lain : Depth[m.at] # 5 /\ Depth[m.at] # 4 /\ Depth[m.at] # 3
                                 /\ Depth[m.at] # 2
          PROVE  \A m \in lain : Depth[m.at] = 1
      BY <1>1, <2>1
    <2>2. QED
      BY <1>1, <2>1
  <1>5. PICK r \in 1..5 : /\ \E m \in lain : Depth[m.at] = d /\ Rank(m.kind) = r
                          /\ \A m \in lain : Depth[m.at] = d => Rank(m.kind) <= r
    <2>1. ASSUME \A m \in lain : Depth[m.at] = d =>
                    /\ Rank(m.kind) # 5 /\ Rank(m.kind) # 4 /\ Rank(m.kind) # 3
                    /\ Rank(m.kind) # 2
          PROVE  \A m \in lain : Depth[m.at] = d => Rank(m.kind) = 1
      BY <1>1, <2>1
    <2>2. QED
      BY <1>1, <1>4, <2>1
  <1>6. PICK m \in lain : Depth[m.at] = d /\ Rank(m.kind) = r
    BY <1>5
  <1>7. ASSUME NEW n \in lain \ {m} PROVE LiesOver(m, n)
    <2>1. n.kind \in Kinds /\ m.kind \in Kinds /\ n \in [kind : Kinds, at : Paths]
          /\ m \in [kind : Kinds, at : Paths]
      OBVIOUS
    <2>2. CASE Depth[n.at] # d
      BY <1>1, <1>4, <1>6, <2>2 DEF LiesOver
    <2>3. CASE Depth[n.at] = d
      <3>1. n.at = m.at
        BY <1>2, <1>6, <2>3
      <3>2. n.kind # m.kind
        BY <2>1, <3>1
      <3>3. Rank(n.kind) # r /\ Rank(n.kind) <= r
        BY <1>3, <1>5, <1>6, <2>1, <2>3, <3>2
      <3>4. QED
        BY <1>1, <1>6, <2>3, <3>3 DEF LiesOver
    <2>4. QED
      BY <2>2, <2>3
  <1>8. QED
    BY <1>6, <1>7

\* What decides over a path: no mount and the host's, or the deepest of those over it.
LEMMA FateOf ==
    ASSUME NEW mounts \in SUBSET [kind : Kinds, at : Paths], NEW p \in Paths
    PROVE  \/ /\ \A m \in mounts : ~Under(p, m.at)
              /\ FateUnder(mounts)[p] = "read_only"
           \/ \E m \in mounts :
                /\ Under(p, m.at) /\ FateUnder(mounts)[p] = m.kind
                /\ \A n \in mounts : Under(p, n.at) =>
                      Under(m.at, n.at) /\ (n.at = m.at => Rank(n.kind) <= Rank(m.kind))
  <1> DEFINE lain == {m \in mounts : Under(p, m.at)}
             Top(m) == \A n \in lain \ {m} : LiesOver(m, n)
  <1>1. FateUnder(mounts)[p] = IF lain = {} THEN "read_only" ELSE (CHOOSE m \in lain : Top(m)).kind
    BY DEF FateUnder
  <1>2. CASE lain = {}
    BY <1>1, <1>2
  <1>3. CASE lain # {}
    <2>1. \E m \in lain : Top(m)
      BY <1>3, TopMount
    <2>2. PICK m \in lain : Top(m) /\ FateUnder(mounts)[p] = m.kind
      <3> HIDE DEF lain, Top
      <3>1. QED
        BY <1>1, <1>3, <2>1
    <2>3. \A n \in lain : Depth[n.at] \in 1..5 /\ Rank(n.kind) \in 1..5
      BY AboveAtDepth, RankIs DEF Under, Kinds
    <2>4. ASSUME NEW n \in lain
          PROVE  Under(m.at, n.at) /\ (n.at = m.at => Rank(n.kind) <= Rank(m.kind))
      <3>1. n = m \/ LiesOver(m, n)
        BY <2>2
      <3>2. Depth[m.at] >= Depth[n.at] /\ (n.at = m.at => Rank(n.kind) <= Rank(m.kind))
        BY <2>3, <3>1 DEF LiesOver
      <3>3. QED
        BY <3>2, AboveAtDepth DEF Under
    <2>5. QED
      BY <2>2, <2>4
  <1>4. QED
    BY <1>2, <1>3

LEMMA AboveEach ==
    /\ \A p \in Level2 : Above[p] = {p, "home"}
    /\ \A p \in {"history", "projects", "scratch"} : Above[p] = {p, "claude", "home"}
    /\ \A p \in {"config", "auth", "rollouts"} : Above[p] = {p, "codex", "home"}
    /\ \A p \in {"dataEnv", "memory", "ownCodex", "workspace"} : Above[p] = {p, "data", "home"}
    /\ \A p \in {"repoEnv", "subEnv", "repoGit"} : Above[p] = {p, "repo", "home"}
    /\ \A p \in {"mine", "otherLog"} : Above[p] = {p, "projects", "claude", "home"}
    /\ Above["otherRun"] = {"otherRun", "rollouts", "codex", "home"}
    /\ Above["memoryEnv"] = {"memoryEnv", "memory", "data", "home"}
    /\ Above["ownRuns"] = {"ownRuns", "ownCodex", "data", "home"}
    /\ \A p \in {"mcp", "workGit"} : Above[p] = {p, "workspace", "data", "home"}
    /\ Above["repoHooks"] = {"repoHooks", "repoGit", "repo", "home"}
    /\ Above["hooks"] = {"hooks", "workGit", "workspace", "data", "home"}
    /\ Above["home"] = {"home"} /\ Above["tmp"] = {"tmp"}
  <1>1. /\ \A p \in {"history", "projects", "scratch"} : p \in Level3 /\ Parent[p] = "claude"
        /\ \A p \in {"config", "auth", "rollouts"} : p \in Level3 /\ Parent[p] = "codex"
        /\ \A p \in {"dataEnv", "memory", "ownCodex", "workspace"} :
              p \in Level3 /\ Parent[p] = "data"
        /\ \A p \in {"repoEnv", "subEnv", "repoGit"} : p \in Level3 /\ Parent[p] = "repo"
    BY DEF Level3, Parent
  <1>2. /\ \A p \in {"mine", "otherLog"} : p \in Level4 /\ Parent[p] = "projects"
        /\ "otherRun" \in Level4 /\ Parent["otherRun"] = "rollouts"
        /\ "memoryEnv" \in Level4 /\ Parent["memoryEnv"] = "memory"
        /\ "ownRuns" \in Level4 /\ Parent["ownRuns"] = "ownCodex"
        /\ \A p \in {"mcp", "workGit"} : p \in Level4 /\ Parent[p] = "workspace"
        /\ "repoHooks" \in Level4 /\ Parent["repoHooks"] = "repoGit"
    BY DEF Level4, Parent
  <1>3. QED
    BY <1>1, <1>2, AboveIs

\* What is asked for is granted, or dropped for what it holds.
LEMMA GrantedAre ==
    ASSUME NEW cfg \in JailSettings
    PROVE  /\ ReadGrants(cfg) = cfg.extra \intersect {"repo"}
           /\ WriteGrants(cfg) = cfg.writes \intersect {"repo", "repoHooks"}
  <1>1. cfg.extra \in ReadEntries /\ cfg.writes \in WriteEntries
    BY DEF JailSettings
  <1>2. RefusesGrant("home") /\ RefusesGrant("ssh") /\ ~RefusesGrant("repo")
    BY AboveEach DEF RefusesGrant, Under, CredentialStores, Level2
  <1>3. ~RefusesGrant("repoHooks") /\ ~RefusesWrite("repo") /\ ~RefusesWrite("repoHooks")
        /\ RefusesWrite("claude")
    BY <1>2, AboveEach DEF RefusesGrant, RefusesWrite, Under, CredentialStores, Escapes, Level2
  <1>4. ReadGrants(cfg) = cfg.extra \intersect {"repo"}
    BY <1>1, <1>2 DEF ReadGrants, ReadEntries
  <1>5. WriteGrants(cfg) = cfg.writes \intersect {"repo", "repoHooks"}
    BY <1>1, <1>3 DEF WriteGrants, WriteEntries
  <1>6. QED
    BY <1>4, <1>5

HooksAreDenied(cfg) ==
    "repoHooks" \in there /\ "repo" \in cfg.writes /\ "repoHooks" \notin cfg.writes

LEMMA ProtectedAre ==
    ASSUME NEW cfg \in JailSettings
    PROVE  /\ ProtectedIn(WriteGrants(cfg)) =
                IF HooksAreDenied(cfg) THEN {"repoHooks"} ELSE {}
           /\ Pins(WriteGrants(cfg)) = IF HooksAreDenied(cfg) THEN {"repoGit"} ELSE {}
  <1>1. ProtectedIn(WriteGrants(cfg)) = IF HooksAreDenied(cfg) THEN {"repoHooks"} ELSE {}
    BY GrantedAre, AboveEach DEF ProtectedIn, Under, HooksAreDenied
  <1>2. CASE HooksAreDenied(cfg)
    <2>1. WriteGrants(cfg) = {"repo"}
      BY <1>2, GrantedAre DEF HooksAreDenied
    <2>2. Above["repo"] = {"repo", "home"} /\ Above["repoGit"] = {"repoGit", "repo", "home"}
          /\ Above["home"] = {"home"}
          /\ Above["repoHooks"] = {"repoHooks", "repoGit", "repo", "home"}
      BY AboveEach DEF Level2
    <2>3. UNION {Above[p] \ {p} : p \in {"repoHooks"}} = {"repoGit", "repo", "home"}
      BY <2>2
    <2>4. Pins(WriteGrants(cfg)) = {"repoGit"}
      BY <1>1, <1>2, <2>1, <2>2, <2>3 DEF Pins, Under
    <2>5. QED
      BY <1>1, <1>2, <2>4
  <1>3. CASE ~HooksAreDenied(cfg)
    BY <1>1, <1>3 DEF Pins
  <1>4. QED
    BY <1>2, <1>3

\* The mounts by their kinds, each over a path of the tree.
OpaqueAt(cfg) ==
    {"home", "data"} \union IF cfg.scoped THEN {"projects", "rollouts"} \intersect there ELSE {}
ReadOnlyAt(cfg) == {"claude", "codex"} \union (cfg.extra \intersect {"repo"})
WritableAt(cfg) ==
    {"workspace", "memory", "tmp", "scratch", "codex", ThreadDir(cfg), CodexHome(cfg),
     RunsOf(cfg)} \union (cfg.writes \intersect {"repo", "repoHooks"})
    \union IF HooksAreDenied(cfg) THEN {"repoGit"} ELSE {}
DeniedAt(cfg) ==
    ProjectDenies \union (IF HooksAreDenied(cfg) THEN {"repoHooks"} ELSE {})
    \union {"config"} \union IF cfg.brokered THEN {} ELSE {"auth"}

LEMMA GrantsAre ==
    ASSUME NEW cfg \in JailSettings
    PROVE  Grants(cfg) = MountsOf("opaque", OpaqueAt(cfg))
               \union MountsOf("read_only", ReadOnlyAt(cfg))
               \union MountsOf("read_write", WritableAt(cfg))
               \union MountsOf("write_denied", DeniedAt(cfg))
               \union MountsOf("masked", MaskedBy(cfg))
  <1>1. {"claude", "codex"} \union ReadGrants(cfg) = ReadOnlyAt(cfg)
    BY GrantedAre DEF ReadOnlyAt
  <1>2. {"workspace", "memory", "tmp", "scratch", "codex", ThreadDir(cfg), CodexHome(cfg),
         RunsOf(cfg)} \union WriteGrants(cfg) \union Pins(WriteGrants(cfg)) = WritableAt(cfg)
    BY GrantedAre, ProtectedAre DEF WritableAt
  <1>3. ProjectDenies \union ProtectedIn(WriteGrants(cfg)) \union {"config"}
        \union (IF cfg.brokered THEN {} ELSE {"auth"}) = DeniedAt(cfg)
    BY ProtectedAre DEF DeniedAt
  <1>4. QED
    BY <1>1, <1>2, <1>3, Zenon DEF Grants, OpaqueAt

LEMMA MasksAre ==
    ASSUME NEW cfg \in JailSettings, there \subseteq Comes \union Makes
    PROVE  /\ MaskedBy(cfg) \subseteq {"history", "auth", "memoryEnv", "repoEnv", "subEnv"}
           /\ "history" \in MaskedBy(cfg) <=> "history" \in there
           /\ "auth" \in MaskedBy(cfg) <=> cfg.brokered /\ "auth" \in there
           /\ "memoryEnv" \in MaskedBy(cfg) <=> "memoryEnv" \in there
           /\ \A p \in {"repoEnv", "subEnv"} :
                 p \in MaskedBy(cfg) <=> p \in there /\ "repo" \in cfg.extra \union cfg.writes
  <1> DEFINE roots == {"memory", "claude", "codex"} \union ReadGrants(cfg) \union WriteGrants(cfg)
  <1>1. roots = {"memory", "claude", "codex"} \union (cfg.extra \intersect {"repo"})
                \union (cfg.writes \intersect {"repo", "repoHooks"})
    BY GrantedAre
  <1>2. "dataEnv" \notin there
    BY DEF Comes, Makes
  <1>3. /\ Above["memoryEnv"] = {"memoryEnv", "memory", "data", "home"}
        /\ Above["repoEnv"] = {"repoEnv", "repo", "home"}
        /\ Above["subEnv"] = {"subEnv", "repo", "home"}
    BY AboveEach
  <1>4. /\ \E r \in roots : r \in Above["memoryEnv"]
        /\ \A p \in {"repoEnv", "subEnv"} :
              (\E r \in roots : r \in Above[p]) <=> "repo" \in cfg.extra \union cfg.writes
    BY <1>1, <1>3
  <1>5. \A p \in there : p \in Dotenvs => p \in {"memoryEnv", "repoEnv", "subEnv"}
    BY <1>2 DEF Dotenvs
  <1>6. SweptIn(roots) = {p \in there : p \in Dotenvs /\ \E r \in roots : r \in Above[p]}
    BY DEF SweptIn, Under
  <1>7. MaskedBy(cfg) = SweptIn(roots)
            \union {p \in there : p = "history" \/ (cfg.brokered /\ p = "auth")}
    BY DEF MaskedBy
  <1>8. SweptIn(roots) =
          {p \in {"memoryEnv"} \intersect there : TRUE}
          \union {p \in {"repoEnv", "subEnv"} \intersect there :
                    "repo" \in cfg.extra \union cfg.writes}
    <2> HIDE DEF roots
    <2>1. QED
      BY <1>4, <1>5, <1>6 DEF Dotenvs
  <1>9. QED
    <2> HIDE DEF roots
    <2>1. QED
      BY <1>7, <1>8

LEMMA GrantsTyped ==
    ASSUME NEW cfg \in JailSettings, there \subseteq Comes \union Makes
    PROVE  Grants(cfg) \subseteq [kind : Kinds, at : Paths]
  <1>1. \A k \in Kinds : \A ps : ps \subseteq Paths =>
           MountsOf(k, ps) \subseteq [kind : Kinds, at : Paths]
    BY DEF MountsOf
  <1>2. OpaqueAt(cfg) \subseteq Paths /\ ReadOnlyAt(cfg) \subseteq Paths
        /\ DeniedAt(cfg) \subseteq Paths
    BY PathsAre DEF OpaqueAt, ReadOnlyAt, DeniedAt, ProjectDenies, Level2, Level3, Level4
  <1>3. WritableAt(cfg) \subseteq Paths
    BY PathsAre DEF WritableAt, ThreadDir, CodexHome, RunsOf, Level2, Level3, Level4
  <1>4. MaskedBy(cfg) \subseteq Paths
    BY MasksAre, PathsAre DEF Level3, Level4
  <1>5. QED
    BY <1>1, <1>2, <1>3, <1>4, GrantsAre DEF Kinds

InForce(cfg) == {m \in Grants(cfg) : m.kind \notin {"read_only", "read_write"} \/ There(m.at)}
Mount(k, q) == [kind |-> k, at |-> q]

LEMMA InForceAre ==
    ASSUME NEW cfg \in JailSettings, there \subseteq Comes \union Makes
    PROVE  /\ InForce(cfg) \in SUBSET [kind : Kinds, at : Paths]
           /\ \A m \in InForce(cfg) :
                 \/ m.kind = "opaque" /\ m.at \in OpaqueAt(cfg)
                 \/ m.kind = "read_only" /\ m.at \in ReadOnlyAt(cfg)
                 \/ m.kind = "read_write" /\ m.at \in WritableAt(cfg) /\ There(m.at)
                 \/ m.kind = "write_denied" /\ m.at \in DeniedAt(cfg)
                 \/ m.kind = "masked" /\ m.at \in MaskedBy(cfg)
           /\ \A q \in OpaqueAt(cfg) : Mount("opaque", q) \in InForce(cfg)
           /\ \A q \in ReadOnlyAt(cfg) : There(q) => Mount("read_only", q) \in InForce(cfg)
           /\ \A q \in WritableAt(cfg) : There(q) => Mount("read_write", q) \in InForce(cfg)
           /\ \A q \in DeniedAt(cfg) : Mount("write_denied", q) \in InForce(cfg)
           /\ \A q \in MaskedBy(cfg) : Mount("masked", q) \in InForce(cfg)
  <1>1. InForce(cfg) \in SUBSET [kind : Kinds, at : Paths]
    BY GrantsTyped DEF InForce
  <1>2. \A k, ps : \A m : m \in MountsOf(k, ps) <=> \E q \in ps : m = Mount(k, q)
    BY DEF MountsOf, Mount
  <1>3. \A k, q : Mount(k, q).kind = k /\ Mount(k, q).at = q
    BY DEF Mount
  <1>4. QED
    BY <1>1, <1>2, <1>3, GrantsAre DEF InForce

\* A mount decides over a path when none lies deeper over it, and none over it at its place.
LEMMA Decides ==
    ASSUME NEW cfg \in JailSettings, there \subseteq Comes \union Makes,
           NEW p \in Paths, NEW q \in Above[p], NEW k \in Kinds, Mount(k, q) \in InForce(cfg),
           \A m \in InForce(cfg) : m.at \in Above[p] /\ q \in Above[m.at] =>
               m.at = q /\ Rank(m.kind) <= Rank(k)
    PROVE  FateUnder(InForce(cfg))[p] = k
  <1>1. InForce(cfg) \in SUBSET [kind : Kinds, at : Paths]
    BY InForceAre
  <1>2. Mount(k, q).kind = k /\ Mount(k, q).at = q
    BY DEF Mount
  <1>3. ~\A m \in InForce(cfg) : ~Under(p, m.at)
    BY <1>2 DEF Under
  <1>4. PICK m \in InForce(cfg) :
          /\ Under(p, m.at) /\ FateUnder(InForce(cfg))[p] = m.kind
          /\ \A n \in InForce(cfg) : Under(p, n.at) =>
                Under(m.at, n.at) /\ (n.at = m.at => Rank(n.kind) <= Rank(m.kind))
    BY <1>1, <1>3, FateOf
  <1>5. Under(m.at, q) /\ (q = m.at => Rank(k) <= Rank(m.kind))
    BY <1>2, <1>4 DEF Under
  <1>6. m.at = q /\ Rank(m.kind) <= Rank(k)
    BY <1>4, <1>5 DEF Under
  <1>7. m.kind \in Kinds /\ m.kind = k
    <2>1. m.kind \in Kinds
      BY <1>1
    <2>2. Rank(m.kind) <= Rank(k) /\ Rank(k) <= Rank(m.kind)
      BY <1>5, <1>6
    <2>3. \A x, y \in Kinds : Rank(x) <= Rank(y) /\ Rank(y) <= Rank(x) => x = y
      BY RankIs DEF Kinds
    <2>4. QED
      BY <2>1, <2>2, <2>3
  <1>8. QED
    BY <1>4, <1>7

LEMMA AlwaysAre ==
    /\ {"home", "tmp", "ssh", "bin", "claude", "codex", "data", "repo", "scratch", "dataEnv",
        "memory", "workspace", "repoGit"} \subseteq Always
    /\ Always \intersect (Comes \union Makes) = {}
    /\ Comes \union Makes \subseteq Paths
  BY PathsAre DEF Always, Comes, Makes, Level2, Level3, Level4

FateIn(cfg) == FateUnder(InForce(cfg))

\* Where something may be mounted at all, and where a kind that goes over another.
MountedAt(cfg) ==
    OpaqueAt(cfg) \union ReadOnlyAt(cfg) \union {q \in WritableAt(cfg) : There(q)}
    \union DeniedAt(cfg) \union MaskedBy(cfg)
OverIt(cfg, k) ==
    (IF k = "opaque" THEN ReadOnlyAt(cfg) ELSE {})
    \union (IF k \in {"opaque", "read_only"} THEN WritableAt(cfg) ELSE {})
    \union (IF k \in {"opaque", "read_only", "read_write"} THEN DeniedAt(cfg) ELSE {})
    \union (IF k # "masked" THEN MaskedBy(cfg) ELSE {})

LEMMA DecidesAt ==
    ASSUME NEW cfg \in JailSettings, there \subseteq Comes \union Makes,
           NEW p \in Paths, NEW q \in Above[p], NEW k \in Kinds, Mount(k, q) \in InForce(cfg),
           \A a \in Above[p] \ {q} : q \in Above[a] => a \notin MountedAt(cfg),
           q \notin OverIt(cfg, k)
    PROVE  FateIn(cfg)[p] = k
  <1>1. ASSUME NEW m \in InForce(cfg), m.at \in Above[p], q \in Above[m.at]
        PROVE  m.at = q /\ Rank(m.kind) <= Rank(k)
    <2>1. m.at \in MountedAt(cfg)
      BY InForceAre DEF MountedAt
    <2>2. m.at = q
      BY <1>1, <2>1
    <2>3. Rank(m.kind) <= Rank(k)
      BY <2>2, InForceAre, RankIs DEF OverIt, Kinds
    <2>4. QED
      BY <2>2, <2>3
  <1>2. QED
    BY <1>1, Decides DEF FateIn

\* Of what is nowhere mounted itself the directory decides.
LEMMA MountedAre ==
    ASSUME NEW cfg \in JailSettings, there \subseteq Comes \union Makes
    PROVE  /\ MountedAt(cfg)
              \intersect {"ssh", "bin", "otherLog", "otherRun", "dataEnv", "workGit"} = {}
           /\ "history" \in MountedAt(cfg) => "history" \in there
           /\ "hooks" \in MountedAt(cfg) => ~worktree
           /\ MaskedBy(cfg) \intersect {"home", "data", "claude", "codex", "projects", "rollouts",
                 "repo", "repoGit", "repoHooks", "config", "mcp", "hooks", "workspace", "memory",
                 "tmp", "scratch", "mine", "ownCodex", "ownRuns"} = {}
           /\ DeniedAt(cfg) \subseteq {"mcp", "hooks", "repoHooks", "config", "auth"}
           /\ "home" \notin OverIt(cfg, "opaque")
           /\ "data" \notin OverIt(cfg, "opaque")
           /\ cfg.scoped => "projects" \notin OverIt(cfg, "opaque")
                            /\ "rollouts" \notin OverIt(cfg, "opaque")
           /\ "claude" \notin OverIt(cfg, "read_only")
  <1>1. /\ MaskedBy(cfg) \subseteq {"history", "auth", "memoryEnv", "repoEnv", "subEnv"}
        /\ "history" \in MaskedBy(cfg) => "history" \in there
    BY MasksAre
  <1>2. DeniedAt(cfg) \subseteq {"mcp", "hooks", "repoHooks", "config", "auth"}
        /\ ("hooks" \in DeniedAt(cfg) => ~worktree)
    BY DEF DeniedAt, ProjectDenies
  <1>3. WritableAt(cfg) \subseteq {"workspace", "memory", "tmp", "scratch", "codex", "repo",
                "repoHooks", "repoGit", ThreadDir(cfg), CodexHome(cfg), RunsOf(cfg)}
    BY DEF WritableAt
  <1>4. /\ ThreadDir(cfg) = IF cfg.scoped THEN "mine" ELSE "projects"
        /\ CodexHome(cfg) = IF cfg.scoped THEN "ownCodex" ELSE "codex"
        /\ RunsOf(cfg) = IF cfg.scoped THEN "ownRuns" ELSE "rollouts"
    BY DEF ThreadDir, CodexHome, RunsOf
  <1>5. ReadOnlyAt(cfg) \subseteq {"claude", "codex", "repo"}
        /\ OpaqueAt(cfg) \subseteq {"home", "data", "projects", "rollouts"}
    BY DEF ReadOnlyAt, OpaqueAt
  <1>6. /\ MountedAt(cfg)
           \intersect {"ssh", "bin", "otherLog", "otherRun", "dataEnv", "workGit"} = {}
        /\ "history" \in MountedAt(cfg) => "history" \in there
        /\ "hooks" \in MountedAt(cfg) => ~worktree
    BY <1>1, <1>2, <1>3, <1>4, <1>5 DEF MountedAt
  <1>7. /\ "home" \notin OverIt(cfg, "opaque")
        /\ "data" \notin OverIt(cfg, "opaque")
        /\ cfg.scoped => "projects" \notin OverIt(cfg, "opaque")
                         /\ "rollouts" \notin OverIt(cfg, "opaque")
        /\ "claude" \notin OverIt(cfg, "read_only")
    BY <1>1, <1>2, <1>3, <1>4, <1>5 DEF OverIt
  <1>8. QED
    BY <1>1, <1>2, <1>6, <1>7

LEMMA HiddenFates ==
    ASSUME NEW cfg \in JailSettings, there \subseteq Comes \union Makes
    PROVE  /\ FateIn(cfg)["ssh"] = "opaque" /\ FateIn(cfg)["dataEnv"] = "opaque"
           /\ \A p \in MaskedBy(cfg) : FateIn(cfg)[p] = "masked"
           /\ \A p \in {"repoEnv", "subEnv"} :
                 "repo" \notin cfg.extra \union cfg.writes /\ p \notin MaskedBy(cfg)
                     => FateIn(cfg)[p] = "opaque"
           /\ cfg.scoped /\ "projects" \in there => FateIn(cfg)["otherLog"] = "opaque"
           /\ cfg.scoped /\ "rollouts" \in there => FateIn(cfg)["otherRun"] = "opaque"
  <1>1. ASSUME NEW p \in MaskedBy(cfg) PROVE FateIn(cfg)[p] = "masked"
    <2>1. p \in Paths
      BY MasksAre, PathsAre DEF Level3, Level4
    <2>2. /\ p \in Above[p] /\ Mount("masked", p) \in InForce(cfg) /\ "masked" \in Kinds
          /\ OverIt(cfg, "masked") = {}
      BY <2>1, AboveStep, InForceAre DEF Kinds, OverIt
    <2>3. ASSUME NEW a \in Above[p], p \in Above[a] PROVE a = p
      <3>1. CASE p \in {"history", "auth", "repoEnv", "subEnv"}
        BY <2>3, <3>1, AboveEach DEF Level2
      <3>2. CASE p = "memoryEnv"
        BY <2>3, <3>2, AboveEach DEF Level2
      <3>3. QED
        BY <3>1, <3>2, MasksAre
    <2>4. QED
      BY <2>1, <2>2, <2>3, DecidesAt
  <1>2. ASSUME NEW p \in {"ssh", "repoEnv", "subEnv"}, p \notin MountedAt(cfg),
               "repo" \notin MountedAt(cfg) \/ p = "ssh"
        PROVE  FateIn(cfg)[p] = "opaque"
    <2>1. p \in Paths /\ "home" \in Above[p] /\ "opaque" \in Kinds
      BY PathsAre, AboveEach DEF Kinds, Level2, Level3
    <2>2. Mount("opaque", "home") \in InForce(cfg)
      BY InForceAre DEF OpaqueAt
    <2>3. \A a \in Above[p] \ {"home"} : a \notin MountedAt(cfg)
      BY <1>2, AboveEach DEF Level2
    <2>4. QED
      BY <2>1, <2>2, <2>3, MountedAre, DecidesAt
  <1>3. FateIn(cfg)["ssh"] = "opaque"
    BY <1>2, MountedAre
  <1>4. ASSUME NEW p \in {"repoEnv", "subEnv"}, "repo" \notin cfg.extra \union cfg.writes,
               p \notin MaskedBy(cfg)
        PROVE  FateIn(cfg)[p] = "opaque"
    <2>1. p \notin MountedAt(cfg) /\ "repo" \notin MountedAt(cfg)
      BY <1>4, MountedAre DEF MountedAt, OpaqueAt, ReadOnlyAt, WritableAt, ThreadDir, CodexHome,
         RunsOf
    <2>2. QED
      BY <1>2, <2>1
  <1>5. FateIn(cfg)["dataEnv"] = "opaque"
    <2>1. "dataEnv" \in Paths /\ "data" \in Above["dataEnv"] /\ "opaque" \in Kinds
          /\ Above["dataEnv"] = {"dataEnv", "data", "home"} /\ Above["home"] = {"home"}
      BY PathsAre, AboveEach DEF Kinds, Level3
    <2>2. Mount("opaque", "data") \in InForce(cfg)
      BY InForceAre DEF OpaqueAt
    <2>3. QED
      BY <2>1, <2>2, MountedAre, DecidesAt
  <1>6. ASSUME cfg.scoped, "projects" \in there PROVE FateIn(cfg)["otherLog"] = "opaque"
    <2>1. "otherLog" \in Paths /\ "projects" \in Above["otherLog"] /\ "opaque" \in Kinds
          /\ Above["otherLog"] = {"otherLog", "projects", "claude", "home"}
          /\ Above["home"] = {"home"} /\ Above["claude"] = {"claude", "home"}
      BY PathsAre, AboveEach DEF Kinds, Level4, Level2
    <2>2. Mount("opaque", "projects") \in InForce(cfg)
      BY <1>6, InForceAre DEF OpaqueAt
    <2>3. QED
      BY <1>6, <2>1, <2>2, MountedAre, DecidesAt
  <1>7. ASSUME cfg.scoped, "rollouts" \in there PROVE FateIn(cfg)["otherRun"] = "opaque"
    <2>1. "otherRun" \in Paths /\ "rollouts" \in Above["otherRun"] /\ "opaque" \in Kinds
          /\ Above["otherRun"] = {"otherRun", "rollouts", "codex", "home"}
          /\ Above["home"] = {"home"} /\ Above["codex"] = {"codex", "home"}
      BY PathsAre, AboveEach DEF Kinds, Level4, Level2
    <2>2. Mount("opaque", "rollouts") \in InForce(cfg)
      BY <1>7, InForceAre DEF OpaqueAt
    <2>3. QED
      BY <1>7, <2>1, <2>2, MountedAre, DecidesAt
  <1>8. QED
    BY <1>1, <1>3, <1>4, <1>5, <1>6, <1>7

\* What is mounted at its own place, and nothing goes over it there.
LEMMA AtItsPlace ==
    ASSUME NEW cfg \in JailSettings, there \subseteq Comes \union Makes,
           NEW p \in {"workspace", "memory", "tmp", "scratch", "claude", "codex", "config", "mcp",
                      "hooks", "projects", "mine", "rollouts", "ownCodex", "ownRuns", "repo",
                      "repoGit", "repoHooks"},
           NEW k \in Kinds, Mount(k, p) \in InForce(cfg), p \notin OverIt(cfg, k)
    PROVE  FateIn(cfg)[p] = k
  <1>1. p \in Paths
    BY PathsAre DEF Level2, Level3, Level4
  <1>2. p \in Above[p]
    BY <1>1, AboveStep
  <1>3. ASSUME NEW a \in Above[p], p \in Above[a] PROVE a = p
    <2>1. CASE p \in {"tmp", "claude", "codex", "repo"}
      BY <1>3, <2>1, AboveEach DEF Level2
    <2>2. CASE p \in {"workspace", "memory", "ownCodex", "scratch", "projects", "config",
                      "rollouts", "repoGit"}
      BY <1>3, <2>2, AboveEach DEF Level2
    <2>3. CASE p \in {"mine", "mcp", "ownRuns", "repoHooks"}
      BY <1>3, <2>3, AboveEach DEF Level2
    <2>4. CASE p = "hooks"
      BY <1>3, <2>4, AboveEach DEF Level2
    <2>5. QED
      BY <2>1, <2>2, <2>3, <2>4
  <1>4. QED
    BY <1>1, <1>2, <1>3, DecidesAt

LEMMA OpenFates ==
    ASSUME NEW cfg \in JailSettings, there \subseteq Comes \union Makes
    PROVE  /\ FateIn(cfg)["claude"] = "read_only"
           /\ \A p \in {"workspace", "memory", "tmp", "scratch", "codex", ThreadDir(cfg),
                        CodexHome(cfg), RunsOf(cfg)} :
                 There(p) => FateIn(cfg)[p] = "read_write"
           /\ "repo" \in cfg.extra \union cfg.writes =>
                 FateIn(cfg)["repo"] \in {"read_only", "read_write"}
           /\ "repo" \in cfg.writes => FateIn(cfg)["repoGit"] = "read_write"
           /\ {"repo", "repoHooks"} \subseteq cfg.writes => FateIn(cfg)["repoHooks"] = "read_write"
  <1>1. \A k \in {"read_only", "read_write"} : k \in Kinds
    BY DEF Kinds
  <1>2. FateIn(cfg)["claude"] = "read_only"
    <2>1. Mount("read_only", "claude") \in InForce(cfg)
      BY InForceAre, AlwaysAre DEF ReadOnlyAt, There
    <2>2. QED
      BY <1>1, <2>1, MountedAre, AtItsPlace
  <1>3. ASSUME NEW p \in WritableAt(cfg), There(p),
               p \in {"workspace", "memory", "tmp", "scratch", "codex", "projects", "mine",
                      "rollouts", "ownCodex", "ownRuns", "repo", "repoGit"}
               \/ (p = "repoHooks" /\ p \in cfg.writes)
        PROVE  FateIn(cfg)[p] = "read_write"
    <2>1. Mount("read_write", p) \in InForce(cfg)
      BY <1>3, InForceAre
    <2>2. p \notin OverIt(cfg, "read_write")
      BY <1>3, MountedAre DEF OverIt, DeniedAt, HooksAreDenied, ProjectDenies
    <2>3. QED
      BY <1>1, <1>3, <2>1, <2>2, AtItsPlace
  <1>4. ASSUME NEW p \in {"workspace", "memory", "tmp", "scratch", "codex", ThreadDir(cfg),
                          CodexHome(cfg), RunsOf(cfg)}, There(p)
        PROVE  FateIn(cfg)[p] = "read_write"
    BY <1>3, <1>4 DEF WritableAt, ThreadDir, CodexHome, RunsOf
  <1>5. ASSUME "repo" \in cfg.writes PROVE FateIn(cfg)["repo"] = "read_write"
    BY <1>3, <1>5, AlwaysAre DEF WritableAt, There
  <1>6. ASSUME "repo" \in cfg.extra, "repo" \notin cfg.writes
        PROVE  FateIn(cfg)["repo"] = "read_only"
    <2>1. Mount("read_only", "repo") \in InForce(cfg)
      BY <1>6, InForceAre, AlwaysAre DEF ReadOnlyAt, There
    <2>2. "repo" \notin OverIt(cfg, "read_only")
      BY <1>6, MountedAre DEF OverIt, WritableAt, ThreadDir, CodexHome, RunsOf
    <2>3. QED
      BY <1>1, <2>1, <2>2, AtItsPlace
  \* Below a grant, and nothing of its own.
  <1>7. ASSUME "repo" \in cfg.writes, NEW p \in {"repoGit", "repoHooks"},
               "repoGit" \notin MountedAt(cfg), p \notin MountedAt(cfg)
        PROVE  FateIn(cfg)[p] = "read_write"
    <2>1. /\ p \in Paths /\ "repo" \in Above[p]
          /\ Above[p] \subseteq {p, "repoGit", "repo", "home"} /\ Above["home"] = {"home"}
      BY PathsAre, AboveEach DEF Level3, Level4
    <2>2. Mount("read_write", "repo") \in InForce(cfg)
      BY <1>7, InForceAre, AlwaysAre DEF WritableAt, There
    <2>3. "repo" \notin OverIt(cfg, "read_write")
      BY MountedAre DEF OverIt
    <2>4. QED
      BY <1>1, <1>7, <2>1, <2>2, <2>3, DecidesAt
  <1>8. "repoGit" \in MountedAt(cfg) => "repoGit" \in WritableAt(cfg)
    BY MountedAre DEF MountedAt, OpaqueAt, ReadOnlyAt
  <1>9. ASSUME "repo" \in cfg.writes PROVE FateIn(cfg)["repoGit"] = "read_write"
    BY <1>3, <1>7, <1>8, <1>9, AlwaysAre DEF There
  <1>10. ASSUME {"repo", "repoHooks"} \subseteq cfg.writes
         PROVE  FateIn(cfg)["repoHooks"] = "read_write"
    <2>1. "repoHooks" \in WritableAt(cfg) /\ "repoHooks" \notin DeniedAt(cfg)
          /\ "repoGit" \notin WritableAt(cfg)
      BY <1>10 DEF WritableAt, DeniedAt, HooksAreDenied, ProjectDenies, ThreadDir, CodexHome,
         RunsOf
    <2>2. CASE There("repoHooks")
      BY <1>3, <1>10, <2>1, <2>2
    <2>3. CASE ~There("repoHooks")
      <3>1. "repoHooks" \notin MountedAt(cfg)
        BY <2>1, <2>3, MountedAre DEF MountedAt, OpaqueAt, ReadOnlyAt
      <3>2. "repo" \in cfg.writes /\ "repoGit" \notin MountedAt(cfg)
        BY <1>8, <1>10, <2>1
      <3>3. QED
        BY <1>7, <3>1, <3>2
    <2>4. QED
      BY <2>2, <2>3
  <1>11. QED
    BY <1>2, <1>4, <1>5, <1>6, <1>9, <1>10

LEMMA KeptFates ==
    ASSUME NEW cfg \in JailSettings, there \subseteq Comes \union Makes
    PROVE  /\ FateIn(cfg)["config"] = "write_denied" /\ FateIn(cfg)["mcp"] = "write_denied"
           /\ ~worktree => FateIn(cfg)["hooks"] = "write_denied"
           /\ worktree => FateIn(cfg)["hooks"] = "read_write"
           /\ "history" \notin there => FateIn(cfg)["history"] = "read_only"
           /\ "repoHooks" \in there \ cfg.writes =>
                 FateIn(cfg)["repoHooks"] \in {"write_denied", "read_only", "opaque"}
  <1>1. {"write_denied", "read_write", "read_only", "opaque"} \subseteq Kinds
    BY DEF Kinds
  <1>2. ASSUME NEW p \in DeniedAt(cfg), p # "auth" PROVE FateIn(cfg)[p] = "write_denied"
    <2>1. Mount("write_denied", p) \in InForce(cfg)
      BY InForceAre
    <2>2. p \in {"mcp", "hooks", "repoHooks", "config"} /\ p \notin OverIt(cfg, "write_denied")
      BY <1>2, MountedAre DEF OverIt
    <2>3. QED
      BY <1>1, <2>1, <2>2, AtItsPlace
  <1>3. FateIn(cfg)["config"] = "write_denied" /\ FateIn(cfg)["mcp"] = "write_denied"
        /\ (~worktree => FateIn(cfg)["hooks"] = "write_denied")
    BY <1>2 DEF DeniedAt, ProjectDenies
  <1>4. ASSUME worktree PROVE FateIn(cfg)["hooks"] = "read_write"
    <2>1. /\ "hooks" \in Paths /\ "workspace" \in Above["hooks"]
          /\ Above["hooks"] = {"hooks", "workGit", "workspace", "data", "home"}
          /\ Above["home"] = {"home"} /\ Above["data"] = {"data", "home"}
      BY PathsAre, AboveEach DEF Level2
    <2>2. Mount("read_write", "workspace") \in InForce(cfg)
      BY InForceAre, AlwaysAre DEF WritableAt, There
    <2>3. "workspace" \notin OverIt(cfg, "read_write")
      BY MountedAre DEF OverIt
    <2>4. QED
      BY <1>1, <1>4, <2>1, <2>2, <2>3, MountedAre, DecidesAt
  <1>5. ASSUME "history" \notin there PROVE FateIn(cfg)["history"] = "read_only"
    <2>1. /\ "history" \in Paths /\ "claude" \in Above["history"]
          /\ Above["history"] = {"history", "claude", "home"} /\ Above["home"] = {"home"}
      BY PathsAre, AboveEach DEF Level3
    <2>2. Mount("read_only", "claude") \in InForce(cfg)
      BY InForceAre, AlwaysAre DEF ReadOnlyAt, There
    <2>3. QED
      BY <1>1, <1>5, <2>1, <2>2, MountedAre, DecidesAt
  <1>6. ASSUME "repoHooks" \in there \ cfg.writes
        PROVE  FateIn(cfg)["repoHooks"] \in {"write_denied", "read_only", "opaque"}
    <2>1. CASE "repo" \in cfg.writes
      BY <1>2, <1>6, <2>1 DEF DeniedAt, HooksAreDenied
    <2>2. ASSUME "repo" \notin cfg.writes
          PROVE  {"repoGit", "repoHooks"} \intersect MountedAt(cfg) = {}
      BY <1>6, <2>2, MountedAre DEF MountedAt, OpaqueAt, ReadOnlyAt, WritableAt, DeniedAt,
         ProjectDenies, HooksAreDenied, ThreadDir, CodexHome, RunsOf
    <2>3. /\ "repoHooks" \in Paths /\ {"repo", "home"} \subseteq Above["repoHooks"]
          /\ Above["repoHooks"] = {"repoHooks", "repoGit", "repo", "home"}
          /\ Above["home"] = {"home"} /\ Above["repo"] = {"repo", "home"}
      BY PathsAre, AboveEach DEF Level2, Level4
    <2>4. CASE "repo" \in cfg.extra \ cfg.writes
      <3>1. Mount("read_only", "repo") \in InForce(cfg)
        BY <2>4, InForceAre, AlwaysAre DEF ReadOnlyAt, There
      <3>2. "repo" \notin OverIt(cfg, "read_only")
        BY <2>4, MountedAre DEF OverIt, WritableAt, ThreadDir, CodexHome, RunsOf
      <3>3. QED
        BY <1>1, <2>2, <2>3, <2>4, <3>1, <3>2, DecidesAt
    <2>5. CASE "repo" \notin cfg.extra \union cfg.writes
      <3>1. Mount("opaque", "home") \in InForce(cfg)
        BY InForceAre DEF OpaqueAt
      <3>2. "repo" \notin MountedAt(cfg)
        BY <2>5, MountedAre DEF MountedAt, OpaqueAt, ReadOnlyAt, WritableAt, ThreadDir,
           CodexHome, RunsOf
      <3>3. QED
        BY <1>1, <2>2, <2>3, <2>5, <3>1, <3>2, MountedAre, DecidesAt
    <2>6. QED
      BY <2>1, <2>4, <2>5
  <1>7. QED
    BY <1>3, <1>4, <1>5, <1>6

\* What the guidance may list, and what is there once wrap has made the sources.
MayRead(cfg) ==
    {"claude", "codex", "workspace", "memory", "tmp", "scratch", ThreadDir(cfg), CodexHome(cfg),
     RunsOf(cfg)}
    \union ((cfg.extra \union cfg.writes) \intersect {"repo"})
    \union (cfg.writes \intersect {"repoHooks"})
    \union IF "repo" \in cfg.writes THEN {"repoGit"} ELSE {}

GuidanceFits ==
    /\ jailed = "idle" => drift = {}
    /\ jailed \in {"prompted", "sourced"} /\ drift = {} => listed \subseteq MayRead(jailCfg)

SourcesHere ==
    jailed = "sourced" /\ drift = {} =>
        /\ SourcesOf(jailCfg) \subseteq there \union Always
        /\ jailCfg.scoped => {"projects", "rollouts"} \subseteq there

\* What the mounts of the turn that runs have made of each path: none of it is undone by what
\* is made beside it.
FatesHold ==
    jailed = "running" =>
        /\ drift = {} =>
              /\ fate[ThreadDir(asIf)] = "read_write" /\ There(ThreadDir(asIf))
              /\ fate[RunsOf(asIf)] = "read_write"
              /\ asIf.scoped => fate["otherLog"] = "opaque" /\ fate["otherRun"] = "opaque"
              /\ \A p \in listed : fate[p] \in {"read_only", "read_write"}
        /\ fate["ssh"] = "opaque" /\ fate["dataEnv"] = "opaque"
        /\ \A p \in atSpawn : p \in Dotenvs => fate[p] \in {"masked", "opaque"}
        /\ "history" \in atSpawn => fate["history"] = "masked"
        /\ asIf.brokered /\ "auth" \in atSpawn => fate["auth"] = "masked"
        /\ \A p \in {"config", "mcp"} : fate[p] = "write_denied"
        /\ fate["claude"] = "read_only" /\ fate["history"] \in {"masked", "read_only"}
        /\ ~worktree => fate["hooks"] = "write_denied"
        /\ worktree => fate["hooks"] = fate["workspace"]
        /\ "repoHooks" \in atSpawn \ asIf.writes => fate["repoHooks"] # "read_write"

JailInv == JailTypeOK /\ GuidanceFits /\ SourcesHere /\ FatesHold

LEMMA JailInvStarts == JailInit => JailInv
  <1>1. SUFFICES ASSUME JailInit PROVE JailInv
    OBVIOUS
  <1>2. jailCfg \in JailSettings
    <2>1. {} \in ReadEntries /\ {} \in WriteEntries
      BY DEF ReadEntries, WriteEntries
    <2>2. QED
      BY <1>1, <2>1 DEF JailInit, JailSettings
  <1>3. asIf \in JailSettings
    BY <1>1 DEF JailInit, NoSettings, JailSettings, ReadEntries, WriteEntries
  <1>4. JailTypeOK
    BY <1>1, <1>2, <1>3, JailAssumption DEF JailInit, JailTypeOK, NoFate
  <1>5. QED
    BY <1>1, <1>4 DEF JailInit, JailInv, GuidanceFits, SourcesHere, FatesHold

LEMMA NoSettingsFit == NoSettings \in JailSettings
  BY DEF NoSettings, JailSettings, ReadEntries, WriteEntries

LEMMA EditedJail ==
    ASSUME JailInv, NEW f \in {"extra", "writes", "scoped", "brokered"}, NEW value,
           [jailCfg EXCEPT ![f] = value] \in JailSettings, Edited(f, value)
    PROVE  JailInv'
  <1>1. JailTypeOK'
    BY JailAssumption DEF JailInv, JailTypeOK, Edited
  <1>2. GuidanceFits' /\ SourcesHere'
    BY DEF JailInv, GuidanceFits, SourcesHere, Edited
  <1>3. FatesHold'
    BY DEF FatesHold, Edited
  <1>4. QED
    BY <1>1, <1>2, <1>3 DEF JailInv

\* Something more is there, and the turn is where it was.
LEMMA MoreJail ==
    ASSUME JailInv, there \subseteq there', there' \subseteq Comes \union Makes,
           made' \in 0..MaxMade,
           UNCHANGED <<jailCfg, jailEdits, worktree, spawns, jailed, listed, fate, atSpawn, asIf,
                       drift>>
    PROVE  JailInv'
  <1>1. JailTypeOK'
    BY DEF JailInv, JailTypeOK
  <1>2. GuidanceFits'
    BY DEF JailInv, GuidanceFits, MayRead, ThreadDir, CodexHome, RunsOf
  <1>3. SourcesHere'
    BY DEF JailInv, SourcesHere, SourcesOf, ThreadDir, CodexHome, RunsOf
  <1>4. FatesHold'
    BY DEF JailInv, FatesHold, There, ThreadDir, RunsOf
  <1>5. QED
    BY <1>1, <1>2, <1>3, <1>4 DEF JailInv

LEMMA AppearsJail == ASSUME JailInv, NEW p \in Comes, Appears(p) PROVE JailInv'
  <1>1. {"projects", "rollouts"} \subseteq Makes
    BY DEF Makes
  <1>2. there' \subseteq Comes \union Makes /\ there \subseteq there' /\ made' \in 0..MaxMade
    BY <1>1, JailAssumption DEF JailInv, JailTypeOK, Appears
  <1>3. QED
    BY <1>2, MoreJail DEF Appears

LEMMA JailWritesJail ==
    ASSUME JailInv, NEW p \in Comes \union Makes, JailWrites(p) PROVE JailInv'
  <1>1. there' \subseteq Comes \union Makes /\ there \subseteq there' /\ made' \in 0..MaxMade
    BY JailAssumption DEF JailInv, JailTypeOK, JailWrites
  <1>2. QED
    BY <1>1, MoreJail DEF JailWrites

LEMMA GivenUpJail ==
    ASSUME JailInv, GivenUp, spawns' \in 0..MaxSpawns,
           UNCHANGED <<jailCfg, jailEdits, made, there, worktree>>
    PROVE  JailInv'
  <1>1. JailTypeOK'
    BY NoSettingsFit DEF JailInv, JailTypeOK, GivenUp, NoFate
  <1>2. QED
    BY <1>1 DEF JailInv, GivenUp, GuidanceFits, SourcesHere, FatesHold

LEMMA PromptedJail == ASSUME JailInv, Prompted PROVE JailInv'
  <1>1. spawns' \in 0..MaxSpawns
    BY JailAssumption DEF JailInv, JailTypeOK, Prompted
  <1>2. CASE TooBroad(jailCfg)
    BY <1>1, <1>2, GivenUpJail DEF Prompted
  <1>3. CASE ~TooBroad(jailCfg)
    <2>1. jailCfg \in JailSettings /\ there \subseteq Comes \union Makes
      BY DEF JailInv, JailTypeOK
    <2>2. listed' \subseteq ReadOnlyAt(jailCfg) \union WritableAt(jailCfg)
      <3>1. \A m \in Grants(jailCfg) : m.kind \in {"read_only", "read_write"} =>
                m.at \in ReadOnlyAt(jailCfg) \union WritableAt(jailCfg)
        BY <2>1, GrantsAre DEF MountsOf
      <3>2. QED
        BY <1>3, <3>1 DEF Prompted, Readable
    <2>3. ReadOnlyAt(jailCfg) \union WritableAt(jailCfg) \subseteq MayRead(jailCfg)
      BY DEF ReadOnlyAt, WritableAt, MayRead, HooksAreDenied
    <2>4. MayRead(jailCfg) \subseteq Paths
      BY PathsAre DEF MayRead, ThreadDir, CodexHome, RunsOf, Level2, Level3, Level4
    <2>5. JailTypeOK'
      BY <1>1, <1>3, <2>2, <2>3, <2>4 DEF JailInv, JailTypeOK, Prompted
    <2>6. MayRead(jailCfg)' = MayRead(jailCfg)
      BY DEF MayRead, ThreadDir, CodexHome, RunsOf, Prompted
    <2>7. GuidanceFits' /\ SourcesHere' /\ FatesHold'
      BY <1>3, <2>2, <2>3, <2>6 DEF GuidanceFits, SourcesHere, FatesHold, Prompted
    <2>8. QED
      BY <2>5, <2>7 DEF JailInv
  <1>4. QED
    BY <1>2, <1>3

LEMMA SourcedJail ==
    ASSUME JailInv, NEW failed \in {{}} \union {{s} : s \in Makes}, Sourced(failed)
    PROVE  JailInv'
  <1>1. there \subseteq there' /\ there' \subseteq Comes \union Makes
    BY DEF JailInv, JailTypeOK, Sourced, Makes
  <1>2. JailTypeOK'
    BY <1>1 DEF JailInv, JailTypeOK, Sourced
  <1>3. MayRead(jailCfg)' = MayRead(jailCfg) /\ SourcesOf(jailCfg)' = SourcesOf(jailCfg)
    BY DEF MayRead, SourcesOf, ThreadDir, CodexHome, RunsOf, Sourced
  <1>4. GuidanceFits'
    BY <1>3 DEF JailInv, GuidanceFits, Sourced
  <1>5. SourcesHere'
    <2>1. SUFFICES ASSUME drift' = {}
                   PROVE  /\ SourcesOf(jailCfg) \subseteq there' \union Always
                          /\ jailCfg.scoped => {"projects", "rollouts"} \subseteq there'
      BY <1>3 DEF SourcesHere, Sourced
    <2>2. failed = {}
      BY <2>1 DEF Sourced
    <2>3. SourcesOf(jailCfg) \intersect Makes \subseteq there'
          /\ ("mine" \in SourcesOf(jailCfg) => "projects" \in there')
      BY <2>2 DEF Sourced
    <2>4. SourcesOf(jailCfg) \subseteq Makes \union Always
      BY AlwaysAre DEF SourcesOf, ThreadDir, CodexHome, RunsOf, Makes
    <2>5. jailCfg.scoped => {"mine", "rollouts"} \subseteq SourcesOf(jailCfg)
      BY DEF SourcesOf, ThreadDir
    <2>6. QED
      BY <2>3, <2>4, <2>5 DEF Makes
  <1>6. FatesHold'
    BY DEF FatesHold, Sourced
  <1>7. QED
    BY <1>2, <1>4, <1>5, <1>6 DEF JailInv

LEMMA WrappedJail == ASSUME JailInv, Wrapped PROVE JailInv'
  <1>1. CASE TooBroad(jailCfg)
    <2>1. spawns' \in 0..MaxSpawns
      BY DEF JailInv, JailTypeOK, Wrapped
    <2>2. QED
      BY <1>1, <2>1, GivenUpJail DEF Wrapped
  <1>2. CASE ~TooBroad(jailCfg)
    <2> DEFINE cfg == jailCfg
    <2>1. cfg \in JailSettings /\ there \subseteq Comes \union Makes
      BY DEF JailInv, JailTypeOK
    <2>2. /\ jailed = "sourced" /\ jailed' = "running" /\ asIf' = cfg /\ fate' = FateIn(cfg)
          /\ there' = there \union {m.at : m \in {d \in Grants(cfg) : d.kind = "write_denied"}}
          /\ atSpawn' = there'
          /\ UNCHANGED <<listed, drift, jailCfg, jailEdits, made, worktree, spawns>>
      BY <1>2 DEF Wrapped, Placed, FateIn, InForce
    <2>3. there' = there \union DeniedAt(cfg)
      <3>1. {m.at : m \in {d \in Grants(cfg) : d.kind = "write_denied"}} = DeniedAt(cfg)
        <4>1. \A m \in Grants(cfg) : m.kind = "write_denied" => m.at \in DeniedAt(cfg)
          BY <2>1, GrantsAre DEF MountsOf
        <4>2. \A q \in DeniedAt(cfg) : Mount("write_denied", q) \in Grants(cfg)
          BY <2>1, GrantsAre, Zenon DEF MountsOf, Mount
        <4>3. \A q : Mount("write_denied", q).kind = "write_denied"
                      /\ Mount("write_denied", q).at = q
          BY DEF Mount
        <4>4. QED
          BY <4>1, <4>2, <4>3
      <3>2. QED
        BY <2>2, <3>1
    <2>4. DeniedAt(cfg) \subseteq Comes \union Makes
      BY <2>1, MountedAre DEF Comes, Makes
    <2>5. JailTypeOK'
      <3>1. \A p \in Paths : fate'[p] \in Kinds
        <4>1. InForce(cfg) \in SUBSET [kind : Kinds, at : Paths]
          BY <2>1, InForceAre
        <4>2. QED
          BY <2>2, <4>1, FateOf DEF FateIn, Kinds
      <3>2. QED
        BY <2>1, <2>2, <2>3, <2>4, <3>1, RankIs DEF JailInv, JailTypeOK
    <2>6. GuidanceFits' /\ SourcesHere'
      BY <2>2 DEF GuidanceFits, SourcesHere
    <2>7. ThreadDir(asIf)' = ThreadDir(cfg) /\ RunsOf(asIf)' = RunsOf(cfg)
      BY <2>2 DEF ThreadDir, RunsOf
    <2>8. ASSUME drift' = {}
          PROVE  /\ fate'[ThreadDir(cfg)] = "read_write" /\ There(ThreadDir(cfg))'
                 /\ fate'[RunsOf(cfg)] = "read_write"
                 /\ cfg.scoped => fate'["otherLog"] = "opaque" /\ fate'["otherRun"] = "opaque"
                 /\ \A p \in listed' : fate'[p] \in {"read_only", "read_write"}
      <3>1. /\ listed' \subseteq MayRead(cfg) /\ SourcesOf(cfg) \subseteq there \union Always
            /\ cfg.scoped => {"projects", "rollouts"} \subseteq there
        BY <2>2, <2>8 DEF JailInv, GuidanceFits, SourcesHere
      <3>2. There(ThreadDir(cfg)) /\ There(RunsOf(cfg)) /\ There(CodexHome(cfg))
        BY <3>1 DEF SourcesOf, There
      <3>3. /\ fate'[ThreadDir(cfg)] = "read_write" /\ fate'[RunsOf(cfg)] = "read_write"
            /\ fate'[CodexHome(cfg)] = "read_write"
            /\ \A p \in {"workspace", "memory", "tmp", "scratch", "codex"} :
                  fate'[p] = "read_write"
        BY <2>1, <2>2, <3>2, OpenFates, AlwaysAre DEF There
      <3>4. There(ThreadDir(cfg))'
        BY <2>2, <2>3, <3>2 DEF There, ThreadDir
      <3>5. cfg.scoped => fate'["otherLog"] = "opaque" /\ fate'["otherRun"] = "opaque"
        BY <2>1, <2>2, <3>1, HiddenFates
      <3>6. "repoHooks" \in cfg.writes => "repo" \in cfg.writes
        BY <2>1 DEF JailSettings, WriteEntries
      <3>7. ASSUME NEW p \in MayRead(cfg) PROVE fate'[p] \in {"read_only", "read_write"}
        <4>1. CASE p \in {"claude", "repo", "repoGit", "repoHooks"}
          BY <2>1, <2>2, <3>6, <4>1, OpenFates DEF MayRead, ThreadDir, CodexHome, RunsOf
        <4>2. CASE p \notin {"claude", "repo", "repoGit", "repoHooks"}
          BY <3>3, <4>2 DEF MayRead
        <4>3. QED
          BY <4>1, <4>2
      <3>8. QED
        BY <3>1, <3>3, <3>4, <3>5, <3>7
    <2>9. \A p \in atSpawn' : p \in Dotenvs => fate'[p] \in {"masked", "opaque"}
      <3>1. \A p \in atSpawn' : p \in Dotenvs => p \in there
        BY <2>1, <2>2, <2>3, MountedAre DEF Dotenvs
      <3>2. \A p \in there : p \in Dotenvs => p \in {"memoryEnv", "repoEnv", "subEnv"}
        BY <2>1 DEF Dotenvs, Comes, Makes
      <3>3. QED
        BY <2>1, <2>2, <3>1, <3>2, HiddenFates, MasksAre
    <2>10. /\ "history" \in atSpawn' => "history" \in there
           /\ cfg.brokered /\ "auth" \in atSpawn' => "auth" \in there
      BY <2>1, <2>2, <2>3, MountedAre DEF DeniedAt, ProjectDenies
    <2>11. /\ "history" \in there => fate'["history"] = "masked"
           /\ cfg.brokered /\ "auth" \in there => fate'["auth"] = "masked"
      BY <2>1, <2>2, HiddenFates, MasksAre
    <2>12. "repoHooks" \in atSpawn' \ cfg.writes => "repoHooks" \in there \ cfg.writes
      BY <2>2, <2>3 DEF DeniedAt, HooksAreDenied, ProjectDenies
    <2>13. FatesHold'
      <3>1. fate'["workspace"] = "read_write"
        BY <2>1, <2>2, OpenFates, AlwaysAre DEF There
      <3>2. QED
        BY <2>1, <2>2, <2>7, <2>8, <2>9, <2>10, <2>11, <2>12, <3>1, OpenFates, KeptFates,
           HiddenFates DEF FatesHold
    <2>14. QED
      BY <2>5, <2>6, <2>13 DEF JailInv
  <1>3. QED
    BY <1>1, <1>2

LEMMA TurnOverJail == ASSUME JailInv, TurnOver PROVE JailInv'
  <1>1. spawns' \in 0..MaxSpawns
    BY DEF JailInv, JailTypeOK, TurnOver
  <1>2. QED
    BY <1>1, GivenUpJail DEF TurnOver

LEMMA JailInvKept == ASSUME JailInv, [JailNext]_jailVars PROVE JailInv'
  <1>1. jailCfg \in JailSettings
    BY DEF JailInv, JailTypeOK
  <1>2. ASSUME NEW es \in ReadEntries, Edited("extra", es) PROVE JailInv'
    BY <1>1, <1>2, EditedJail DEF JailSettings
  <1>3. ASSUME NEW es \in WriteEntries, Edited("writes", es) PROVE JailInv'
    BY <1>1, <1>3, EditedJail DEF JailSettings
  <1>4. ASSUME NEW f \in {"scoped", "brokered"}, Edited(f, ~jailCfg[f]) PROVE JailInv'
    <2>1. (~jailCfg[f]) \in BOOLEAN
      OBVIOUS
    <2>2. [jailCfg EXCEPT ![f] = ~jailCfg[f]] \in JailSettings
      BY <1>1, <1>4, <2>1 DEF JailSettings
    <2>3. QED
      BY <1>4, <2>2, EditedJail
  <1>5. CASE UNCHANGED jailVars
    <2>1. made' \in 0..MaxMade /\ there' \subseteq Comes \union Makes
      BY <1>5 DEF JailInv, JailTypeOK, jailVars
    <2>2. QED
      BY <1>5, <2>1, MoreJail DEF jailVars
  <1>6. QED
    BY <1>2, <1>3, <1>4, <1>5, AppearsJail, PromptedJail, SourcedJail, WrappedJail,
       JailWritesJail, TurnOverJail DEF JailNext

LEMMA JailInvKeeps == JailInv => JailKeeps
  <1>1. SUFFICES ASSUME JailInv PROVE JailKeeps
    OBVIOUS
  <1>2. OwnSessionIsWritable /\ OthersAreHidden /\ SecretsAreHidden
    BY <1>1 DEF JailInv, FatesHold, OwnSessionIsWritable, OthersAreHidden, SecretsAreHidden,
       InJail, Writable, Shows
  <1>3. InstructionsHold
    BY <1>1 DEF JailInv, FatesHold, InstructionsHold, ProjectDenies, InJail, Writable
  <1>4. GuidanceIsTrue /\ MountsCanBeMade
    BY <1>1 DEF JailInv, FatesHold, GuidanceIsTrue, MountsCanBeMade, InJail, Shows
  <1>5. QED
    BY <1>2, <1>3, <1>4 DEF JailKeeps

\* A jailed turn reads and writes what it should, and neither a secret nor what a later run
\* obeys (sandbox.py, sandbox_linux.py).
THEOREM JailIsKept == JailSpec => []JailKeeps
  <1>1. JailInit => JailInv
    BY JailInvStarts
  <1>2. JailInv /\ [JailNext]_jailVars => JailInv'
    BY JailInvKept
  <1>3. JailInv => JailKeeps
    BY JailInvKeeps
  <1>4. QED
    BY <1>1, <1>2, <1>3, PTL DEF JailSpec

-----------------------------------------------------------------------------
(* Compaction.  The invariant is about one chat at a time: a step of        *)
(* another chat leaves it still, and the idle loop, which takes several     *)
(* chats at once, does the same to each.                                    *)

Turns == {Visible, Quiet} \union {ChatMessage(n) : n \in Nat}

Shape ==
    /\ line \in [Rooms -> Seq(Turns)] /\ ran \in [Rooms -> Seq(Nat)]
    /\ drainAt \in [Rooms -> {"none", "created", "running"}]
    /\ atWork \in [Rooms -> Turns \union {Rest}]
    /\ context \in [Rooms -> {"none", "small", "large"}]
    /\ idleSince \in [Rooms -> Nat] /\ clockHour \in Nat
    /\ held \in [Rooms -> Nat] /\ sentCount \in [Rooms -> Nat]
    /\ large \in [Rooms -> Nat] /\ bought \in [Rooms -> Nat]
    /\ quiet \subseteq Rooms /\ overtaken \subseteq Rooms /\ dropped \subseteq Rooms
    /\ down \in BOOLEAN

\* A turn runs in a task, and a task is there for whatever waits.
Served(c) == (atWork[c] # Rest => drainAt[c] = "running") /\ (line[c] # <<>> => Busy(c))

\* A large reading that nobody has acted on is paid for already.
Paid(c) == bought[c] <= large[c] /\ (context[c] = "large" => bought[c] < large[c])

\* A chat that is compacted quietly is known to be, and nothing went before it.
QuietFirst(c) ==
    /\ atWork[c] = Quiet => c \in quiet
    /\ \A i \in 1..Len(line[c]) : line[c][i] = Quiet => i = 1 /\ atWork[c] = Rest /\ c \in quiet
\* A chat known to be compacted is, unless a stop dropped the compaction.
QuietIs(c) ==
    c \in quiet /\ c \notin dropped =>
        atWork[c] = Quiet \/ (atWork[c] = Rest /\ line[c] # <<>> /\ line[c][1] = Quiet)

\* What ran and what waits came in this order, and before the message numbered b.
Rising(r) == \A i, j \in 1..Len(r) : i < j => r[i] < r[j]
Ordered(r, s, b) ==
    /\ \A i \in 1..Len(r) : r[i] < b
    /\ \A j \in 1..Len(s) : IsMessage(s[j]) =>
         /\ s[j][2] < b
         /\ \A i \in 1..Len(r) : r[i] < s[j][2]
         /\ \A i \in 1..Len(s) : i < j /\ IsMessage(s[i]) => s[i][2] < s[j][2]
\* The message that is held, or the next one, comes after all of them.
Coming(c) == IF held[c] = 0 THEN sentCount[c] + 1 ELSE held[c]
InOrder(c) ==
    c \notin overtaken =>
        /\ held[c] # 0 => held[c] = sentCount[c]
        /\ Rising(ran[c]) /\ Ordered(ran[c], line[c], Coming(c))

ChatInv(c) == Served(c) /\ Paid(c) /\ QuietFirst(c) /\ QuietIs(c) /\ InOrder(c)

\* The chats compacted quietly, as QuietWithinTheCap counts them.
Quietly ==
    {c \in Rooms : atWork[c] = Quiet \/ Quiet \in {line[c][i] : i \in 1..Len(line[c])}}

\* What the types of the module bound.
CompactBounds ==
    /\ \A c \in Rooms : idleSince[c] <= NotIdle /\ sentCount[c] <= MaxWritten
    /\ clockHour <= MaxHour /\ noteTold \subseteq Rooms

CompactInv ==
    /\ Shape /\ CompactBounds /\ \A c \in Rooms : ChatInv(c)
    /\ Cardinality(Quietly) <= MaxQuiet /\ WorkInHandIsTold

-----------------------------------------------------------------------------
(* Turns and queues.                                                       *)

LEMMA TurnFacts ==
  /\ Visible \in Turns /\ Quiet \in Turns /\ Visible # Quiet /\ Rest \notin Turns
  /\ ~IsMessage(Visible) /\ ~IsMessage(Quiet) /\ ~IsMessage(Rest)
  /\ \A n \in Nat : ChatMessage(n) \in Turns /\ IsMessage(ChatMessage(n))
                    /\ ChatMessage(n)[2] = n /\ ChatMessage(n) # Quiet
  /\ \A t \in Turns : IsMessage(t) => t[2] \in Nat /\ t # Quiet
  BY DEF Turns, Visible, Quiet, Rest, ChatMessage, IsMessage

LEMMA OneMore ==
  ASSUME NEW s \in Seq(Turns), NEW x \in Turns
  PROVE  /\ <<x>> \in Seq(Turns) /\ s \o <<x>> = Append(s, x)
         /\ Append(s, x) \in Seq(Turns) /\ Append(s, x) # <<>>
         /\ Len(Append(s, x)) = Len(s) + 1
         /\ \A i \in 1..Len(s) : Append(s, x)[i] = s[i]
         /\ Append(s, x)[Len(s) + 1] = x
  OBVIOUS

LEMMA Parted ==
  ASSUME NEW s \in Seq(Turns), s # <<>>
  PROVE  /\ Head(s) \in Turns /\ Head(s) = s[1] /\ 1 \in 1..Len(s)
         /\ Tail(s) \in Seq(Turns) /\ Len(Tail(s)) = Len(s) - 1
         /\ \A i \in 1..Len(Tail(s)) : Tail(s)[i] = s[i + 1] /\ i + 1 \in 1..Len(s)
  OBVIOUS

LEMMA OrderEmpty ==
  ASSUME NEW r \in Seq(Nat), NEW s \in Seq(Turns), NEW b \in Nat, Ordered(r, s, b)
  PROVE  Ordered(r, <<>>, b) /\ Ordered(r, <<Quiet>>, b)
  <1>1. Ordered(r, <<>>, b)
    BY DEF Ordered
  <1>2. Len(<<Quiet>>) = 1 /\ <<Quiet>>[1] = Quiet /\ ~IsMessage(Quiet)
    BY TurnFacts
  <1>3. Ordered(r, <<Quiet>>, b)
    BY <1>2 DEF Ordered
  <1>4. QED
    BY <1>1, <1>3

LEMMA OrderWider ==
  ASSUME NEW r \in Seq(Nat), NEW s \in Seq(Turns), NEW b \in Nat, Ordered(r, s, b),
         NEW d \in Nat, b <= d
  PROVE  Ordered(r, s, d)
  <1>1. \A j \in 1..Len(s) : IsMessage(s[j]) => s[j][2] \in Nat
    BY TurnFacts
  <1>2. QED
    BY <1>1 DEF Ordered

\* A compaction changes no order, and a message that came after all the others goes last.
LEMMA OrderGrows ==
  ASSUME NEW r \in Seq(Nat), NEW s \in Seq(Turns), NEW b \in Nat, Ordered(r, s, b)
  PROVE  /\ \A x \in Turns : ~IsMessage(x) => Ordered(r, Append(s, x), b)
         /\ Ordered(r, Append(s, ChatMessage(b)), b + 1)
  <1>1. \A j \in 1..Len(s) : IsMessage(s[j]) => s[j][2] \in Nat
    BY TurnFacts
  <1>2. ASSUME NEW x \in Turns, ~IsMessage(x) PROVE Ordered(r, Append(s, x), b)
    <2>1. \A i \in 1..Len(Append(s, x)) :
            IsMessage(Append(s, x)[i]) => i \in 1..Len(s) /\ Append(s, x)[i] = s[i]
      BY <1>2, OneMore
    <2>2. QED
      BY <2>1 DEF Ordered
  <1>3. Ordered(r, Append(s, ChatMessage(b)), b + 1)
    <2> DEFINE x == ChatMessage(b)
               t == Append(s, x)
    <2>1. x \in Turns /\ IsMessage(x) /\ x[2] = b
      BY TurnFacts
    <2>2. /\ Len(t) = Len(s) + 1 /\ t[Len(s) + 1] = x
          /\ \A i \in 1..Len(s) : t[i] = s[i]
      BY <2>1, OneMore
    <2> HIDE DEF x, t
    <2>3. \A i \in 1..Len(r) : r[i] < b /\ r[i] \in Nat /\ r[i] < b + 1
      BY DEF Ordered
    <2>4. ASSUME NEW j \in 1..Len(t), IsMessage(t[j])
          PROVE  /\ t[j][2] < b + 1
                 /\ \A i \in 1..Len(r) : r[i] < t[j][2]
                 /\ \A i \in 1..Len(t) : i < j /\ IsMessage(t[i]) => t[i][2] < t[j][2]
      <3>1. CASE j \in 1..Len(s)
        <4>1. t[j] = s[j] /\ \A i \in 1..Len(t) : i < j => i \in 1..Len(s) /\ t[i] = s[i]
          BY <2>2, <3>1
        <4>2. /\ s[j][2] < b /\ s[j][2] \in Nat
              /\ \A i \in 1..Len(r) : r[i] < s[j][2]
              /\ \A i \in 1..Len(s) : i < j /\ IsMessage(s[i]) => s[i][2] < s[j][2]
          BY <1>1, <2>4, <3>1, <4>1 DEF Ordered
        <4>3. ASSUME NEW i \in 1..Len(t), i < j, IsMessage(t[i]) PROVE t[i][2] < t[j][2]
          BY <4>1, <4>2, <4>3
        <4>4. t[j][2] < b + 1
          BY <4>1, <4>2
        <4>5. QED
          BY <4>1, <4>2, <4>3, <4>4
      <3>2. CASE j = Len(s) + 1
        <4>1. \A i \in 1..Len(t) : i < j => i \in 1..Len(s) /\ t[i] = s[i]
          BY <2>2, <3>2
        <4>2. \A i \in 1..Len(s) : IsMessage(s[i]) => s[i][2] < b
          BY DEF Ordered
        <4>3. t[j][2] = b
          BY <2>1, <2>2, <3>2
        <4>4. t[j][2] < b + 1 /\ \A i \in 1..Len(r) : r[i] < t[j][2]
          BY <2>3, <4>3
        <4>5. \A i \in 1..Len(t) : i < j /\ IsMessage(t[i]) => t[i][2] < t[j][2]
          BY <4>1, <4>2, <4>3
        <4>6. QED
          BY <4>4, <4>5
      <3>3. QED
        BY <2>2, <3>1, <3>2
    <2>5. QED
      BY <2>3, <2>4 DEF Ordered, t, x
  <1>4. QED
    BY <1>2, <1>3

\* What is at the head of the queue runs next.
LEMMA OrderRuns ==
  ASSUME NEW r \in Seq(Nat), NEW s \in Seq(Turns), NEW b \in Nat, s # <<>>,
         Rising(r), Ordered(r, s, b)
  PROVE  /\ ~IsMessage(Head(s)) => Ordered(r, Tail(s), b)
         /\ IsMessage(Head(s)) =>
              Rising(Append(r, Head(s)[2])) /\ Ordered(Append(r, Head(s)[2]), Tail(s), b)
  <1> DEFINE t == Tail(s)
  <1>1. /\ Head(s) = s[1] /\ 1 \in 1..Len(s) /\ Len(t) = Len(s) - 1 /\ s[1] \in Turns
        /\ \A i \in 1..Len(t) : t[i] = s[i + 1] /\ i + 1 \in 1..Len(s)
    BY Parted
  <1> HIDE DEF t
  <1>2. Ordered(r, t, b)
    <2>1. \A i \in 1..Len(r) : r[i] < b
      BY DEF Ordered
    <2>2. ASSUME NEW j \in 1..Len(t), IsMessage(t[j])
          PROVE  /\ t[j][2] < b
                 /\ \A i \in 1..Len(r) : r[i] < t[j][2]
                 /\ \A i \in 1..Len(t) : i < j /\ IsMessage(t[i]) => t[i][2] < t[j][2]
      <3>1. t[j] = s[j + 1] /\ j + 1 \in 1..Len(s)
        BY <1>1
      <3>2. /\ t[j][2] < b
            /\ \A i \in 1..Len(r) : r[i] < t[j][2]
            /\ \A i \in 1..Len(s) : i < j + 1 /\ IsMessage(s[i]) => s[i][2] < t[j][2]
        BY <2>2, <3>1 DEF Ordered
      <3>3. ASSUME NEW i \in 1..Len(t), i < j, IsMessage(t[i]) PROVE t[i][2] < t[j][2]
        <4>1. t[i] = s[i + 1] /\ i + 1 \in 1..Len(s) /\ i + 1 < j + 1
          BY <1>1, <3>3
        <4>2. QED
          BY <3>2, <3>3, <4>1
      <3>4. QED
        BY <3>2, <3>3
    <2>3. QED
      BY <2>1, <2>2 DEF Ordered
  <1>3. ASSUME IsMessage(s[1])
        PROVE  Rising(Append(r, s[1][2])) /\ Ordered(Append(r, s[1][2]), t, b)
    <2> DEFINE m == s[1][2]
               q == Append(r, m)
    <2>1. m \in Nat /\ m < b /\ \A i \in 1..Len(r) : r[i] < m
      BY <1>1, <1>3, TurnFacts DEF Ordered
    <2>2. /\ Len(q) = Len(r) + 1 /\ q[Len(r) + 1] = m
          /\ \A i \in 1..Len(r) : q[i] = r[i]
      BY <2>1
    <2>3. \A j \in 1..Len(t) : IsMessage(t[j]) => m < t[j][2]
      <3>1. \A j \in 1..Len(s) : 1 < j /\ IsMessage(s[j]) => m < s[j][2]
        BY <1>1, <1>3 DEF Ordered
      <3>2. ASSUME NEW j \in 1..Len(t), IsMessage(t[j]) PROVE m < t[j][2]
        <4>1. t[j] = s[j + 1] /\ j + 1 \in 1..Len(s) /\ 1 < j + 1
          BY <1>1
        <4>2. QED
          BY <3>1, <3>2, <4>1
      <3>3. QED
        BY <3>2
    <2> HIDE DEF m, q
    <2>4. \A i \in 1..Len(q) : i \in 1..Len(r) \/ i = Len(r) + 1
      BY <2>2
    <2>5. Rising(q)
      <3>1. ASSUME NEW i \in 1..Len(q), NEW j \in 1..Len(q), i < j PROVE q[i] < q[j]
        <4>1. i \in 1..Len(r) /\ q[i] = r[i]
          BY <2>2, <2>4, <3>1
        <4>2. QED
          BY <2>1, <2>2, <2>4, <3>1, <4>1 DEF Rising
      <3>2. QED
        BY <3>1 DEF Rising
    <2>6. Ordered(q, t, b)
      BY <1>2, <2>1, <2>2, <2>3, <2>4 DEF Ordered
    <2>7. QED
      BY <2>5, <2>6 DEF q, m
  <1>4. QED
    BY <1>1, <1>2, <1>3 DEF t

\* Every other chat is left as it is.
Still(d) ==
    /\ line'[d] = line[d] /\ ran'[d] = ran[d] /\ drainAt'[d] = drainAt[d]
    /\ atWork'[d] = atWork[d] /\ context'[d] = context[d] /\ held'[d] = held[d]
    /\ sentCount'[d] = sentCount[d] /\ large'[d] = large[d] /\ bought'[d] = bought[d]
    /\ d \in quiet' <=> d \in quiet
    /\ d \in overtaken' <=> d \in overtaken
    /\ d \in dropped' <=> d \in dropped

LEMMA StillKeeps == ASSUME NEW d, ChatInv(d), Still(d) PROVE ChatInv(d)'
  BY DEF Still, ChatInv, Served, Busy, Paid, QuietFirst, QuietIs, InOrder, Coming

OthersStill(c) == \A d \in Rooms : d # c => Still(d)

LEMMA ActsOnOne ==
  ASSUME Shape, NEW c \in Rooms,
         \/ Write(c) \/ WriteDue(c) \/ HeldGoesOn(c) \/ Begin(c) \/ EndsUnmeasured(c)
         \/ AbortChat(c) \/ \E size \in {"small", "large"} : CompactAnswered(c, size)
  PROVE  OthersStill(c)
  <1>1. CASE Write(c)
    BY <1>1 DEF Shape, Write, Enqueued, OthersStill, Still
  <1>2. CASE WriteDue(c)
    BY <1>2 DEF Shape, WriteDue, Enqueued, OthersStill, Still
  <1>3. CASE HeldGoesOn(c)
    BY <1>3 DEF Shape, HeldGoesOn, Enqueued, OthersStill, Still
  <1>4. CASE Begin(c)
    BY <1>4 DEF Shape, Begin, OthersStill, Still
  <1>5. CASE EndsUnmeasured(c)
    BY <1>5 DEF Shape, EndsUnmeasured, Over, OthersStill, Still
  <1>6. CASE AbortChat(c)
    BY <1>6 DEF Shape, AbortChat, OthersStill, Still
  <1>7. CASE \E size \in {"small", "large"} : CompactAnswered(c, size)
    BY <1>7 DEF Shape, CompactAnswered, Over, OthersStill, Still
  <1>8. QED
    BY <1>1, <1>2, <1>3, <1>4, <1>5, <1>6, <1>7

\* What _enqueue does to the queue of its chat.
LEMMA EnqueuedAdds ==
  ASSUME Shape, NEW c \in Rooms, NEW turns \in Seq(Turns), Enqueued(c, turns)
  PROVE  /\ line'[c] = line[c] \o turns /\ line[c] \in Seq(Turns)
         /\ drainAt'[c] = IF drainAt[c] = "none" THEN "created" ELSE drainAt[c]
         /\ line' \in [Rooms -> Seq(Turns)]
         /\ drainAt' \in [Rooms -> {"none", "created", "running"}]
  <1>1. line[c] \in Seq(Turns) /\ line'[c] = line[c] \o turns
    BY DEF Shape, Enqueued
  <1>2. line[c] \o turns \in Seq(Turns)
    BY <1>1
  <1>3. QED
    BY <1>1, <1>2 DEF Shape, Enqueued

LEMMA CompactShape == Shape /\ [CompactNext]_compactVars => Shape'
  <1> SUFFICES ASSUME Shape, [CompactNext]_compactVars PROVE Shape'
    OBVIOUS
  <1> USE CompactAssumption
  <1>1. ASSUME NEW c \in Rooms, Write(c) PROVE Shape'
    <2>1. <<ChatMessage(sentCount[c] + 1)>> \in Seq(Turns)
      BY TurnFacts DEF Shape
    <2>2. line' \in [Rooms -> Seq(Turns)] /\ drainAt' \in [Rooms -> {"none", "created", "running"}]
      BY <1>1, <2>1, EnqueuedAdds DEF Write
    <2>3. sentCount' \in [Rooms -> Nat] /\ overtaken' \subseteq Rooms
      BY <1>1 DEF Shape, Write
    <2>4. QED
      BY <1>1, <2>2, <2>3 DEF Shape, Write
  <1>2. ASSUME NEW c \in Rooms, WriteDue(c) PROVE Shape'
    <2>1. /\ <<Visible>> \in Seq(Turns)
          /\ <<Visible, ChatMessage(sentCount[c] + 1)>> \in Seq(Turns)
      BY TurnFacts DEF Shape
    <2>2. /\ line' \in [Rooms -> Seq(Turns)]
          /\ drainAt' \in [Rooms -> {"none", "created", "running"}]
      BY <1>2, <2>1, EnqueuedAdds DEF WriteDue
    <2>3. /\ sentCount' = [sentCount EXCEPT ![c] = @ + 1]
          /\ context' = [context EXCEPT ![c] = "none"]
          /\ bought' = [bought EXCEPT ![c] = @ + 1]
          /\ held' \in {held, [held EXCEPT ![c] = sentCount[c] + 1]}
      BY <1>2 DEF WriteDue
    <2>4. sentCount' \in [Rooms -> Nat] /\ held' \in [Rooms -> Nat]
      <3>1. sentCount[c] + 1 \in Nat /\ held \in [Rooms -> Nat] /\ sentCount \in [Rooms -> Nat]
        BY DEF Shape
      <3>2. QED
        BY <2>3, <3>1
    <2>5. bought' \in [Rooms -> Nat] /\ context' \in [Rooms -> {"none", "small", "large"}]
      BY <2>3 DEF Shape
    <2>6. QED
      BY <1>2, <2>2, <2>4, <2>5 DEF Shape, WriteDue
  <1>3. ASSUME NEW c \in Rooms, HeldGoesOn(c) PROVE Shape'
    <2>1. <<ChatMessage(held[c])>> \in Seq(Turns)
      BY TurnFacts DEF Shape
    <2>2. line' \in [Rooms -> Seq(Turns)] /\ drainAt' \in [Rooms -> {"none", "created", "running"}]
      BY <1>3, <2>1, EnqueuedAdds DEF HeldGoesOn
    <2>3. held' \in [Rooms -> Nat] /\ overtaken' \subseteq Rooms
      BY <1>3 DEF HeldGoesOn, Shape
    <2>4. QED
      BY <1>3, <2>2, <2>3 DEF Shape, HeldGoesOn
  <1>4. ASSUME NEW c \in Rooms, Begin(c) PROVE Shape'
    <2>1. line[c] \in Seq(Turns) /\ line[c] # <<>> /\ ran[c] \in Seq(Nat)
      BY <1>4 DEF Begin, Shape
    <2>2. Head(line[c]) \in Turns /\ Tail(line[c]) \in Seq(Turns)
      BY <2>1
    <2>3. IsMessage(Head(line[c])) => Append(ran[c], Head(line[c])[2]) \in Seq(Nat)
      BY <2>1, <2>2, TurnFacts
    <2>4. ran' \in [Rooms -> Seq(Nat)] /\ line' \in [Rooms -> Seq(Turns)]
      BY <1>4, <2>2, <2>3 DEF Begin, Shape
    <2>5. /\ drainAt' \in [Rooms -> {"none", "created", "running"}]
          /\ atWork' \in [Rooms -> Turns \union {Rest}] /\ idleSince' \in [Rooms -> Nat]
          /\ context' \in [Rooms -> {"none", "small", "large"}]
      <3>1. NotIdle \in Nat
        BY DEF NotIdle
      <3>2. drainAt' \in [Rooms -> {"none", "created", "running"}]
        BY <1>4 DEF Begin, Shape
      <3>3. atWork' \in [Rooms -> Turns \union {Rest}]
        BY <1>4, <2>2 DEF Begin, Shape
      <3>4. idleSince' \in [Rooms -> Nat] /\ context' \in [Rooms -> {"none", "small", "large"}]
        BY <1>4, <3>1 DEF Begin, Shape
      <3>5. QED
        BY <3>2, <3>3, <3>4
    <2>6. QED
      BY <1>4, <2>4, <2>5 DEF Begin, Shape
  <1>5. ASSUME NEW c \in Rooms, EndsUnmeasured(c) PROVE Shape'
    BY <1>5 DEF Shape, EndsUnmeasured, Over
  <1>6. ASSUME NEW c \in Rooms, AbortChat(c) PROVE Shape'
    <2>1. /\ atWork' \in [Rooms -> Turns \union {Rest}] /\ idleSince' \in [Rooms -> Nat]
          /\ context' \in [Rooms -> {"none", "small", "large"}]
          /\ drainAt' \in [Rooms -> {"none", "created", "running"}]
          /\ line' \in [Rooms -> Seq(Turns)]
      BY <1>6 DEF Shape, AbortChat
    <2>2. QED
      BY <1>6, <2>1 DEF Shape, AbortChat
  <1>7. ASSUME NEW c \in Rooms, NEW size \in {"small", "large"}, CompactAnswered(c, size)
        PROVE  Shape'
    <2>1. /\ atWork' \in [Rooms -> Turns \union {Rest}]
          /\ drainAt' \in [Rooms -> {"none", "created", "running"}]
      BY <1>7 DEF Shape, CompactAnswered, Over
    <2>2. /\ context' \in [Rooms -> {"none", "small", "large"}]
          /\ idleSince' \in [Rooms -> Nat] /\ large' \in [Rooms -> Nat]
      BY <1>7 DEF Shape, CompactAnswered
    <2>3. QED
      BY <1>7, <2>1, <2>2 DEF Shape, CompactAnswered, Over
  <1>8. CASE QuietHourPasses
    BY <1>8 DEF Shape, QuietHourPasses
  <1>9. ASSUME NEW chats \in SUBSET Rooms, CompactIdle(chats) PROVE Shape'
    <2>1. <<Quiet>> \in Seq(Turns)
      BY TurnFacts
    <2>2. /\ line' \in [Rooms -> Seq(Turns)]
          /\ drainAt' \in [Rooms -> {"none", "created", "running"}]
      BY <1>9, <2>1 DEF Shape, CompactIdle
    <2>3. /\ context' \in [Rooms -> {"none", "small", "large"}]
          /\ bought' \in [Rooms -> Nat] /\ quiet' \subseteq Rooms
      <3>1. context' \in [Rooms -> {"none", "small", "large"}] /\ bought' \in [Rooms -> Nat]
        BY <1>9 DEF Shape, CompactIdle
      <3>2. quiet' \subseteq Rooms
        BY <1>9 DEF Shape, CompactIdle, StillQuiet
      <3>3. QED
        BY <3>1, <3>2
    <2>4. idleSince' \in [Rooms -> Nat]
      BY <1>9 DEF Shape, CompactIdle, NotIdle
    <2>5. QED
      BY <1>9, <2>2, <2>3, <2>4 DEF Shape, CompactIdle
  <1>10. CASE Shutdown
    BY <1>10 DEF Shape, Shutdown
  <1>11. CASE UNCHANGED compactVars
    BY <1>11 DEF Shape, compactVars
  <1>12. QED
    BY <1>1, <1>2, <1>3, <1>4, <1>5, <1>6, <1>7, <1>8, <1>9, <1>10, <1>11 DEF CompactNext, Acts

LEMMA NoMoreThanWritten ==
  ASSUME Shape, AnotherMessage, NEW c \in Rooms PROVE sentCount[c] < MaxWritten
  <1> DEFINE all == {m \in Rooms \X (1..MaxWritten) : m[2] <= sentCount[m[1]]}
             its == {<<c, n>> : n \in 1..MaxWritten}
  <1>1. IsFiniteSet(Rooms \X (1..MaxWritten)) /\ IsFiniteSet(all)
    <2>1. IsFiniteSet(1..MaxWritten)
      BY CompactAssumption, FS_Interval
    <2>2. IsFiniteSet(Rooms \X (1..MaxWritten))
      BY <2>1, CompactAssumption, FS_Product
    <2>3. QED
      BY <2>2, FS_Subset
  <1>2. SUFFICES ASSUME sentCount[c] >= MaxWritten PROVE FALSE
    BY CompactAssumption DEF Shape
  <1>3. its \subseteq all
    <2>1. \A n \in 1..MaxWritten : n <= sentCount[c]
      BY <1>2, CompactAssumption DEF Shape
    <2>2. QED
      BY <2>1
  <1>4. IsFiniteSet(its) /\ Cardinality(its) = MaxWritten
    <2> DEFINE num == [n \in 1..MaxWritten |-> <<c, n>>]
    <2>1. num \in Bijection(1..MaxWritten, its)
      BY Fun_IsBij
    <2>2. ExistsBijection(1..MaxWritten, its)
      BY <2>1 DEF ExistsBijection
    <2>3. Cardinality(its) = MaxWritten
      BY <2>2, CompactAssumption, FS_CountingElements
    <2>4. QED
      BY <1>1, <1>3, <2>3, FS_Subset
  <1>5. Cardinality(its) <= Cardinality(all)
    BY <1>1, <1>3, FS_Subset
  <1>6. QED
    <2>1. Cardinality(all) \in Nat
      BY <1>1, FS_CardinalityType
    <2>2. Cardinality(all) < MaxWritten
      BY DEF AnotherMessage
    <2>3. QED
      BY <1>4, <1>5, <2>1, <2>2, CompactAssumption

LEMMA BoundsKept ==
  ASSUME Shape, CompactBounds, [CompactNext]_compactVars PROVE CompactBounds'
  <1> USE CompactAssumption
  <1>1. ASSUME NEW c \in Rooms, Write(c) \/ WriteDue(c) PROVE CompactBounds'
    <2>1. sentCount[c] < MaxWritten /\ sentCount' = [sentCount EXCEPT ![c] = @ + 1]
      BY <1>1, NoMoreThanWritten DEF Write, WriteDue
    <2>2. UNCHANGED <<idleSince, clockHour, noteTold>>
      BY <1>1 DEF Write, WriteDue
    <2>3. \A d \in Rooms : sentCount'[d] <= MaxWritten
      BY <2>1 DEF Shape, CompactBounds
    <2>4. QED
      BY <2>2, <2>3 DEF CompactBounds, NotIdle
  <1>2. ASSUME NEW c \in Rooms, HeldGoesOn(c) \/ EndsUnmeasured(c) \/ AbortChat(c)
        PROVE  CompactBounds'
    BY <1>2 DEF CompactBounds, NotIdle, HeldGoesOn, EndsUnmeasured, AbortChat
  <1>3. ASSUME NEW c \in Rooms, Begin(c) PROVE CompactBounds'
    <2>1. /\ idleSince' = [idleSince EXCEPT ![c] = NotIdle] /\ NotIdle \in Nat
          /\ UNCHANGED <<sentCount, clockHour, noteTold>>
      BY <1>3 DEF Begin, NotIdle
    <2>2. \A d \in Rooms : idleSince'[d] = NotIdle \/ idleSince'[d] = idleSince[d]
      BY <2>1 DEF Shape
    <2>3. \A d \in Rooms : idleSince'[d] <= NotIdle
      BY <2>1, <2>2 DEF CompactBounds
    <2>4. QED
      BY <2>1, <2>3 DEF CompactBounds, NotIdle
  <1>4. ASSUME NEW c \in Rooms, NEW size \in {"small", "large"}, CompactAnswered(c, size)
        PROVE  CompactBounds'
    <2>1. /\ idleSince' = [idleSince EXCEPT ![c] = clockHour]
          /\ UNCHANGED <<sentCount, clockHour, noteTold>>
      BY <1>4 DEF CompactAnswered
    <2>2. \A d \in Rooms : idleSince'[d] = clockHour \/ idleSince'[d] = idleSince[d]
      BY <2>1 DEF Shape
    <2>3. clockHour <= NotIdle
      BY DEF CompactBounds, NotIdle, Shape
    <2>4. \A d \in Rooms : idleSince'[d] <= NotIdle
      BY <2>2, <2>3 DEF CompactBounds
    <2>5. QED
      BY <2>1, <2>4 DEF CompactBounds, NotIdle
  <1>5. CASE QuietHourPasses
    BY <1>5 DEF CompactBounds, NotIdle, QuietHourPasses, Shape
  <1>6. ASSUME NEW chats \in SUBSET Rooms, CompactIdle(chats) PROVE CompactBounds'
    BY <1>6 DEF CompactBounds, NotIdle, CompactIdle, Shape
  <1>7. CASE Shutdown
    BY <1>7 DEF CompactBounds, NotIdle, Shutdown
  <1>8. CASE UNCHANGED compactVars
    BY <1>8 DEF CompactBounds, NotIdle, compactVars
  <1>9. QED
    BY <1>1, <1>2, <1>3, <1>4, <1>5, <1>6, <1>7, <1>8 DEF CompactNext, Acts

-----------------------------------------------------------------------------
(* The invariant of one chat, kept by the steps of that chat.              *)

\* A turn joins the end of the queue.
LEMMA GrowsKeeps ==
  ASSUME Shape, Shape', NEW c \in Rooms, ChatInv(c), NEW x \in Turns, x # Quiet,
         line'[c] = Append(line[c], x), drainAt'[c] # "none",
         drainAt[c] # "none" => drainAt'[c] = drainAt[c],
         atWork' = atWork, quiet' = quiet, dropped' = dropped
  PROVE  Served(c)' /\ QuietFirst(c)' /\ QuietIs(c)'
  <1>1. line[c] \in Seq(Turns) /\ Len(line[c]) \in Nat
    BY DEF Shape
  <1>2. /\ line'[c] # <<>> /\ Len(line'[c]) = Len(line[c]) + 1
        /\ \A i \in 1..Len(line[c]) : line'[c][i] = line[c][i]
        /\ line'[c][Len(line[c]) + 1] = x
    BY <1>1, OneMore
  <1>3. Served(c)'
    BY <1>2 DEF ChatInv, Served, Busy
  <1>4. QuietFirst(c)'
    BY <1>1, <1>2 DEF ChatInv, QuietFirst
  <1>5. line[c] # <<>> => line'[c][1] = line[c][1]
    BY <1>1, <1>2
  <1>6. QED
    BY <1>2, <1>3, <1>4, <1>5 DEF ChatInv, QuietIs

LEMMA WriteKeeps ==
  ASSUME Shape, Shape', NEW c \in Rooms, ChatInv(c), Write(c) PROVE ChatInv(c)'
  <1> DEFINE n == sentCount[c] + 1
             x == ChatMessage(n)
  <1>1. /\ line[c] \in Seq(Turns) /\ held[c] \in Nat /\ sentCount[c] \in Nat
        /\ ran[c] \in Seq(Nat) /\ n \in Nat
    BY DEF Shape
  <1>2. x \in Turns /\ x # Quiet /\ <<x>> \in Seq(Turns)
    BY <1>1, TurnFacts
  <1>3. /\ line'[c] = Append(line[c], x) /\ drainAt'[c] # "none"
        /\ drainAt[c] # "none" => drainAt'[c] = drainAt[c]
    <2>1. Enqueued(c, <<x>>)
      BY DEF Write
    <2>2. line'[c] = line[c] \o <<x>>
          /\ drainAt'[c] = IF drainAt[c] = "none" THEN "created" ELSE drainAt[c]
      BY <1>2, <2>1, EnqueuedAdds
    <2>3. QED
      BY <1>1, <1>2, <2>2, OneMore
  <1>4. /\ sentCount'[c] = n /\ held' = held /\ ran' = ran /\ atWork' = atWork
        /\ context' = context /\ bought' = bought /\ large' = large
        /\ quiet' = quiet /\ dropped' = dropped
        /\ c \notin overtaken' => held[c] = 0 /\ c \notin overtaken
    BY DEF Write, Shape
  <1> HIDE DEF x
  <1>5. Served(c)' /\ QuietFirst(c)' /\ QuietIs(c)'
    BY <1>2, <1>3, <1>4, GrowsKeeps
  <1>6. Paid(c)'
    BY <1>4 DEF ChatInv, Paid
  <1>7. ASSUME c \notin overtaken' PROVE InOrder(c)'
    <2>1. Rising(ran[c]) /\ Ordered(ran[c], line[c], n)
      BY <1>4, <1>7 DEF ChatInv, InOrder, Coming
    <2>2. Ordered(ran[c], Append(line[c], x), n + 1)
      BY <1>1, <2>1, OrderGrows DEF x
    <2>3. Coming(c)' = n + 1
      BY <1>1, <1>4, <1>7 DEF Coming
    <2>4. QED
      BY <1>3, <1>4, <1>7, <2>1, <2>2, <2>3 DEF InOrder
  <1>8. QED
    BY <1>5, <1>6, <1>7 DEF ChatInv, InOrder

LEMMA WriteDueKeeps ==
  ASSUME Shape, Shape', NEW c \in Rooms, ChatInv(c), WriteDue(c) PROVE ChatInv(c)'
  <1> DEFINE n == sentCount[c] + 1
             x == ChatMessage(n)
  <1>1. /\ line[c] \in Seq(Turns) /\ held[c] = 0 /\ sentCount[c] \in Nat
        /\ ran[c] \in Seq(Nat) /\ n \in Nat
    BY DEF Shape, WriteDue
  <1>2. /\ x \in Turns /\ x # Quiet /\ Visible \in Turns /\ Visible # Quiet
        /\ <<Visible>> \in Seq(Turns) /\ <<Visible, x>> \in Seq(Turns) /\ ~IsMessage(Visible)
    BY <1>1, TurnFacts
  <1>3. /\ sentCount'[c] = n /\ ran' = ran /\ atWork' = atWork /\ context[c] = "large"
        /\ context'[c] = "none" /\ bought'[c] = bought[c] + 1 /\ large' = large
        /\ quiet' = quiet /\ dropped' = dropped /\ overtaken' = overtaken
    BY DEF WriteDue, Shape
  <1>4. Paid(c)'
    BY <1>3 DEF ChatInv, Paid, Shape
  <1>5. c \notin overtaken =>
          /\ Rising(ran[c]) /\ Ordered(ran[c], line[c], n)
          /\ Ordered(ran[c], Append(line[c], Visible), n)
    BY <1>1, <1>2, OrderGrows DEF ChatInv, InOrder, Coming
  <1>6. CASE Busy(c)
    <2>1. /\ line'[c] = Append(line[c], Visible) /\ drainAt'[c] # "none"
          /\ drainAt[c] # "none" => drainAt'[c] = drainAt[c]
      <3>1. Enqueued(c, <<Visible>>)
        BY <1>6 DEF WriteDue
      <3>2. line'[c] = line[c] \o <<Visible>>
            /\ drainAt'[c] = IF drainAt[c] = "none" THEN "created" ELSE drainAt[c]
        BY <1>2, <3>1, EnqueuedAdds
      <3>3. QED
        BY <1>1, <1>2, <3>2, OneMore
    <2>2. held'[c] = n
      BY <1>6 DEF WriteDue, Shape
    <2>3. Served(c)' /\ QuietFirst(c)' /\ QuietIs(c)'
      BY <1>2, <1>3, <2>1, GrowsKeeps
    <2>4. InOrder(c)'
      <3>1. Coming(c)' = n /\ held'[c] = sentCount'[c]
        BY <1>1, <1>3, <2>2 DEF Coming
      <3>2. QED
        BY <1>3, <1>5, <2>1, <3>1 DEF InOrder
    <2>5. QED
      BY <1>4, <2>3, <2>4 DEF ChatInv
  <1>7. CASE ~Busy(c)
    <2>1. line[c] = <<>> /\ atWork[c] = Rest
      BY <1>7 DEF ChatInv, Served, Busy
    <2>2. line'[c] = <<Visible, x>> /\ drainAt'[c] = "created" /\ held' = held
      <3>1. Enqueued(c, <<Visible, x>>) /\ held' = held
        BY <1>7 DEF WriteDue
      <3>2. line'[c] = line[c] \o <<Visible, x>> /\ drainAt'[c] = "created"
        BY <1>2, <1>7, <3>1, EnqueuedAdds DEF Busy
      <3>3. QED
        BY <1>2, <2>1, <3>1, <3>2
    <2>3. <<Visible, x>> = Append(Append(line[c], Visible), x)
      BY <2>1
    <2>4. Served(c)'
      BY <1>3, <2>1, <2>2 DEF Served, Busy
    <2>5. QuietFirst(c)' /\ QuietIs(c)'
      <3>1. \A i \in 1..Len(line'[c]) : line'[c][i] # Quiet
        BY <1>2, <2>2
      <3>2. c \notin quiet \/ c \in dropped
        BY <2>1, TurnFacts DEF ChatInv, QuietIs, Rest, Quiet
      <3>3. QED
        BY <1>3, <2>1, <3>1, <3>2 DEF QuietFirst, QuietIs, Rest, Quiet
    <2>6. InOrder(c)'
      <3>1. Coming(c)' = n + 1
        BY <1>1, <1>3, <2>2 DEF Coming
      <3>2. c \notin overtaken => Ordered(ran[c], <<Visible, x>>, n + 1)
        <4>1. Append(line[c], Visible) \in Seq(Turns)
          BY <1>1, <1>2
        <4>2. QED
          BY <1>1, <1>5, <2>3, <4>1, OrderGrows
      <3>3. QED
        BY <1>1, <1>3, <1>5, <2>2, <3>1, <3>2 DEF InOrder
    <2>7. QED
      BY <1>4, <2>4, <2>5, <2>6 DEF ChatInv
  <1>8. QED
    BY <1>6, <1>7

LEMMA HeldKeeps ==
  ASSUME Shape, Shape', NEW c \in Rooms, ChatInv(c), HeldGoesOn(c) PROVE ChatInv(c)'
  <1> DEFINE n == held[c]
             x == ChatMessage(n)
  <1>1. /\ line[c] \in Seq(Turns) /\ held[c] # 0 /\ sentCount[c] \in Nat
        /\ ran[c] \in Seq(Nat) /\ n \in Nat
    BY DEF Shape, HeldGoesOn
  <1>2. x \in Turns /\ x # Quiet /\ <<x>> \in Seq(Turns)
    BY <1>1, TurnFacts
  <1>3. /\ line'[c] = Append(line[c], x) /\ drainAt'[c] # "none"
        /\ drainAt[c] # "none" => drainAt'[c] = drainAt[c]
    <2>1. Enqueued(c, <<x>>)
      BY DEF HeldGoesOn
    <2>2. line'[c] = line[c] \o <<x>>
          /\ drainAt'[c] = IF drainAt[c] = "none" THEN "created" ELSE drainAt[c]
      BY <1>2, <2>1, EnqueuedAdds
    <2>3. QED
      BY <1>1, <1>2, <2>2, OneMore
  <1>4. /\ sentCount' = sentCount /\ held'[c] = 0 /\ ran' = ran /\ atWork' = atWork
        /\ context' = context /\ bought' = bought /\ large' = large
        /\ quiet' = quiet /\ dropped' = dropped /\ overtaken' = overtaken
    BY DEF HeldGoesOn, Shape
  <1> HIDE DEF x
  <1>5. Served(c)' /\ QuietFirst(c)' /\ QuietIs(c)'
    BY <1>2, <1>3, <1>4, GrowsKeeps
  <1>6. Paid(c)'
    BY <1>4 DEF ChatInv, Paid
  <1>7. ASSUME c \notin overtaken' PROVE InOrder(c)'
    <2>1. Rising(ran[c]) /\ Ordered(ran[c], line[c], n) /\ n = sentCount[c]
      BY <1>1, <1>4, <1>7 DEF ChatInv, InOrder, Coming
    <2>2. Ordered(ran[c], Append(line[c], x), n + 1)
      BY <1>1, <2>1, OrderGrows DEF x
    <2>3. Coming(c)' = n + 1
      BY <1>4, <2>1 DEF Coming
    <2>4. QED
      BY <1>3, <1>4, <2>1, <2>2, <2>3 DEF InOrder
  <1>8. QED
    BY <1>5, <1>6, <1>7 DEF ChatInv, InOrder

LEMMA BeginKeeps ==
  ASSUME Shape, Shape', NEW c \in Rooms, ChatInv(c), Begin(c) PROVE ChatInv(c)'
  <1> DEFINE s == line[c]
             t == Tail(line[c])
             x == Head(line[c])
  <1>1. s \in Seq(Turns) /\ s # <<>> /\ ran[c] \in Seq(Nat)
    BY DEF Shape, Begin
  <1>2. /\ x \in Turns /\ x = s[1] /\ 1 \in 1..Len(s)
        /\ t \in Seq(Turns) /\ Len(t) = Len(s) - 1
        /\ \A i \in 1..Len(t) : t[i] = s[i + 1] /\ i + 1 \in 1..Len(s)
    BY <1>1, Parted
  <1>3. /\ line'[c] = t /\ drainAt'[c] = "running" /\ atWork[c] = Rest /\ atWork'[c] = x
        /\ context'[c] = IF IsMessage(x) THEN context[c] ELSE "none"
        /\ ran'[c] = IF IsMessage(x) THEN Append(ran[c], x[2]) ELSE ran[c]
        /\ bought' = bought /\ large' = large /\ held' = held /\ sentCount' = sentCount
        /\ quiet' = quiet /\ dropped' = dropped /\ overtaken' = overtaken
    BY DEF Begin, Shape
  <1> HIDE DEF x, t
  <1>4. Served(c)' /\ Paid(c)'
    BY <1>3 DEF ChatInv, Served, Paid, Busy
  <1>5. \A i \in 1..Len(t) : t[i] # Quiet
    <2>1. \A i \in 1..Len(s) : s[i] = Quiet => i = 1
      BY DEF ChatInv, QuietFirst
    <2>2. QED
      BY <1>2, <2>1
  <1>6. QuietFirst(c)' /\ QuietIs(c)'
    <2>1. x = Quiet => c \in quiet
      BY <1>2 DEF ChatInv, QuietFirst
    <2>2. c \in quiet /\ c \notin dropped => x = Quiet
      BY <1>2, <1>3, TurnFacts DEF ChatInv, QuietIs
    <2>3. QED
      BY <1>3, <1>5, <2>1, <2>2 DEF QuietFirst, QuietIs
  <1>7. ASSUME c \notin overtaken' PROVE InOrder(c)'
    <2>1. /\ Rising(ran[c]) /\ Ordered(ran[c], s, Coming(c)) /\ Coming(c) \in Nat
          /\ held[c] # 0 => held[c] = sentCount[c]
      <3>1. InOrder(c) /\ c \notin overtaken
        BY <1>3, <1>7 DEF ChatInv
      <3>2. held[c] \in Nat /\ sentCount[c] \in Nat
        BY DEF Shape
      <3>3. Coming(c) \in Nat
        BY <3>2 DEF Coming
      <3>4. QED
        BY <3>1, <3>3 DEF InOrder
    <2>2. Coming(c)' = Coming(c)
      BY <1>3 DEF Coming
    <2>3. Rising(ran'[c]) /\ Ordered(ran'[c], t, Coming(c))
      BY <1>1, <1>3, <2>1, OrderRuns DEF x, t
    <2>4. QED
      BY <1>3, <2>1, <2>2, <2>3 DEF InOrder
  <1>8. QED
    BY <1>4, <1>6, <1>7 DEF ChatInv, InOrder

\* A turn ends; what was Quiet is no more.
LEMMA OverKeeps ==
  ASSUME Shape, Shape', NEW c \in Rooms, ChatInv(c), atWork[c] # Rest, Over(c), line' = line,
         bought' = bought, ran' = ran, held' = held, sentCount' = sentCount,
         dropped' = dropped, overtaken' = overtaken,
         \/ context' = context /\ large' = large
         \/ context'[c] = "small" /\ large' = large
         \/ context'[c] = "large" /\ large'[c] = large[c] + 1
  PROVE  ChatInv(c)'
  <1>1. /\ atWork'[c] = Rest /\ drainAt'[c] = IF line[c] = <<>> THEN "none" ELSE "running"
        /\ c \in quiet' <=> c \in quiet /\ atWork[c] # Quiet
    BY DEF Over, Shape
  <1>2. Served(c)'
    BY <1>1 DEF Served, Busy
  <1>3. Paid(c)'
    <2>1. bought[c] \in Nat /\ large[c] \in Nat
      BY DEF Shape
    <2>2. QED
      BY <2>1 DEF ChatInv, Paid
  <1>4. QuietFirst(c)' /\ QuietIs(c)'
    <2>1. \A i \in 1..Len(line[c]) : line[c][i] # Quiet
      BY DEF ChatInv, QuietFirst
    <2>2. c \in quiet' => c \in dropped
      BY <1>1 DEF ChatInv, QuietIs
    <2>3. QED
      BY <1>1, <2>1, <2>2, TurnFacts DEF QuietFirst, QuietIs
  <1>5. InOrder(c)'
    BY DEF ChatInv, InOrder, Coming
  <1>6. QED
    BY <1>2, <1>3, <1>4, <1>5 DEF ChatInv

LEMMA AbortKeeps ==
  ASSUME Shape, Shape', NEW c \in Rooms, ChatInv(c), AbortChat(c) PROVE ChatInv(c)'
  <1>1. /\ line'[c] = <<>> /\ drainAt'[c] = "none" /\ atWork'[c] = Rest
        /\ c \in quiet' => c \in dropped'
        /\ overtaken' = overtaken /\ ran' = ran /\ held' = held /\ sentCount' = sentCount
        /\ context' = context /\ large' = large /\ bought' = bought
    BY DEF AbortChat, Shape
  <1>2. Served(c)' /\ Paid(c)' /\ QuietFirst(c)' /\ QuietIs(c)'
    BY <1>1, TurnFacts DEF ChatInv, Served, Paid, QuietFirst, QuietIs
  <1>3. InOrder(c)'
    <2>1. Coming(c)' = Coming(c) /\ Coming(c) \in Nat
      BY <1>1 DEF Coming, Shape
    <2>2. Ordered(ran[c], line[c], Coming(c)) => Ordered(ran[c], <<>>, Coming(c))
      BY <2>1, OrderEmpty DEF Shape
    <2>3. QED
      BY <1>1, <2>1, <2>2 DEF ChatInv, InOrder
  <1>4. QED
    BY <1>2, <1>3 DEF ChatInv

\* The idle loop takes a chat nobody is at, or lets it be.
LEMMA IdleKeeps ==
  ASSUME Shape, Shape', NEW chats \in SUBSET Rooms, CompactIdle(chats), NEW c \in Rooms, ChatInv(c)
  PROVE  ChatInv(c)'
  <1>1. /\ atWork' = atWork /\ large' = large /\ ran' = ran /\ held' = held
        /\ sentCount' = sentCount /\ dropped' = dropped /\ overtaken' = overtaken
    BY DEF CompactIdle
  <1>2. CASE c \in chats
    <2>1. ~Busy(c) /\ line[c] = <<>> /\ atWork[c] = Rest
      BY <1>2 DEF CompactIdle, Chosen, Due, IsDue, ChatInv, Served, Busy
    <2>2. /\ c \in quiet' /\ context'[c] = "none" /\ line'[c] = <<Quiet>>
          /\ drainAt'[c] = "created"
          /\ bought'[c] = IF context[c] = "large" THEN bought[c] + 1 ELSE bought[c]
      BY <1>2 DEF CompactIdle
    <2>3. Served(c)'
      BY <1>1, <2>1, <2>2 DEF Served, Busy
    <2>4. Paid(c)'
      BY <1>1, <2>2 DEF ChatInv, Paid, Shape
    <2>5. QuietFirst(c)' /\ QuietIs(c)'
      BY <1>1, <2>1, <2>2, TurnFacts DEF QuietFirst, QuietIs
    <2>6. InOrder(c)'
      <3>1. Coming(c)' = Coming(c) /\ Coming(c) \in Nat
        BY <1>1 DEF Coming, Shape
      <3>2. Ordered(ran[c], line[c], Coming(c)) => Ordered(ran[c], <<Quiet>>, Coming(c))
        BY <3>1, OrderEmpty DEF Shape
      <3>3. QED
        BY <1>1, <2>2, <3>1, <3>2 DEF ChatInv, InOrder
    <2>7. QED
      BY <2>3, <2>4, <2>5, <2>6 DEF ChatInv
  <1>3. CASE c \notin chats
    <2>1. /\ line'[c] = line[c] /\ drainAt'[c] = drainAt[c] /\ context'[c] = context[c]
          /\ bought'[c] = bought[c]
          /\ c \in quiet' <=> c \in quiet /\ Busy(c)
      BY <1>3 DEF CompactIdle, StillQuiet
    <2>2. Served(c)' /\ Paid(c)' /\ InOrder(c)'
      BY <1>1, <2>1 DEF ChatInv, Served, Busy, Paid, InOrder, Coming
    <2>3. QuietFirst(c)' /\ QuietIs(c)'
      <3>1. Busy(c) \/ (line[c] = <<>> /\ atWork[c] = Rest)
        BY DEF ChatInv, Served, Busy
      <3>2. QED
        BY <1>1, <2>1, <3>1, TurnFacts DEF ChatInv, QuietFirst, QuietIs
    <2>4. QED
      BY <2>2, <2>3 DEF ChatInv
  <1>4. QED
    BY <1>2, <1>3

-----------------------------------------------------------------------------
(* The chats compacted quietly, of which only the idle loop makes more.    *)

IsQuiet(c) == atWork[c] = Quiet \/ \E i \in 1..Len(line[c]) : line[c][i] = Quiet

LEMMA QuietlyIs ==
  /\ Quietly = {c \in Rooms : IsQuiet(c)}
  /\ Quietly' = {c \in Rooms : IsQuiet(c)'}
  BY DEF Quietly, IsQuiet

LEMMA EnqueuedQuiet ==
  ASSUME Shape, NEW c \in Rooms, NEW turns \in Seq(Turns), Enqueued(c, turns), atWork' = atWork,
         \A i \in 1..Len(turns) : turns[i] # Quiet
  PROVE  IsQuiet(c)' => IsQuiet(c)
  <1>1. line'[c] = line[c] \o turns /\ line[c] \in Seq(Turns)
    BY EnqueuedAdds
  <1>2. \A i \in 1..Len(line[c] \o turns) :
          \/ i \in 1..Len(line[c]) /\ (line[c] \o turns)[i] = line[c][i]
          \/ i - Len(line[c]) \in 1..Len(turns) /\ (line[c] \o turns)[i] = turns[i - Len(line[c])]
    BY <1>1
  <1>3. QED
    BY <1>1, <1>2 DEF IsQuiet

LEMMA NoneJoins ==
  ASSUME Shape, NEW c \in Rooms, ChatInv(c),
         \/ Write(c) \/ WriteDue(c) \/ HeldGoesOn(c) \/ Begin(c) \/ EndsUnmeasured(c)
         \/ AbortChat(c) \/ \E size \in {"small", "large"} : CompactAnswered(c, size)
  PROVE  IsQuiet(c)' => IsQuiet(c)
  <1>1. ASSUME NEW x \in Turns, x # Quiet, Enqueued(c, <<x>>) \/ Enqueued(c, <<Visible, x>>),
               atWork' = atWork
        PROVE  IsQuiet(c)' => IsQuiet(c)
    <2>1. /\ <<x>> \in Seq(Turns) /\ <<Visible, x>> \in Seq(Turns)
          /\ \A i \in 1..Len(<<x>>) : <<x>>[i] # Quiet
          /\ \A i \in 1..Len(<<Visible, x>>) : <<Visible, x>>[i] # Quiet
      BY <1>1, TurnFacts
    <2>2. CASE Enqueued(c, <<x>>)
      BY <1>1, <2>1, <2>2, EnqueuedQuiet
    <2>3. CASE Enqueued(c, <<Visible, x>>)
      BY <1>1, <2>1, <2>3, EnqueuedQuiet
    <2>4. QED
      BY <1>1, <2>2, <2>3
  <1>2. /\ sentCount[c] \in Nat /\ sentCount[c] + 1 \in Nat /\ held[c] \in Nat
        /\ Visible \in Turns /\ Visible # Quiet
        /\ \A n \in Nat : ChatMessage(n) \in Turns /\ ChatMessage(n) # Quiet
    BY TurnFacts DEF Shape
  <1>3. CASE Write(c)
    <2>1. Enqueued(c, <<ChatMessage(sentCount[c] + 1)>>) /\ atWork' = atWork
      BY <1>3 DEF Write
    <2>2. QED
      BY <1>1, <1>2, <2>1
  <1>4. CASE WriteDue(c)
    <2>1. /\ atWork' = atWork
          /\ \/ Enqueued(c, <<Visible>>)
             \/ Enqueued(c, <<Visible, ChatMessage(sentCount[c] + 1)>>)
      BY <1>4 DEF WriteDue
    <2>2. QED
      BY <1>1, <1>2, <2>1
  <1>5. CASE HeldGoesOn(c)
    <2>1. Enqueued(c, <<ChatMessage(held[c])>>) /\ atWork' = atWork
      BY <1>5 DEF HeldGoesOn
    <2>2. QED
      BY <1>1, <1>2, <2>1
  <1>6. CASE Begin(c)
    <2>1. line[c] \in Seq(Turns) /\ line[c] # <<>>
      BY <1>6 DEF Begin, Shape
    <2>2. line'[c] = Tail(line[c]) /\ atWork'[c] = Head(line[c])
      BY <1>6 DEF Begin, Shape
    <2>3. /\ Head(line[c]) = line[c][1] /\ 1 \in 1..Len(line[c])
          /\ \A i \in 1..Len(Tail(line[c])) :
               Tail(line[c])[i] = line[c][i + 1] /\ i + 1 \in 1..Len(line[c])
      BY <2>1, Parted
    <2>4. QED
      BY <2>2, <2>3 DEF IsQuiet
  <1>7. CASE EndsUnmeasured(c) \/ \E size \in {"small", "large"} : CompactAnswered(c, size)
    <2>1. line' = line /\ atWork'[c] = Rest
      BY <1>7 DEF EndsUnmeasured, CompactAnswered, Over, Shape
    <2>2. QED
      BY <2>1, TurnFacts DEF IsQuiet
  <1>8. CASE AbortChat(c)
    <2>1. line'[c] = <<>> /\ atWork'[c] = Rest
      BY <1>8 DEF AbortChat, Shape
    <2>2. QED
      BY <2>1, TurnFacts DEF IsQuiet
  <1>9. QED
    BY <1>3, <1>4, <1>5, <1>6, <1>7, <1>8

\* QuietWithinTheCap: a loop that takes several chats counts those it knows of first.
LEMMA QuietCap ==
  ASSUME CompactInv, [CompactNext]_compactVars PROVE Cardinality(Quietly') <= MaxQuiet
  <1>1. Shape /\ (\A c \in Rooms : ChatInv(c)) /\ Cardinality(Quietly) <= MaxQuiet
    BY DEF CompactInv
  <1>2. IsFiniteSet(Quietly) /\ Cardinality(Quietly) \in Nat /\ Quietly \subseteq Rooms
    BY CompactAssumption, QuietlyIs, FS_Subset, FS_CardinalityType
  <1>3. ASSUME Quietly' \subseteq Quietly PROVE Cardinality(Quietly') <= MaxQuiet
    <2> DEFINE S == Quietly
               T == Quietly'
    <2>1. IsFiniteSet(S) /\ T \in SUBSET S
      BY <1>2, <1>3
    <2> HIDE DEF S, T
    <2>2. IsFiniteSet(T) /\ Cardinality(T) <= Cardinality(S) /\ Cardinality(T) \in Nat
      BY <2>1, FS_Subset, FS_CardinalityType
    <2>3. Cardinality(S) \in Nat /\ Cardinality(S) <= MaxQuiet
      BY <1>1, <1>2 DEF S
    <2>4. Cardinality(T) <= MaxQuiet
      BY <2>2, <2>3, CompactAssumption
    <2>5. QED
      BY <2>4 DEF T
  <1>4. ASSUME NEW c \in Rooms,
               \/ Write(c) \/ WriteDue(c) \/ HeldGoesOn(c) \/ Begin(c) \/ EndsUnmeasured(c)
               \/ AbortChat(c) \/ \E size \in {"small", "large"} : CompactAnswered(c, size)
        PROVE  Quietly' \subseteq Quietly
    <2>1. IsQuiet(c)' => IsQuiet(c)
      BY <1>1, <1>4, NoneJoins
    <2>2. \A d \in Rooms : d # c => Still(d)
      BY <1>1, <1>4, ActsOnOne DEF OthersStill
    <2>3. \A d \in Rooms : d # c => (IsQuiet(d)' => IsQuiet(d))
      BY <2>2 DEF Still, IsQuiet
    <2>4. QED
      BY <2>1, <2>3, QuietlyIs
  <1>5. ASSUME QuietHourPasses \/ Shutdown \/ UNCHANGED compactVars
        PROVE  Quietly' \subseteq Quietly
    <2>1. line' = line /\ atWork' = atWork
      BY <1>5 DEF QuietHourPasses, Shutdown, compactVars
    <2>2. QED
      BY <2>1 DEF Quietly
  <1>6. ASSUME NEW chats \in SUBSET Rooms, CompactIdle(chats)
        PROVE  Cardinality(Quietly') <= MaxQuiet
    <2>1. Quietly' \subseteq StillQuiet \union chats
      <3>1. ASSUME NEW c \in Rooms, IsQuiet(c)', c \notin chats PROVE c \in StillQuiet
        <4>1. line'[c] = line[c] /\ atWork' = atWork
          BY <1>6, <3>1 DEF CompactIdle
        <4>2. IsQuiet(c)
          BY <3>1, <4>1 DEF IsQuiet
        <4>3. c \in quiet /\ Busy(c)
          BY <1>1, <4>2, TurnFacts DEF ChatInv, QuietFirst, Served, Busy, IsQuiet
        <4>4. QED
          BY <4>3 DEF StillQuiet
      <3>2. QED
        BY <3>1, QuietlyIs
    <2>2. IsFiniteSet(StillQuiet) /\ IsFiniteSet(chats)
      <3>1. StillQuiet \subseteq Rooms
        BY <1>1 DEF StillQuiet, Shape
      <3>2. QED
        BY <3>1, CompactAssumption, FS_Subset
    <2>3. Cardinality(chats) + Cardinality(StillQuiet) <= MaxQuiet
      BY <1>6 DEF CompactIdle, Chosen
    <2> DEFINE S == StillQuiet
               T == Quietly'
    <2>4. IsFiniteSet(S) /\ T \subseteq S \union chats
      BY <2>1, <2>2
    <2>5. Cardinality(chats) + Cardinality(S) <= MaxQuiet
      BY <2>3
    <2> HIDE DEF S, T
    <2>6. /\ IsFiniteSet(S \union chats)
          /\ Cardinality(S \union chats)
                = Cardinality(S) + Cardinality(chats) - Cardinality(S \cap chats)
      BY <2>2, <2>4, FS_Union
    <2>7. /\ IsFiniteSet(S \cap chats)
          /\ IsFiniteSet(T)
          /\ Cardinality(T) <= Cardinality(S \union chats)
      BY <2>2, <2>4, <2>6, FS_Subset, FS_Intersection
    <2>8. /\ Cardinality(T) \in Nat /\ Cardinality(S) \in Nat /\ Cardinality(chats) \in Nat
          /\ Cardinality(S \cap chats) \in Nat /\ MaxQuiet \in Nat
      BY <2>2, <2>4, <2>7, FS_CardinalityType, CompactAssumption
    <2>9. Cardinality(T) <= MaxQuiet
      BY <2>5, <2>6, <2>7, <2>8
    <2>10. QED
      BY <2>9 DEF T
  <1>7. QED
    BY <1>3, <1>4, <1>5, <1>6 DEF CompactNext, Acts

\* interrupted_chats: a message in hand has a task, and its chat is not one compacted quietly.
LEMMA ToldSo ==
  ASSUME CompactInv, [CompactNext]_compactVars PROVE WorkInHandIsTold'
  <1>1. Shape /\ (\A c \in Rooms : ChatInv(c)) /\ WorkInHandIsTold
    BY DEF CompactInv
  <1>2. CASE Shutdown
    <2>1. ASSUME NEW c \in Rooms \ dropped',
                 IsMessage(atWork'[c]) \/ \E i \in 1..Len(line'[c]) : IsMessage(line'[c][i])
          PROVE  c \in noteTold'
      <3>1. /\ line' = line /\ atWork' = atWork /\ dropped' = dropped
            /\ c \in noteTold' <=> (Busy(c) /\ c \notin quiet) \/ line[c] # <<>>
        BY <1>2 DEF Shutdown
      <3>2. CASE line[c] # <<>>
        BY <3>1, <3>2
      <3>3. CASE line[c] = <<>>
        <4>1. IsMessage(atWork[c])
          BY <2>1, <3>1, <3>3
        <4>2. atWork[c] # Rest /\ atWork[c] # Quiet
          BY <4>1, TurnFacts
        <4>3. Busy(c) /\ c \notin quiet
          BY <1>1, <2>1, <3>1, <4>2 DEF ChatInv, Served, Busy, QuietIs
        <4>4. QED
          BY <3>1, <4>3
      <3>4. QED
        BY <3>2, <3>3
    <2>2. QED
      BY <2>1 DEF WorkInHandIsTold
  <1>3. CASE UNCHANGED compactVars
    BY <1>1, <1>3 DEF compactVars, WorkInHandIsTold
  <1>4. CASE CompactNext /\ ~Shutdown
    <2>1. ~down'
      BY <1>4 DEF CompactNext, Acts, Write, WriteDue, HeldGoesOn, Begin, EndsUnmeasured, AbortChat,
         CompactAnswered, QuietHourPasses, CompactIdle
    <2>2. QED
      BY <2>1 DEF WorkInHandIsTold
  <1>5. QED
    BY <1>2, <1>3, <1>4

LEMMA CompactStep == CompactInv /\ [CompactNext]_compactVars => CompactInv'
  <1> SUFFICES ASSUME CompactInv, [CompactNext]_compactVars PROVE CompactInv'
    OBVIOUS
  <1>1. Shape /\ Shape' /\ \A c \in Rooms : ChatInv(c)
    BY CompactShape DEF CompactInv
  <1>2. ASSUME NEW c \in Rooms,
               \/ Write(c) \/ WriteDue(c) \/ HeldGoesOn(c) \/ Begin(c) \/ EndsUnmeasured(c)
               \/ AbortChat(c) \/ \E size \in {"small", "large"} : CompactAnswered(c, size)
        PROVE  \A d \in Rooms : ChatInv(d)'
    <2>1. ChatInv(c)'
      <3>1. ASSUME EndsUnmeasured(c) PROVE ChatInv(c)'
        BY <1>1, <3>1, OverKeeps DEF EndsUnmeasured
      <3>2. ASSUME NEW size \in {"small", "large"}, CompactAnswered(c, size) PROVE ChatInv(c)'
        <4>1. /\ atWork[c] # Rest /\ Over(c)
              /\ \/ context'[c] = "small" /\ large' = large
                 \/ context'[c] = "large" /\ large'[c] = large[c] + 1
              /\ UNCHANGED <<line, bought, ran, held, sentCount, dropped, overtaken>>
          BY <1>1, <3>2, TurnFacts DEF CompactAnswered, Shape
        <4>2. QED
          BY <1>1, <4>1, OverKeeps
      <3>3. QED
        BY <1>1, <1>2, <3>1, <3>2, WriteKeeps, WriteDueKeeps, HeldKeeps, BeginKeeps, AbortKeeps
    <2>2. \A d \in Rooms : d # c => Still(d)
      BY <1>1, <1>2, ActsOnOne DEF OthersStill
    <2>3. QED
      BY <1>1, <2>1, <2>2, StillKeeps
  <1>3. ASSUME QuietHourPasses \/ Shutdown \/ UNCHANGED compactVars
        PROVE  \A d \in Rooms : ChatInv(d)'
    <2>1. \A d \in Rooms : Still(d)
      BY <1>3 DEF QuietHourPasses, Shutdown, compactVars, Still
    <2>2. QED
      BY <1>1, <2>1, StillKeeps
  <1>4. ASSUME NEW chats \in SUBSET Rooms, CompactIdle(chats) PROVE \A d \in Rooms : ChatInv(d)'
    BY <1>1, <1>4, IdleKeeps
  <1>5. \A d \in Rooms : ChatInv(d)'
    BY <1>2, <1>3, <1>4 DEF CompactNext, Acts
  <1>6. Cardinality(Quietly') <= MaxQuiet /\ WorkInHandIsTold'
    BY QuietCap, ToldSo
  <1>7. CompactBounds'
    BY <1>1, BoundsKept DEF CompactInv
  <1>8. QED
    BY <1>1, <1>5, <1>6, <1>7 DEF CompactInv

LEMMA CompactInvInit == CompactInit => CompactInv
  <1> SUFFICES ASSUME CompactInit PROVE CompactInv
    OBVIOUS
  <1> USE CompactAssumption
  <1>1. Shape
    <2>1. <<>> \in Seq(Turns) /\ <<>> \in Seq(Nat) /\ Rest \in Turns \union {Rest}
          /\ NotIdle \in Nat
      BY DEF NotIdle
    <2>2. /\ line \in [Rooms -> Seq(Turns)] /\ ran \in [Rooms -> Seq(Nat)]
          /\ drainAt \in [Rooms -> {"none", "created", "running"}]
          /\ atWork \in [Rooms -> Turns \union {Rest}]
      BY <2>1 DEF CompactInit
    <2>3. /\ context \in [Rooms -> {"none", "small", "large"}]
          /\ idleSince \in [Rooms -> Nat] /\ clockHour \in Nat
          /\ held \in [Rooms -> Nat] /\ sentCount \in [Rooms -> Nat]
          /\ large \in [Rooms -> Nat] /\ bought \in [Rooms -> Nat]
      BY <2>1 DEF CompactInit
    <2>4. QED
      BY <2>2, <2>3 DEF CompactInit, Shape
  <1>2. ASSUME NEW c \in Rooms PROVE ChatInv(c) /\ ~IsQuiet(c)
    <2>1. /\ line[c] = <<>> /\ drainAt[c] = "none" /\ atWork[c] = Rest /\ context[c] = "none"
          /\ held[c] = 0 /\ large[c] = 0 /\ bought[c] = 0 /\ ran[c] = <<>> /\ c \notin quiet
          /\ sentCount[c] = 0
      BY DEF CompactInit
    <2>2. Served(c) /\ Paid(c) /\ QuietFirst(c) /\ QuietIs(c) /\ ~IsQuiet(c)
      BY <2>1, TurnFacts DEF Served, Paid, QuietFirst, QuietIs, IsQuiet
    <2>3. InOrder(c)
      BY <2>1 DEF InOrder, Rising, Ordered, Coming
    <2>4. QED
      BY <2>2, <2>3 DEF ChatInv
  <1>3. Cardinality(Quietly) = 0
    <2>1. Quietly = {}
      BY <1>2, QuietlyIs
    <2>2. QED
      BY <2>1, FS_EmptySet
  <1>4. WorkInHandIsTold
    BY DEF CompactInit, WorkInHandIsTold
  <1>5. CompactBounds
    <2>1. \A c \in Rooms : idleSince[c] = NotIdle /\ sentCount[c] = 0
      BY DEF CompactInit
    <2>2. NotIdle \in Nat /\ clockHour = 0 /\ noteTold = {}
      BY DEF CompactInit, NotIdle
    <2>3. QED
      BY <2>1, <2>2 DEF CompactBounds
  <1>6. QED
    BY <1>1, <1>2, <1>3, <1>4, <1>5 DEF CompactInv

LEMMA CompactInvTyped == CompactInv => CompactTypeOK
  BY CompactAssumption DEF CompactInv, Shape, CompactBounds, ChatInv, Served, CompactTypeOK,
     NotIdle

\* on_message, compact_idle_chats and interrupted_chats: a reading buys one compaction, the
\* messages of a chat run in order unless one was held, the idle loop keeps to its cap, and a
\* shutdown tells whoever has work in hand.
THEOREM CompactionIsDue == CompactSpec => []CompactsAsDue
  <1>1. CompactInv => CompactsAsDue
    <2> SUFFICES ASSUME CompactInv PROVE CompactsAsDue
      OBVIOUS
    <2>1. OneCompactionPerReading
      BY DEF CompactInv, ChatInv, Paid, OneCompactionPerReading
    <2>2. MessagesInOrder
      BY DEF CompactInv, ChatInv, InOrder, Rising, MessagesInOrder
    <2>3. QuietWithinTheCap
      BY DEF CompactInv, Quietly, QuietWithinTheCap
    <2>4. QED
      BY <2>1, <2>2, <2>3 DEF CompactInv, CompactsAsDue
  <1>2. QED
    BY <1>1, CompactInvInit, CompactStep, PTL DEF CompactSpec
=============================================================================
