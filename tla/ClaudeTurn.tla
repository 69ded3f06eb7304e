------------------------------ MODULE ClaudeTurn ------------------------------
(***************************************************************************)
(* The turns of one claude session, one after the other, as ClaudeBackend  *)
(* runs them (backends/claude.py): the session file decides whether a turn *)
(* creates the session or resumes it and whether it carries the system     *)
(* prompt; the stream of the CLI is folded into the answer and its figures *)
(* (agent.py); an empty answer is asked for once more; a compaction is one *)
(* call of its own.  In native and ollama mode the CLI streams its         *)
(* messages; in pty mode claude-pty answers with one envelope, and the     *)
(* figures come from the transcript the turn appended to.                  *)
(***************************************************************************)
EXTENDS Naturals

CONSTANTS MaxClaudeTurns,   \* turns and compactions of the session
          MaxMessages,      \* assistant messages of one turn
          TakesHandoff      \* the platform is not one of NO_HANDOFF_PLATFORMS

ASSUME ClaudeTurnAssumption ==
    /\ MaxClaudeTurns \in Nat \ {0}
    /\ MaxMessages \in Nat \ {0}
    /\ TakesHandoff \in BOOLEAN

Modes == {"native", "ollama", "pty"}
SessionFiles == {"absent", "empty", "content"}
Bodies == {"none", "words", "block", "notice", "compaction"}
Models == {"none", "main", "alt", "aux"}
CompactOutcomes == {"none", "success", "error"}
Ways == {"create", "repair", "resume"}

MaxLogged == MaxClaudeTurns * MaxMessages

\* What the fold of one call has found so far.
Tallies == [tools : BOOLEAN, text : BOOLEAN, last : 0..MaxLogged,
            model : Models, compact : CompactOutcomes, body : {"none", "words", "block"},
            read : 0..MaxMessages, written : 0..MaxMessages]
NoTally == [tools |-> FALSE, text |-> FALSE, last |-> 0, model |-> "none",
            compact |-> "none", body |-> "none", read |-> 0, written |-> 0]

VARIABLES
    claudeMode,     \* how this backend drives the CLI
    hooked,         \* claude-pty has its PostCompact hook
    delegated,      \* the jail leaves the pty startup gate to the daemon
    sessionFile,    \* the JSONL of the session
    prompted,       \* the session was begun with the system prompt
    handed,         \* prompts of this session that carried a handoff
    logged,         \* assistant records in the JSONL that state their usage
    loggedCalls,    \* tool calls this turn wrote there
    loggedResults,  \* results of those tool calls
    talk,           \* messages in the conversation as the CLI holds it
    stagedPrompt,   \* the staged system prompt exists
    callStage,      \* where the turn is
    prompting,      \* what it was asked: text, /compact typed as text, or compact()
    way,            \* how the first call names the session
    offset,         \* records that were there before the turn
    tally,          \* the fold of the call that runs
    firstOut,       \* the output of the first call, once a second is made
    callsMade,      \* calls of the turn
    gate,           \* the startup gate: free, held by the turn or by a neighbour
    turnsBegun,
    usedUp,         \* what the turn's messages read and wrote in all
    lastBy,         \* the model of the turn's last message
    toolsRan,       \* a tool ran in this turn
    answer          \* what the turn returned or raised

claudeVars == <<claudeMode, hooked, delegated, sessionFile, prompted,
                handed, logged, loggedCalls, loggedResults, talk, stagedPrompt, callStage,
                prompting, way, offset, tally, firstOut, callsMade, gate, turnsBegun, usedUp,
                lastBy, toolsRan, answer>>

setup == <<claudeMode, hooked, delegated>>
sessionState == <<sessionFile, prompted, handed, logged, loggedCalls, loggedResults, talk>>
turnGhosts == <<usedUp, lastBy, toolsRan>>

NoAnswer == [kind |-> "none", body |-> "none", tokens |-> 0, cost |-> 0, ctx |-> 0,
             model |-> "none", tools |-> FALSE, ready |-> FALSE, measured |-> FALSE]
Tellings == [kind : {"none", "reply", "compaction", "refused", "failed", "exhausted"},
            body : Bodies, tokens : 0..MaxLogged, cost : 0..MaxMessages, ctx : 0..(MaxLogged + 1),
            model : Models, tools : BOOLEAN, ready : BOOLEAN, measured : BOOLEAN]
NoSpending == [read |-> 0, written |-> 0]

ClaudeTypeOK ==
    /\ claudeMode \in Modes
    /\ hooked \in BOOLEAN /\ delegated \in BOOLEAN
    /\ sessionFile \in SessionFiles
    /\ prompted \in BOOLEAN /\ stagedPrompt \in BOOLEAN
    /\ handed \in 0..MaxClaudeTurns
    /\ logged \in 0..MaxLogged /\ offset \in 0..MaxLogged
    /\ loggedCalls \in 0..MaxMessages /\ loggedResults \in 0..MaxMessages
    /\ talk \in 0..(MaxLogged + 1)
    /\ callStage \in {"idle", "spawning", "gate", "running", "ending"}
    /\ prompting \in {"none", "text", "typed", "compact"}
    /\ way \in Ways
    /\ callsMade \in 0..2 /\ {tally, firstOut} \subseteq Tallies
    /\ usedUp \in [read : 0..MaxMessages, written : 0..MaxMessages]
    /\ gate \in {"free", "turn", "neighbour"}
    /\ turnsBegun \in 0..MaxClaudeTurns
    /\ lastBy \in Models /\ toolsRan \in BOOLEAN
    /\ answer \in Tellings

ClaudeInit ==
    /\ claudeMode \in Modes
    /\ hooked \in (IF claudeMode = "pty" THEN BOOLEAN ELSE {FALSE})
    /\ delegated \in (IF claudeMode = "pty" THEN BOOLEAN ELSE {FALSE})
    /\ sessionFile = "absent" /\ prompted = FALSE /\ handed = 0
    /\ logged = 0 /\ loggedCalls = 0 /\ loggedResults = 0 /\ talk = 0
    /\ stagedPrompt = FALSE /\ callStage = "idle" /\ prompting = "none" /\ way = "create"
    /\ offset = 0 /\ tally = NoTally /\ firstOut = NoTally /\ callsMade = 0
    /\ gate = "free" /\ turnsBegun = 0
    /\ usedUp = NoSpending /\ lastBy = "none" /\ toolsRan = FALSE /\ answer = NoAnswer
-----------------------------------------------------------------------------
(* A turn is asked for.                                                    *)

\* _session_has_content and is_file: what the file says of the session.
WayIn ==
    CASE sessionFile = "content" -> "resume"
      [] sessionFile = "empty" -> "repair"
      [] OTHER -> "create"

\* The system prompt goes with a turn that (re-)establishes the session.
Carries(w) == w # "resume"

\* run, up to the first spawn: the size of the file, the way in, the staged
\* prompt and the handoff.
Asks(what) ==
    /\ callStage = "idle" /\ turnsBegun < MaxClaudeTurns
    /\ turnsBegun' = turnsBegun + 1
    /\ prompting' = what /\ way' = WayIn /\ offset' = logged
    /\ stagedPrompt' = (Carries(WayIn) /\ claudeMode # "pty")
    /\ handed' = handed + (IF WayIn = "create" /\ TakesHandoff THEN 1 ELSE 0)
    /\ callStage' = "spawning" /\ callsMade' = 0
    /\ tally' = NoTally /\ firstOut' = NoTally /\ answer' = NoAnswer
    /\ loggedCalls' = 0 /\ loggedResults' = 0
    /\ usedUp' = NoSpending /\ lastBy' = "none" /\ toolsRan' = FALSE
    /\ UNCHANGED <<setup, sessionFile, prompted, logged, talk, gate>>

AsksText == Asks("text")
AsksCompactText == Asks("typed")

\* compact(): refused where there is no session file, and in pty mode where no
\* hook would ever end it.
NoCompactWithoutFile == sessionFile = "absent"
NoCompact == sessionFile = "absent" \/ (claudeMode = "pty" /\ ~hooked)

Compact ==
    /\ callStage = "idle" /\ turnsBegun < MaxClaudeTurns
    /\ turnsBegun' = turnsBegun + 1
    /\ prompting' = "compact" /\ way' = "resume" /\ offset' = logged /\ callsMade' = 0
    /\ tally' = NoTally /\ firstOut' = NoTally
    /\ loggedCalls' = 0 /\ loggedResults' = 0
    /\ usedUp' = NoSpending /\ lastBy' = "none" /\ toolsRan' = FALSE
    /\ IF NoCompact
       THEN callStage' = "idle" /\ answer' = [NoAnswer EXCEPT !.kind = "refused"]
       ELSE callStage' = "spawning" /\ answer' = NoAnswer
    /\ UNCHANGED <<setup, sessionFile, prompted, handed, logged, talk, stagedPrompt, gate>>
-----------------------------------------------------------------------------
(* The process, in either executor.                                        *)

\* _exec and _exec_pty up to the spawn.  A delegated pty start takes the gate
\* first and its timer gives it back.
SpawnsCall ==
    /\ callStage = "spawning"
    /\ IF delegated THEN callStage' = "gate" ELSE callStage' = "running"
    /\ callsMade' = callsMade + (IF delegated THEN 0 ELSE 1)
    /\ UNCHANGED <<setup, sessionState, stagedPrompt, prompting, way, offset, tally,
                   firstOut, gate, turnsBegun, turnGhosts, answer>>

TakesGate ==
    /\ callStage = "gate" /\ gate = "free"
    /\ gate' = "turn" /\ callStage' = "running" /\ callsMade' = callsMade + 1
    /\ UNCHANGED <<setup, sessionState, stagedPrompt, prompting, way, offset, tally,
                   firstOut, turnsBegun, turnGhosts, answer>>

\* Another chat of the same daemon starts its own claude-pty.
NeighbourTakesGate ==
    /\ gate = "free" /\ callStage = "gate"
    /\ gate' = "neighbour"
    /\ UNCHANGED <<setup, sessionState, stagedPrompt, callStage, prompting, way, offset,
                   tally, firstOut, callsMade, turnsBegun, turnGhosts, answer>>

GateTimer ==
    /\ gate # "free"
    /\ gate' = "free"
    /\ UNCHANGED <<setup, sessionState, stagedPrompt, callStage, prompting, way, offset,
                   tally, firstOut, callsMade, turnsBegun, turnGhosts, answer>>

\* The system prompt this call hands over: staged in a file, or inline in pty.
Supplied ==
    /\ callsMade = 1 /\ prompting # "compact" /\ Carries(way)
    /\ claudeMode # "pty" => stagedPrompt

\* A call that names a session the CLI does not find, or finds taken, dies at once.
\* The first call of an empty file is one: the CLI answers that it has no such session.
CannotRun == (way = "repair" \/ callsMade = 2) /\ sessionFile # "content"
-----------------------------------------------------------------------------
(* The CLI (external), and the fold of what it streams.                    *)

\* An assistant message as it is folded: its usage replaces the last one, its model
\* names itself, its text counts unless it is only a <suggestions> block.
FoldSums(t, kind, m) ==
    [t EXCEPT !.last = @ + talk + 1, !.model = m,
              !.text = @ \/ kind = "words",
              !.tools = @ \/ kind = "tool",
              !.body = IF kind = "tool" THEN "none" ELSE kind]
Fold(t, kind, m) ==
    [t EXCEPT !.last = talk + 1, !.model = m,
              !.text = @ \/ kind = "words",
              !.tools = @ \/ kind = "tool",
              !.body = IF kind = "tool" THEN "none" ELSE kind]
FoldOwn(t, kind, m) == IF claudeMode = "pty" THEN t ELSE Fold(t, kind, m)

Messages == usedUp.read + usedUp.written

\* The CLI writes a message: words, a tool call or only a <suggestions> block.  The
\* first message of a call pays for the prompt again where the cache has gone cold.
CliSays(kind, m, cold) ==
    /\ callStage = "running" /\ ~CannotRun /\ prompting # "compact"
    /\ tally.compact = "none" /\ Messages < MaxMessages /\ talk < MaxLogged
    /\ cold => tally.read + tally.written = 0
    /\ LET r == IF cold THEN 0 ELSE 1 IN
       /\ usedUp' = [read |-> usedUp.read + r, written |-> usedUp.written + 1 - r]
       /\ tally' = [FoldOwn(tally, kind, m) EXCEPT !.read = @ + r, !.written = @ + 1 - r]
    /\ lastBy' = m /\ toolsRan' = (toolsRan \/ kind = "tool")
    /\ talk' = talk + 1 /\ logged' = logged + 1
    /\ loggedCalls' = loggedCalls + (IF kind = "tool" THEN 1 ELSE 0)
    /\ sessionFile' = "content"
    /\ prompted' = (prompted \/ Supplied)
    /\ UNCHANGED <<setup, handed, loggedResults, stagedPrompt, callStage, prompting, way,
                   offset, firstOut, callsMade, gate, turnsBegun, answer>>

\* The result of a tool call reaches the transcript.
ToolAnswers ==
    /\ callStage = "running" /\ loggedResults < loggedCalls
    /\ loggedResults' = loggedResults + 1
    /\ UNCHANGED <<setup, sessionFile, prompted, handed, logged, loggedCalls, talk,
                   stagedPrompt, callStage, prompting, way, offset, tally, firstOut,
                   callsMade, gate, turnsBegun, turnGhosts, answer>>

\* The CLI opens a session and gets no further: an empty file is left.
CliLeavesEmpty ==
    /\ callStage = "running" /\ sessionFile = "absent" /\ way = "create"
    /\ sessionFile' = "empty"
    /\ UNCHANGED <<setup, prompted, handed, logged, loggedCalls, loggedResults, talk,
                   stagedPrompt, callStage, prompting, way, offset, tally, firstOut,
                   callsMade, gate, turnsBegun, turnGhosts, answer>>

\* The prompt was /compact: a status line carries the outcome, the result is empty.
Compacting ==
    /\ callStage = "running" /\ ~CannotRun /\ callsMade = 1
    /\ prompting \in {"compact", "typed"} /\ sessionFile = "content"
    /\ claudeMode = "pty" => hooked
    /\ tally.compact = "none" /\ Messages = 0

CliCompacts(outcome) ==
    /\ Compacting
    /\ tally' = [tally EXCEPT !.compact = outcome, !.body = "none"]
    /\ talk' = IF outcome = "success" THEN 1 ELSE talk
    /\ UNCHANGED <<setup, sessionFile, prompted, handed, logged, loggedCalls,
                   loggedResults, stagedPrompt, callStage, prompting, way, offset,
                   firstOut, callsMade, gate, turnsBegun, turnGhosts, answer>>

\* A compaction in pty mode without the hook gives no envelope, ever.
Hangs == callStage = "running" /\ claudeMode = "pty" /\ ~hooked
         /\ prompting \in {"compact", "typed"} /\ sessionFile = "content"
-----------------------------------------------------------------------------
(* How a call ends.                                                        *)

Stream == claudeMode # "pty"

\* What the turn is found to have used.  pty: the records past the offset, unless the
\* transcript cannot be read or holds none, then the whole session's modelUsage.
Measured(readable) == readable /\ logged > offset
TurnTokensOfSession(out, readable) == IF Stream THEN out.read ELSE logged
TurnTokens(out, readable) ==
    IF Stream THEN out.read
    ELSE IF Measured(readable) THEN usedUp.read ELSE logged

\* ollama prices the folded usage itself; the CLI states the cost of its own call.
Priced(out) == out.read + out.written

\* _merge_cli_output: the answer of the second call, the figures of both.  The cache
\* writes are not among the figures it adds up; the cost the CLI states is.
MergedSecondOnly(first, second) == second
Merged(first, second) ==
    [second EXCEPT !.tools = first.tools \/ @,
                   !.read = first.read + @,
                   !.written = IF claudeMode = "ollama" THEN 0 ELSE first.written + @,
                   !.text = first.text \/ @,
                   !.model = IF @ = "none" THEN first.model ELSE @]

\* A pty turn takes the second envelope as it is.
Output == IF callsMade = 2 /\ Stream THEN Merged(firstOut, tally) ELSE tally

\* The text of the turn: the result, or the last words where the first result is only
\* a block.
Body(out) ==
    IF out.body = "block" /\ out.text /\ callsMade = 1 THEN "words"
    ELSE IF out.body = "none" /\ callsMade = 2 THEN "notice" ELSE out.body

\* The model of the last assistant message; pty reads it from the transcript; with no
\* such message, the first model the turn touched, which may be an auxiliary one.
ModelOf(out, readable) ==
    IF Stream /\ out.model # "none" THEN {out.model}
    ELSE IF ~Stream /\ readable /\ lastBy # "none" THEN {lastBy}
    ELSE {"main", "aux"}

\* The reading of the context: the prompt of the last message, which the statusline
\* of claude-pty hands over ready-made; a second call's own.
Context == IF Stream THEN tally.last ELSE talk

Replies(b, readable, m) ==
    answer' = [NoAnswer EXCEPT !.kind = "reply", !.body = b,
                  !.tokens = TurnTokens(Output, readable),
                  !.measured = Stream \/ Measured(readable),
                  !.cost = Priced(Output), !.model = m,
                  !.ctx = Context,
                  !.tools = Output.tools]

EndsTurn ==
    /\ callStage' = "idle" /\ prompting' = "none" /\ stagedPrompt' = FALSE
    /\ UNCHANGED <<setup, sessionState, way, offset, tally, firstOut, callsMade, gate,
                   turnsBegun, turnGhosts>>

\* claude-pty gives the text of its last message; its envelope folds nothing else.
Bodied(b) ==
    IF Stream THEN b = tally.body
    ELSE b \in (IF Messages = 0 \/ tally.compact # "none"
                THEN {"none"} ELSE {"none", "words", "block"})

\* Zero exit and a result: an answer, or a compaction that was typed as text.
Succeeds(b, readable, m) ==
    /\ callStage = "running" /\ ~CannotRun /\ ~Hangs /\ prompting # "compact"
    /\ Messages > 0 \/ tally.compact # "none" \/ callsMade = 2
    /\ Bodied(b) /\ m \in ModelOf(Output, readable)
    /\ IF tally.compact # "none" /\ b = "none"
       THEN answer' = [NoAnswer EXCEPT !.kind = "reply", !.body = "compaction"]
       ELSE /\ b # "none" \/ callsMade = 2
            /\ Replies(Body([Output EXCEPT !.body = b]), readable, m)
    /\ EndsTurn

\* No visible reply: asked once more, by the same way in, on the session as it is.
Asked2Compacted(b) == b = "none" /\ callsMade = 1
Asked2(b) == b = "none" /\ tally.compact = "none" /\ callsMade = 1

Nudge(b) ==
    /\ callStage = "running" /\ ~CannotRun /\ ~Hangs /\ prompting # "compact"
    /\ Bodied(b) /\ Asked2(b)
    /\ callStage' = "spawning" /\ stagedPrompt' = FALSE
    /\ firstOut' = tally /\ tally' = NoTally
    /\ UNCHANGED <<setup, sessionState, prompting, way, offset, callsMade, gate,
                   turnsBegun, turnGhosts, answer>>

\* compact() returns what the status line said.
CompactReturns ==
    /\ callStage = "running" /\ prompting = "compact" /\ tally.compact # "none"
    /\ answer' = [NoAnswer EXCEPT !.kind = "compaction",
                  !.body = IF tally.compact = "success" THEN "compaction" ELSE "none"]
    /\ EndsTurn

\* quota.claude_error: tools were started if the stream showed one; a claude-pty that
\* failed may have run any.  The first call's tools are remembered by the second.
StartedLast == ~Stream \/ tally.tools
Started == ~Stream \/ tally.tools \/ firstOut.tools

\* claude_resume_ready: this turn called tools and each has its result on disk.
ReadyOnceOne == Stream /\ Started /\ loggedResults > 0
Ready == Stream /\ Started /\ loggedCalls > 0 /\ loggedResults = loggedCalls

\* The account has nothing left.
Exhausted ==
    /\ callStage = "running" /\ ~CannotRun
    /\ answer' = [NoAnswer EXCEPT !.kind = "exhausted",
                                  !.tools = (prompting # "compact" /\ Started),
                                  !.ready = (prompting # "compact" /\ Ready)]
    /\ EndsTurn

\* An error result, a failing exit, no envelope or a malformed one, a timeout, a stop.
\* A chat's turn has no timeout, and a call that hangs is ended by a stop alone; a
\* compaction has a deadline of its own.
CallFails ==
    /\ callStage \in {"running", "gate"}
    /\ answer' = [NoAnswer EXCEPT !.kind = "failed"]
    /\ EndsTurn

Rests == callStage = "idle" /\ turnsBegun = MaxClaudeTurns /\ UNCHANGED claudeVars

ClaudeNext ==
    \/ AsksText \/ AsksCompactText \/ Compact
    \/ SpawnsCall \/ TakesGate \/ NeighbourTakesGate \/ GateTimer
    \/ \E kind \in {"words", "tool", "block"}, m \in {"main", "alt"}, cold \in BOOLEAN :
           CliSays(kind, m, cold)
    \/ ToolAnswers \/ CliLeavesEmpty
    \/ \E o \in {"success", "error"} : CliCompacts(o)
    \/ \E b \in {"none", "words", "block"} :
           \/ Nudge(b)
           \/ \E readable \in BOOLEAN, m \in Models : Succeeds(b, readable, m)
    \/ CompactReturns \/ Exhausted \/ CallFails \/ Rests

-----------------------------------------------------------------------------
\* The figures under an answer are this turn's: the tokens it read, wherever they
\* could be measured; what it cost; no more context than the conversation has; the
\* model that spoke last.  Two gaps: what a second call adds up leaves out the cache
\* writes ollama mode prices, and in pty mode the first envelope is dropped with its
\* cost.
CostIsPartial == callsMade = 2 /\ claudeMode \in {"ollama", "pty"}

FiguresAreTheTurns ==
    answer.kind = "reply" /\ answer.body # "compaction" =>
        /\ answer.measured => answer.tokens = usedUp.read
        /\ ~CostIsPartial => answer.cost = Messages
        /\ answer.cost <= Messages
        /\ answer.ctx <= talk
        /\ answer.measured /\ lastBy # "none" => answer.model = lastBy

\* A session that has content was begun with the system prompt, and the prompt is
\* staged for no longer than the call that reads it.
PromptedOnce ==
    /\ sessionFile = "content" => prompted
    /\ stagedPrompt => callStage # "idle" /\ firstOut = NoTally

\* An account that gave out says so with what the turn had done: tools that ran are
\* told of, by either call, and a turn is ready to be gone on with only when each of
\* its tool calls has its result on disk.
ActsAreTold ==
    answer.kind = "exhausted" =>
        /\ toolsRan => answer.tools
        /\ answer.ready => loggedCalls > 0 /\ loggedResults = loggedCalls

\* A compaction is no dead turn: it is never asked for an answer.  And no call is made
\* that cannot end, except for a /compact typed as text that pty cannot report.
CompactionIsNoDeadTurn ==
    /\ firstOut.compact = "none"
    /\ Hangs => prompting = "typed"

\* The turns of a claude session are begun, counted and told as they were.
ClaudeKeeps ==
    FiguresAreTheTurns /\ PromptedOnce /\ ActsAreTold /\ CompactionIsNoDeadTurn

ClaudeSpec == ClaudeInit /\ [][ClaudeNext]_claudeVars
=============================================================================
