--------------------------- MODULE SessionMemory ---------------------------
(***************************************************************************)
(* What the agent of a chat's turn knows of the turns before it.  Claude   *)
(* and codex each keep a log of their own; a turn resumes its backend's    *)
(* log when there is one (backends/claude.py, backends/codex.py), and a    *)
(* new session begins with the last turns of the other's (transcript.py).  *)
(* Codex names its threads itself: a mapping remembers the thread of the   *)
(* session, and its rollout must be in the home that codex is given, which *)
(* moves with the session boundary and the account (codex_state.py).       *)
(* The turns of a chat run one after the other; a turn is known by number. *)
(***************************************************************************)
EXTENDS Naturals, Sequences, FiniteSets

CONSTANTS
    MaxSpoken,    \* bound on the turns
    MaxMoves,     \* bound on moves of the home and changes of the backend
    HandoffTurns  \* max_turns of format_handoff, in turns of a chat

ASSUME MemoryAssumption == {MaxSpoken, MaxMoves, HandoffTurns} \subseteq Nat

Homes == {"own", "shared"}
Sites == {"AGENTS.md", "skill"}   \* of _SHARED_ENTRIES, and in a directory of _SHARED_MERGED

VARIABLES
    backend,     \* what the profile of the chat says now
    home,        \* home_dir: the workspace's own home or the operator's shared one
    moves,
    spoken,      \* turns so far
    claudeLog,   \* the session's JSONL, each entry what its text tells of
    claudeFile,  \* it is there, perhaps empty
    thread,      \* the mapping: a thread, or 0
    threads,     \* threads codex has named so far
    copies,      \* per home and thread: its rollout, <<>> when there is none
    newer,       \* per thread: the home of its rollout that was written last
    sites,       \* the home's own places for shared entries
    agentRun,    \* the run under way
    knew,        \* ghost: of each turn that began, what its agent was told
    answeredBy,  \* ghost: of each turn, the backend that answered it, or "none"
    gaps         \* ghost: what may cost the chat its memory, see below

memoryVars == <<backend, home, moves, spoken, claudeLog, claudeFile, thread, threads, copies,
                newer, sites, agentRun, knew, answeredBy, gaps>>

NoRun == [at |-> "idle", fresh |-> FALSE, thread |-> 0, tells |-> {}]
Told(log) == UNION {log[i] : i \in DOMAIN log}

MemoryInit ==
    /\ backend \in {"claude", "codex"} /\ home \in Homes /\ moves = 0 /\ spoken = 0
    /\ claudeLog = <<>> /\ claudeFile = FALSE /\ thread = 0 /\ threads = 0
    /\ copies = [h \in Homes |-> [t \in 1..MaxSpoken |-> <<>>]]
    /\ newer = [t \in 1..MaxSpoken |-> "shared"]
    /\ sites = [s \in Sites |-> "none"] /\ agentRun = NoRun
    /\ knew = <<>> /\ answeredBy = <<>> /\ gaps = {}

-----------------------------------------------------------------------------
(* The operator.                                                           *)

ChangesBackend ==
    /\ agentRun = NoRun /\ moves < MaxMoves /\ moves' = moves + 1
    /\ backend' = IF backend = "claude" THEN "codex" ELSE "claude"
    /\ UNCHANGED <<home, spoken, claudeLog, claudeFile, thread, threads, copies, newer, sites,
                   agentRun, knew, answeredBy, gaps>>

\* sandbox.scoped_sessions, or the account, changes.
MovesHome ==
    /\ agentRun = NoRun /\ moves < MaxMoves /\ moves' = moves + 1
    /\ home' = (IF home = "own" THEN "shared" ELSE "own")
    /\ gaps' = IF threads = 0 THEN gaps ELSE gaps \union {"moved"}
    /\ UNCHANGED <<backend, spoken, claudeLog, claudeFile, thread, threads, copies, newer,
                   sites, agentRun, knew, answeredBy>>

-----------------------------------------------------------------------------
(* A turn begins.                                                          *)

LastBy(b) == {n \in DOMAIN answeredBy : answeredBy[n] = b}
\* The other backend answered since this one last did: a resumed log has none of it.
Behind(b) ==
    \E n \in DOMAIN answeredBy :
        answeredBy[n] \notin {b, "none"} /\ \A m \in LastBy(b) : m < n

Begins(b, isNew, thr, tells) ==
    /\ agentRun = NoRun /\ backend = b /\ spoken < MaxSpoken /\ spoken' = spoken + 1
    /\ agentRun' = [at |-> b, fresh |-> isNew, thread |-> thr, tells |-> tells]
    /\ knew' = Append(knew, tells) /\ answeredBy' = Append(answeredBy, "none")
    /\ UNCHANGED <<backend, home, moves>>

\* format_handoff: the last turns, and of those as many as the budget of characters allows.
LastTurns(log, budget) == SubSeq(log, IF budget < Len(log) THEN Len(log) - budget + 1 ELSE 1,
                                 Len(log))
\* prepend_latest_handoff
Handoff(log, budget) == Told(LastTurns(log, budget))
Shortened(log, budget) == IF budget < Len(log) THEN {"cut"} ELSE {}

\* read_thread_id
Mapped == thread # 0

\* extract_codex: the newest rollout of the mapped thread, in whichever home.
CodexTurns == IF ~Mapped THEN <<>> ELSE copies[newer[thread]][thread]

ClaudeResumes ==
    /\ claudeFile
    /\ Begins("claude", FALSE, 0, Told(claudeLog))
    /\ gaps' = IF Behind("claude") THEN gaps \union {"behind"} ELSE gaps
    /\ UNCHANGED <<claudeLog, claudeFile, thread, threads, copies, newer, sites>>

ClaudeStarts(budget) ==
    /\ ~claudeFile
    /\ Begins("claude", TRUE, 0, Handoff(CodexTurns, budget))
    /\ gaps' = gaps \union Shortened(CodexTurns, budget)
    /\ UNCHANGED <<claudeLog, claudeFile, thread, threads, copies, newer, sites>>

\* Mutant: the mapping alone decides, as before homes could move.
ResumableByMapping(t) == t # 0
\* adopt_rollout: there, or copied from the shared tree.
Resumable(t) == copies[home][t] # <<>> \/ copies["shared"][t] # <<>>

\* _clear_link_site may fail, and what stands in the place of the link stays.
Stands(s, cleared) == s = "AGENTS.md" /\ sites[s] = "real" /\ ~cleared
\* _merge_shared_dir: in a directory it shares, what codex made there itself stays.
CodexMade(s) == s = "skill" /\ sites[s] = "real"

\* ensure_home: the shared entries are linked again.
Linked(cleared) ==
    sites' = [s \in Sites |->
                 IF home = "shared" \/ Stands(s, cleared) \/ CodexMade(s) THEN sites[s]
                 ELSE "link"]

CodexResumes(cleared) ==
    /\ Mapped /\ Resumable(thread) /\ Linked(cleared)
    /\ LET found == IF copies[home][thread] # <<>> THEN copies[home][thread]
                    ELSE copies["shared"][thread]
       IN  /\ Begins("codex", FALSE, thread, Told(found))
           /\ copies' = [copies EXCEPT ![home][thread] = found]
           /\ newer' = IF copies[home][thread] # <<>> THEN newer
                       ELSE [newer EXCEPT ![thread] = home]
    /\ gaps' = IF Behind("codex") THEN gaps \union {"behind"} ELSE gaps
    /\ UNCHANGED <<claudeLog, claudeFile, thread, threads>>

\* A rollout that is nowhere, or cannot be copied, ends the thread.
CodexStarts(budget, cleared) ==
    /\ Mapped => copies[home][thread] = <<>>
    /\ gaps' = gaps \union Shortened(claudeLog, budget)
    /\ Begins("codex", TRUE, 0, Handoff(claudeLog, budget)) /\ Linked(cleared)
    /\ thread' = 0
    /\ UNCHANGED <<claudeLog, claudeFile, threads, copies, newer>>

-----------------------------------------------------------------------------
(* A turn ends.                                                            *)

RunEnds(verdict) ==
    /\ agentRun' = NoRun
    /\ answeredBy' = [answeredBy EXCEPT ![spoken] = verdict]
    /\ UNCHANGED <<backend, home, moves, spoken, knew>>
Entry == {spoken} \union (IF agentRun.fresh THEN agentRun.tells ELSE {})

\* An empty file is resumed, and claude refuses it.
ClaudeAnswers ==
    /\ agentRun.at = "claude" /\ (claudeFile => claudeLog # <<>>) /\ RunEnds("claude")
    /\ claudeLog' = Append(claudeLog, Entry) /\ claudeFile' = TRUE
    /\ UNCHANGED <<thread, threads, copies, newer, sites, gaps>>

\* With its prompt in the log, with nothing, or with an empty file.
ClaudeFails ==
    /\ agentRun.at = "claude" /\ RunEnds("none")
    /\ \/ /\ claudeFile => claudeLog # <<>>
          /\ claudeLog' = Append(claudeLog, Entry) /\ claudeFile' = TRUE
       \/ claudeLog' = claudeLog /\ claudeFile' \in {claudeFile, TRUE}
    /\ UNCHANGED <<thread, threads, copies, newer, sites, gaps>>

\* The rollout the run writes: of the resumed thread, or of a new one.
Writing == IF agentRun.fresh THEN threads + 1 ELSE agentRun.thread
Appends(entry) ==
    /\ copies' = [copies EXCEPT ![home][Writing] = Append(@, entry)]
    /\ newer' = [newer EXCEPT ![Writing] = home]
    /\ threads' = IF agentRun.fresh THEN threads + 1 ELSE threads

\* Codex, in a home of its own, may put files where the links are.
Tampers == sites' \in {sites} \union
             (IF home = "own" THEN {[sites EXCEPT ![s] = "real"] : s \in Sites} ELSE {})

\* write_thread_id
Maps == thread' = Writing

\* The mapping is written after the run, also that of an account that ran out.
CodexAnswers(verdict) ==
    /\ agentRun.at = "codex" /\ verdict \in {"codex", "none"} /\ Appends(Entry)
    /\ Maps /\ Tampers /\ RunEnds(verdict)
    /\ UNCHANGED <<claudeLog, claudeFile, gaps>>

\* A timeout, an error or a kill: a new thread is written by nobody.
CodexFails ==
    /\ agentRun.at = "codex" /\ Tampers /\ RunEnds("none")
    /\ \/ Appends(Entry)
       \/ UNCHANGED <<copies, newer, threads>>
    /\ UNCHANGED <<claudeLog, claudeFile, thread, gaps>>

-----------------------------------------------------------------------------
(* Codex compacts by a run that is stopped at its first turn_context.      *)

\* The file that is watched is the newest of the thread, the one that is resumed the home's.
Watched(t) == newer[t]

CodexCompacts ==
    /\ agentRun = NoRun /\ backend = "codex" /\ Mapped
    /\ copies[Watched(thread)][thread] # <<>> /\ copies[home][thread] # <<>>
    /\ Len(copies[home][thread]) <= MaxSpoken
    /\ newer' = [newer EXCEPT ![thread] = home]
    /\ IF Watched(thread) = home THEN UNCHANGED copies
       ELSE copies' = [copies EXCEPT ![home][thread] = Append(@, {0})]
    /\ UNCHANGED <<backend, home, moves, spoken, claudeLog, claudeFile, thread, threads, sites,
                   agentRun, knew, answeredBy, gaps>>

MemoryNext ==
    \/ ChangesBackend \/ MovesHome \/ ClaudeResumes \/ ClaudeAnswers \/ ClaudeFails
    \/ CodexFails \/ CodexCompacts
    \/ \E cleared \in BOOLEAN :
         \/ CodexResumes(cleared)
         \/ \E budget \in 0..HandoffTurns : CodexStarts(budget, cleared)
    \/ \E budget \in 0..HandoffTurns : ClaudeStarts(budget)
    \/ \E verdict \in {"codex", "none"} : CodexAnswers(verdict)

MemorySpec == MemoryInit /\ [][MemoryNext]_memoryVars

-----------------------------------------------------------------------------
\* The types of the variables.
MemoryTypeOK ==
    /\ backend \in {"claude", "codex"} /\ home \in Homes /\ moves \in 0..MaxMoves
    /\ spoken \in 0..MaxSpoken /\ claudeFile \in BOOLEAN
    /\ {thread, threads} \subseteq 0..MaxSpoken
    /\ newer \in [1..MaxSpoken -> Homes]
    /\ sites \in [Sites -> {"none", "link", "real"}]
    /\ agentRun.at \in {"idle", "claude", "codex"}
    /\ \A n \in DOMAIN knew : knew[n] \subseteq 0..(n - 1)
    /\ gaps \subseteq {"moved", "behind", "cut"}

\* A codex run that resumes finds its rollout in the home it is given, and does not fail
\* with "no rollout found".
ResumesWhatIsThere ==
    agentRun.at = "codex" /\ ~agentRun.fresh => copies[home][agentRun.thread] # <<>>

\* A turn's agent has been told of every turn answered before it, unless the home moved, a
\* handoff was cut, or a backend came back after the other had answered.
KnowsTheConversation ==
    gaps = {} => \A n \in DOMAIN knew :
        answeredBy[n] # "none" => {m \in 1..(n - 1) : answeredBy[m] # "none"} \subseteq knew[n]

\* A compaction's trigger never becomes a turn of the chat, unless the home moved: codex is
\* stopped before it asks its model.
CompactionAsksNothing ==
    "moved" \notin gaps => \A h \in Homes, t \in 1..MaxSpoken : 0 \notin Told(copies[h][t])

MemoryIsKept == ResumesWhatIsThere /\ KnowsTheConversation /\ CompactionAsksNothing
=============================================================================
