---------------------------- MODULE TurnProgress ----------------------------
(***************************************************************************)
(* What one Slack thread shows of one turn: the agent's narration, held    *)
(* back until a tool call proves it is not the answer (agent.InterimRelay),*)
(* coalesced and paced (interim.InterimProgress), appended to a progress   *)
(* message (SlackFrontend.send_progress), and then the reply with its      *)
(* files, in the order Orchestrator._process gives them.  A call to Slack  *)
(* may be refused, be applied and still fail, or be applied twice by the   *)
(* client's retry after a timeout; a cancelled call may land later.  A     *)
(* block of text is its number; the thread keeps the order of its posts.   *)
(***************************************************************************)
EXTENDS Naturals, Sequences, FiniteSets, SequencesExt

CONSTANTS
    MaxSaid,      \* bound on the text blocks of the turn
    DigestLines,  \* INTERIM_DIGEST_LINES
    QueueMax,     \* INTERIM_QUEUE_MAX
    Warmup,       \* COTF_INTERIM_WARMUP_SECONDS, in minutes
    MinGap,       \* COTF_INTERIM_MIN_GAP_SECONDS, in minutes
    FitLines,     \* blocks one progress message holds
    MaxMinutes,   \* bound on the turn's length
    OutFiles      \* files the agent leaves in its outbox

ASSUME ProgressAssumption ==
    /\ {MaxSaid, Warmup, MinGap, FitLines, MaxMinutes} \subseteq Nat
    /\ {DigestLines, QueueMax} \subseteq Nat \ {0}

VARIABLES
    said,                \* text blocks in the agent's stream so far
    unproved,            \* InterimRelay._pending
    progress,            \* InterimProgress: held, fresh, queue, last, shut, draining
    minutes,             \* time since the turn began
    upshot,              \* of the agent's run: "running", "answered", "failed", "stopped"
    tailStep,            \* of _process: "running", "closing", "replying", "uploading",
                         \* "ending", "over"
    apiCall,             \* the drain's call to Slack, or NoCall
    lateCall,            \* a cancelled call Slack may still apply, or NoCall
    newest,              \* _progress_messages[chat_id][-1], or NoMessage
    threadShows,         \* the thread: messages of a kind, with their blocks
    silenced,            \* _in_flight_reply_suppressed
    uploaded, archived,  \* files in the thread, files moved out of the outbox
    mishaps              \* ghost: what went wrong so far

progressVars == <<said, unproved, progress, minutes, upshot, tailStep, apiCall,
                  lateCall, newest, threadShows, silenced, uploaded, archived, mishaps>>

NoApiCall == [op |-> "none", at |-> 0, lines |-> <<>>, chunk |-> <<>>]
NoMessage == [at |-> 0, lines |-> <<>>]
NeverPosted == MaxMinutes + 1

ProgressInit ==
    /\ said = 0 /\ unproved = <<>> /\ minutes = 0
    /\ progress = [held |-> <<>>, fresh |-> 0, queue |-> <<>>, last |-> NeverPosted,
                   shut |-> FALSE, draining |-> TRUE]
    /\ upshot = "running" /\ tailStep = "running"
    /\ apiCall = NoApiCall /\ lateCall = NoApiCall /\ newest = NoMessage
    /\ threadShows = <<>> /\ silenced \in BOOLEAN
    /\ uploaded = {} /\ archived = {} /\ mishaps = {}

inThread == <<apiCall, lateCall, newest, threadShows, silenced, uploaded, archived>>

-----------------------------------------------------------------------------
(* The recorder of one turn's narration.                                   *)

WarmedUp == minutes >= Warmup

\* _post_buffer: a chunk the queue has no room for stays held, but is no longer
\* fresh.
PostBuffer(r) ==
    IF r.fresh = 0 THEN r
    ELSE IF Len(r.queue) >= QueueMax THEN [r EXCEPT !.fresh = 0]
    ELSE [r EXCEPT !.fresh = 0, !.queue = Append(@, r.held), !.held = <<>>,
                   !.last = minutes]

FlushIfDue(r) ==
    IF r.shut \/ ~WarmedUp \/ (r.last # NeverPosted /\ minutes - r.last < MinGap)
    THEN r ELSE PostBuffer(r)

NewestDigest(lines) == IF Len(lines) > DigestLines THEN Tail(lines) ELSE lines

Emit(r, block) ==
    IF r.shut THEN r
    ELSE FlushIfDue([r EXCEPT !.held = NewestDigest(Append(@, block)), !.fresh = @ + 1])

\* aclose: nothing more is accepted; a turn that failed releases what is held.
Shut(r, flush) ==
    IF flush /\ WarmedUp THEN PostBuffer([r EXCEPT !.shut = TRUE])
    ELSE [r EXCEPT !.shut = TRUE, !.fresh = 0]

\* The queue has no room: what is flushed now is held and forgotten.
Overflows(r) == IF Len(r.queue) >= QueueMax THEN {"overflow"} ELSE {}

-----------------------------------------------------------------------------
(* The agent's stream.                                                     *)

Says ==
    /\ upshot = "running" /\ said < MaxSaid
    /\ said' = said + 1 /\ unproved' = Append(unproved, said + 1)
    /\ UNCHANGED <<progress, minutes, upshot, tailStep, mishaps, inThread>>

\* One block after the other, in the order they were said.
EmittedAll ==
    LET upTo[i \in 0..Len(unproved)] ==
            IF i = 0 THEN progress ELSE Emit(upTo[i - 1], unproved[i])
    IN  upTo[Len(unproved)]

\* A tool call proves that the blocks before it were narration.
CallsTool ==
    /\ upshot = "running" /\ unproved # <<>>
    /\ progress' = EmittedAll /\ unproved' = <<>>
    /\ mishaps' = mishaps \union Overflows(progress')
    /\ UNCHANGED <<said, minutes, upshot, tailStep, inThread>>

MinutePasses ==
    /\ upshot = "running" /\ minutes < MaxMinutes /\ minutes' = minutes + 1
    /\ UNCHANGED <<said, unproved, progress, upshot, tailStep, mishaps, inThread>>

\* agent.run returns or raises, and _process closes the recorder.
Ends(how) ==
    /\ upshot = "running" /\ upshot' = how /\ tailStep' = "closing"
    /\ progress' = Shut(progress, how = "failed")
    /\ mishaps' = mishaps \union Overflows(progress)
    /\ UNCHANGED <<said, unproved, minutes, inThread>>

-----------------------------------------------------------------------------
(* The drain task and its calls to Slack.                                  *)

\* A tick with nothing queued.
DrainTicks ==
    /\ progress.draining /\ apiCall = NoApiCall /\ progress.queue = <<>>
    /\ progress' = FlushIfDue(progress) /\ progress' # progress
    /\ UNCHANGED <<said, unproved, minutes, upshot, tailStep, mishaps, inThread>>

\* send_progress: a chunk that fits goes into the newest message.
CallFor(chunk) ==
    IF newest # NoMessage /\ Len(newest.lines) + Len(chunk) <= FitLines
    THEN [op |-> "edit", at |-> newest.at, lines |-> newest.lines \o chunk, chunk |-> chunk]
    ELSE [op |-> "post", at |-> 0, lines |-> chunk, chunk |-> chunk]

DrainTakes ==
    /\ progress.draining /\ apiCall = NoApiCall /\ progress.queue # <<>>
    /\ progress' = [progress EXCEPT !.queue = Tail(@)]
    /\ apiCall' = IF silenced THEN NoApiCall ELSE CallFor(Head(progress.queue))
    /\ UNCHANGED <<said, unproved, minutes, upshot, tailStep, lateCall, newest, threadShows,
                   silenced, uploaded, archived, mishaps>>

Message(kind, lines) == [kind |-> kind, lines |-> lines]

Applied(shows, call) ==
    CASE call.op = "edit" -> [shows EXCEPT ![call.at].lines = call.lines]
      [] call.op = "post" -> Append(shows, Message("progress", call.lines))
      [] OTHER -> shows

\* chat_update; when it fails the chunk is posted as a message of its own.
EditAnswers(outcome) ==
    /\ apiCall.op = "edit"
    /\ threadShows' = IF outcome = "refused" THEN threadShows
                       ELSE Applied(threadShows, apiCall)
    /\ IF outcome = "ok"
       THEN newest' = [newest EXCEPT !.lines = apiCall.lines] /\ apiCall' = NoApiCall
       ELSE /\ apiCall' = [op |-> "post", at |-> 0, lines |-> apiCall.chunk,
                           chunk |-> apiCall.chunk]
            /\ newest' = newest
    /\ mishaps' = mishaps \union ({outcome} \ {"ok", "refused"})
    /\ UNCHANGED <<said, unproved, progress, minutes, upshot, tailStep, lateCall, silenced,
                   uploaded, archived>>

\* chat_postMessage, and the client's retry of one that timed out.
PostAnswers(outcome) ==
    /\ apiCall.op = "post" /\ apiCall' = NoApiCall
    /\ threadShows' = CASE outcome = "lost" -> threadShows
                        [] outcome = "twice" -> Applied(Applied(threadShows, apiCall), apiCall)
                        [] OTHER -> Applied(threadShows, apiCall)
    /\ newest' = IF outcome \in {"ok", "twice"}
                 THEN [at |-> Len(threadShows'), lines |-> apiCall.lines] ELSE newest
    /\ mishaps' = mishaps \union ({outcome} \ {"ok"})
    /\ UNCHANGED <<said, unproved, progress, minutes, upshot, tailStep, lateCall, silenced,
                   uploaded, archived>>

\* The request of a cancelled call is already with Slack.
LateLands ==
    /\ lateCall # NoApiCall /\ lateCall' = NoApiCall
    /\ threadShows' = Applied(threadShows, lateCall)
    /\ UNCHANGED <<said, unproved, progress, minutes, upshot, tailStep, apiCall, newest,
                   silenced, uploaded, archived, mishaps>>

-----------------------------------------------------------------------------
(* The end of the turn.                                                    *)

CutInterim ==
    /\ progress' = [progress EXCEPT !.draining = FALSE, !.shut = TRUE, !.queue = <<>>]
    /\ apiCall' = NoApiCall /\ lateCall' = IF apiCall = NoApiCall THEN lateCall ELSE apiCall

Settled == progress.queue = <<>> /\ apiCall = NoApiCall

\* Mutant: closing looks at the queue and not at the call under way.
JoinedOnceTaken ==
    /\ tailStep = "closing" /\ progress.queue = <<>> /\ CutInterim
    /\ tailStep' = "replying"
    /\ UNCHANGED <<said, unproved, minutes, upshot, newest, threadShows, silenced,
                   uploaded, archived, mishaps>>

\* aclose waits for what is queued and for the call under way, then stops the drain.
Joined ==
    /\ tailStep = "closing" /\ Settled /\ CutInterim
    /\ tailStep' = "replying"
    /\ UNCHANGED <<said, unproved, minutes, upshot, newest, threadShows, silenced,
                   uploaded, archived, mishaps>>
GivesUp ==
    /\ tailStep = "closing" /\ ~Settled /\ CutInterim
    /\ tailStep' = "replying" /\ mishaps' = mishaps \union {"gaveUp"}
    /\ UNCHANGED <<said, unproved, minutes, upshot, newest, threadShows, silenced,
                   uploaded, archived>>

\* A stop cancels the turn wherever it is; the finally still ends its progress.
TurnStopped ==
    /\ tailStep \in {"running", "closing", "replying", "uploading"} /\ CutInterim
    /\ tailStep' = "ending" /\ upshot' = "stopped"
    /\ mishaps' = mishaps \union {"stopped"}
    /\ UNCHANGED <<said, unproved, minutes, newest, threadShows, silenced, uploaded, archived>>

Outbox == IF upshot = "answered" THEN OutFiles ELSE {}

\* send, for the reply and for an error's text alike.
Reply(outcome) ==
    /\ tailStep = "replying" /\ ~silenced
    /\ threadShows' = threadShows \o
         (CASE outcome = "ok" -> <<Message("reply", <<>>)>>
            [] outcome = "twice" -> <<Message("reply", <<>>), Message("reply", <<>>)>>
            [] outcome = "unsure" -> <<Message("reply", <<>>), Message("notice", <<>>)>>
            [] outcome = "lost" -> <<Message("notice", <<>>)>>)
    /\ tailStep' = IF outcome \in {"ok", "twice"} THEN "uploading" ELSE "ending"
    /\ mishaps' = mishaps \union (CASE outcome = "twice" -> {"replyTwice"} [] OTHER -> {})
    /\ UNCHANGED <<said, unproved, progress, minutes, upshot, apiCall, lateCall, newest,
                   silenced, uploaded, archived>>

\* A silenced sender gets no reply, and its files count as handed off.
ReplySilenced ==
    /\ tailStep = "replying" /\ silenced /\ tailStep' = "ending"
    /\ archived' = Outbox
    /\ UNCHANGED <<said, unproved, progress, minutes, upshot, apiCall, lateCall, newest,
                   threadShows, silenced, uploaded, mishaps>>

\* _upload_attachments goes on after a file that fails; archive_outbox moves
\* every file send returned.
Uploads(file) ==
    /\ tailStep = "uploading" /\ file \in Outbox \ uploaded
    /\ uploaded' = uploaded \union {file}
    /\ UNCHANGED <<said, unproved, progress, minutes, upshot, tailStep, apiCall, lateCall,
                   newest, threadShows, silenced, archived, mishaps>>
Archives ==
    /\ tailStep = "uploading" /\ tailStep' = "ending"
    /\ archived' = Outbox
    /\ UNCHANGED <<said, unproved, progress, minutes, upshot, apiCall, lateCall, newest,
                   threadShows, silenced, uploaded, mishaps>>

\* end_progress: the newest message is written once more, with a last line.
EndsProgress(outcome) ==
    /\ tailStep = "ending" /\ tailStep' = "over" /\ newest' = NoMessage
    /\ threadShows' = IF outcome = "ok" /\ newest # NoMessage
                      THEN [threadShows EXCEPT ![newest.at].lines = newest.lines]
                      ELSE threadShows
    /\ UNCHANGED <<said, unproved, progress, minutes, upshot, apiCall, lateCall, silenced,
                   uploaded, archived, mishaps>>

ProgressNext ==
    \/ Says \/ CallsTool \/ MinutePasses \/ \E how \in {"answered", "failed"} : Ends(how)
    \/ DrainTicks \/ DrainTakes
    \/ \E outcome \in {"ok", "refused", "unsure"} : EditAnswers(outcome)
    \/ \E outcome \in {"ok", "lost", "unsure", "twice"} : PostAnswers(outcome)
    \/ LateLands
    \/ Joined \/ GivesUp \/ TurnStopped
    \/ \E outcome \in {"ok", "lost", "unsure", "twice"} : Reply(outcome)
    \/ ReplySilenced
    \/ \E file \in OutFiles : Uploads(file)
    \/ Archives
    \/ \E outcome \in {"ok", "lost"} : EndsProgress(outcome)

ProgressSpec == ProgressInit /\ [][ProgressNext]_progressVars

-----------------------------------------------------------------------------
(* Properties.                                                             *)

ProgressTypeOK ==
    /\ said \in 0..MaxSaid /\ minutes \in 0..MaxMinutes
    /\ unproved \in Seq(1..MaxSaid)
    /\ progress.held \in Seq(1..MaxSaid) /\ Len(progress.held) <= DigestLines
    /\ Len(progress.queue) <= QueueMax /\ progress.fresh \in 0..MaxSaid
    /\ upshot \in {"running", "answered", "failed", "stopped"}
    /\ tailStep \in {"running", "closing", "replying", "uploading", "ending", "over"}
    /\ \A i \in 1..Len(threadShows) : threadShows[i].kind \in {"progress", "reply", "notice"}
    /\ newest.at \in 0..Len(threadShows)
    /\ uploaded \subseteq OutFiles /\ archived \subseteq OutFiles

\* The blocks of a message, and those the thread shows.
LinesAt(i) == threadShows[i].lines
Shown == UNION {ToSet(LinesAt(i)) : i \in 1..Len(threadShows)}

\* Short of a call whose outcome was not known, the thread tells each block once,
\* in the order the agent said them.
ToldOnceInOrder ==
    mishaps \intersect {"unsure", "twice", "gaveUp", "stopped"} = {}
        => \A i, j \in 1..Len(threadShows) :
           \A k \in 1..Len(LinesAt(i)), l \in 1..Len(LinesAt(j)) :
               i < j \/ (i = j /\ k < l) => LinesAt(i)[k] < LinesAt(j)[l]

\* No block the thread shows is the answer: the blocks no tool call followed.
AnswerIsNotNarrated == \A b \in Shown : \A j \in 1..Len(unproved) : b < unproved[j]

\* No progress message lands under the answer or the error, unless closing gave up
\* on a call.
NothingUnderTheReply ==
    mishaps \intersect {"gaveUp", "stopped"} = {}
        => \A i, j \in 1..Len(threadShows) :
               (i < j /\ threadShows[i].kind # "progress") => threadShows[j].kind # "progress"

\* A turn that fails after the warm-up has told its last narrated blocks by the time
\* it says so, unless Slack took none of them or the queue was full.
FailureTellsWhatWasHeld ==
    (/\ upshot = "failed" /\ tailStep = "replying" /\ WarmedUp /\ ~silenced
     /\ mishaps \intersect {"lost", "unsure", "gaveUp", "overflow"} = {})
        => LET proved == said - Len(unproved) IN
           \A b \in 1..proved : b + DigestLines > proved => b \in Shown

\* A file the thread has leaves the outbox with its turn, so the next turn does not
\* send it again, unless a stop came between.
UploadedIsArchived ==
    (tailStep = "over" /\ "stopped" \notin mishaps) => uploaded \subseteq archived

\* What one thread is told of a turn: interim.py, slack.py's send_progress and send,
\* and their order in Orchestrator._process.
TurnIsToldWell ==
    /\ ToldOnceInOrder /\ AnswerIsNotNarrated /\ NothingUnderTheReply
    /\ FailureTellsWhatWasHeld /\ UploadedIsArchived
=============================================================================
