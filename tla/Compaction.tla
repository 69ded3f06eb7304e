----------------------------- MODULE Compaction -----------------------------
(***************************************************************************)
(* When Orchestrator compacts a conversation: ahead of a message, once a   *)
(* turn has left the context over the threshold (on_message), and quietly, *)
(* in a chat nobody writes to, shortly before its prompt cache expires     *)
(* (compact_idle_chats).  Each chat has its queue and the task that drains *)
(* it, which exists before it first runs; a stop may come in between.      *)
(***************************************************************************)
EXTENDS Naturals, Sequences, FiniteSets

CONSTANTS
    Rooms,           \* the chats
    MaxWritten,      \* bound on the messages in all
    CacheTtl, Lead,  \* IdleReading.cache_ttl_s, COTF_IDLE_COMPACT_LEAD_MIN
    MaxQuiet,        \* IDLE_COMPACT_MAX_RUNNING
    MaxHour          \* bound on the clock

ASSUME CompactAssumption ==
    /\ IsFiniteSet(Rooms)
    /\ MaxWritten \in Nat /\ CacheTtl \in Nat /\ Lead \in Nat
    /\ MaxQuiet \in Nat /\ MaxHour \in Nat

VARIABLES
    line,                  \* per chat: what its queue holds
    drainAt,               \* per chat: its task, "none", "created", "running"
    atWork,                \* per chat: the turn in _process, or Rest
    context,               \* per chat: "none", "small", or "large", over the threshold
    idleSince,             \* per chat: when its last turn ended, or NotIdle
    quiet,                 \* _background
    held,                  \* per chat: the message on_message holds behind its compaction
    sentCount,             \* per chat: messages so far
    clockHour,             \* the clock
    noteTold,              \* the chats a shutdown told of their work, once it has
    down,                  \* the daemon is stopping
    large, bought,         \* ghost, per chat: large readings, and compactions for them
    ran,                   \* ghost, per chat: the messages in the order they started
    overtaken, dropped     \* ghost: chats where a message was overtaken while held, where
                           \* a stop dropped a quiet compaction before it began

compactVars == <<line, drainAt, atWork, context, idleSince, quiet, held, sentCount, clockHour,
                 noteTold, down, large, bought, ran, overtaken, dropped>>

Rest == <<"rest", 0>>
NotIdle == MaxHour + 1
ChatMessage(n) == <<"message", n>>
Visible == <<"compact", 0>>
Quiet == <<"quiet", 0>>
IsMessage(turn) == turn[1] = "message"

CompactInit ==
    /\ line = [c \in Rooms |-> <<>>] /\ drainAt = [c \in Rooms |-> "none"]
    /\ atWork = [c \in Rooms |-> Rest] /\ context = [c \in Rooms |-> "none"]
    /\ idleSince = [c \in Rooms |-> NotIdle] /\ quiet = {}
    /\ held = [c \in Rooms |-> 0] /\ sentCount = [c \in Rooms |-> 0]
    /\ clockHour = 0 /\ noteTold = {} /\ down = FALSE
    /\ large = [c \in Rooms |-> 0] /\ bought = [c \in Rooms |-> 0]
    /\ ran = [c \in Rooms |-> <<>>] /\ overtaken = {} /\ dropped = {}

Busy(c) == drainAt[c] # "none"

\* _enqueue: the task that drains the queue is created when there is none.
Enqueued(c, turns) ==
    /\ line' = [line EXCEPT ![c] = @ \o turns]
    /\ drainAt' = [drainAt EXCEPT ![c] = IF @ = "none" THEN "created" ELSE @]

-----------------------------------------------------------------------------
(* Messages.                                                               *)

AnotherMessage ==
    Cardinality({m \in Rooms \X (1..MaxWritten) : m[2] <= sentCount[m[1]]}) < MaxWritten

\* A message with no compaction due before it.
Write(c) ==
    /\ AnotherMessage /\ context[c] # "large"
    /\ sentCount' = [sentCount EXCEPT ![c] = @ + 1]
    /\ Enqueued(c, <<ChatMessage(sentCount[c] + 1)>>)
    /\ overtaken' = IF held[c] = 0 THEN overtaken ELSE overtaken \union {c}
    /\ UNCHANGED <<atWork, context, idleSince, quiet, held, clockHour, noteTold, down, large,
                   bought, ran, dropped>>

\* _due_for_compaction consumes the reading.  In a busy chat on_compact waits for the
\* frontend to say the compaction is queued, and only then is the message.
WriteDue(c) ==
    /\ AnotherMessage /\ context[c] = "large" /\ held[c] = 0
    /\ sentCount' = [sentCount EXCEPT ![c] = @ + 1]
    /\ context' = [context EXCEPT ![c] = "none"]
    /\ bought' = [bought EXCEPT ![c] = @ + 1]
    /\ IF Busy(c)
       THEN Enqueued(c, <<Visible>>) /\ held' = [held EXCEPT ![c] = sentCount[c] + 1]
       ELSE Enqueued(c, <<Visible, ChatMessage(sentCount[c] + 1)>>) /\ held' = held
    /\ UNCHANGED <<atWork, idleSince, quiet, clockHour, noteTold, down, large, ran, overtaken,
                   dropped>>

HeldGoesOn(c) ==
    /\ held[c] # 0 /\ held' = [held EXCEPT ![c] = 0]
    /\ Enqueued(c, <<ChatMessage(held[c])>>)
    /\ UNCHANGED <<atWork, context, idleSince, quiet, sentCount, clockHour, noteTold, down,
                   large, bought, ran, overtaken, dropped>>

-----------------------------------------------------------------------------
(* Turns.                                                                  *)

\* _drain takes the next turn; _process drops the idle reading, and a compaction the
\* context's.
Begin(c) ==
    /\ drainAt[c] # "none" /\ atWork[c] = Rest /\ line[c] # <<>>
    /\ drainAt' = [drainAt EXCEPT ![c] = "running"]
    /\ atWork' = [atWork EXCEPT ![c] = Head(line[c])] /\ line' = [line EXCEPT ![c] = Tail(@)]
    /\ idleSince' = [idleSince EXCEPT ![c] = NotIdle]
    /\ context' = IF IsMessage(Head(line[c])) THEN context ELSE [context EXCEPT ![c] = "none"]
    /\ ran' = IF IsMessage(Head(line[c]))
              THEN [ran EXCEPT ![c] = Append(@, Head(line[c])[2])] ELSE ran
    /\ UNCHANGED <<quiet, held, sentCount, clockHour, noteTold, down, large, bought, overtaken,
                   dropped>>

\* The turn is over, and the drain goes on or ends.
Over(c) ==
    /\ atWork' = [atWork EXCEPT ![c] = Rest]
    /\ drainAt' = [drainAt EXCEPT ![c] = IF line[c] = <<>> THEN "none" ELSE "running"]
    /\ quiet' = IF atWork[c] = Quiet THEN quiet \ {c} ELSE quiet

CompactAnswered(c, size) ==
    /\ IsMessage(atWork[c]) /\ Over(c)
    /\ context' = [context EXCEPT ![c] = size]
    /\ idleSince' = [idleSince EXCEPT ![c] = clockHour]
    /\ large' = IF size = "large" THEN [large EXCEPT ![c] = @ + 1] ELSE large
    /\ UNCHANGED <<line, held, sentCount, clockHour, noteTold, down, bought, ran, overtaken,
                   dropped>>

\* A compaction, or a turn that failed.
EndsUnmeasured(c) ==
    /\ atWork[c] # Rest /\ Over(c)
    /\ UNCHANGED <<line, context, idleSince, held, sentCount, clockHour, noteTold, down, large,
                   bought, ran, overtaken, dropped>>

\* abort: the queue is dropped and the task cancelled, also one that never ran.
AbortChat(c) ==
    /\ Busy(c) /\ line' = [line EXCEPT ![c] = <<>>]
    /\ drainAt' = [drainAt EXCEPT ![c] = "none"] /\ atWork' = [atWork EXCEPT ![c] = Rest]
    /\ quiet' = IF atWork[c] = Quiet THEN quiet \ {c} ELSE quiet
    /\ dropped' = IF c \in quiet' THEN dropped \union {c} ELSE dropped
    /\ UNCHANGED <<context, idleSince, held, sentCount, clockHour, noteTold, down, large,
                   bought, ran, overtaken>>

QuietHourPasses ==
    /\ clockHour < MaxHour /\ clockHour' = clockHour + 1
    /\ UNCHANGED <<line, drainAt, atWork, context, idleSince, quiet, held, sentCount, noteTold,
                   down, large, bought, ran, overtaken, dropped>>

-----------------------------------------------------------------------------
(* Idle compaction, and the shutdown's notices.                            *)

Expired(c) == idleSince[c] # NotIdle /\ clockHour - idleSince[c] >= CacheTtl

\* _idle_compact_due: in the window before the cache's end, and nobody there.
IsDue(c) ==
    /\ idleSince[c] # NotIdle /\ ~Expired(c)
    /\ CacheTtl > Lead /\ clockHour - idleSince[c] >= CacheTtl - Lead
    /\ ~Busy(c) /\ line[c] = <<>>
Due == {c \in Rooms : IsDue(c)}

StillQuiet == {c \in quiet : Busy(c)}

\* Those whose cache expires first, as many as the cap leaves room for.
Chosen(chats) ==
    /\ chats \subseteq Due
    /\ \A c \in chats, d \in Due \ chats : idleSince[c] <= idleSince[d]
    /\ Cardinality(chats) + Cardinality(StillQuiet) <= MaxQuiet
    /\ chats # Due => Cardinality(chats) + Cardinality(StillQuiet) = MaxQuiet

\* Mutant: the context's reading is left for the next message.
CompactIdleKeepsReading(chats) ==
    /\ Chosen(chats)
    /\ quiet' = StillQuiet \union chats
    /\ idleSince' = [c \in Rooms |->
                      IF c \in chats \/ Expired(c) THEN NotIdle ELSE idleSince[c]]
    /\ bought' = [c \in Rooms |-> IF c \in chats /\ context[c] = "large" THEN bought[c] + 1
                                  ELSE bought[c]]
    /\ line' = [c \in Rooms |-> IF c \in chats THEN <<Quiet>> ELSE line[c]]
    /\ drainAt' = [c \in Rooms |-> IF c \in chats THEN "created" ELSE drainAt[c]]
    /\ UNCHANGED <<atWork, context, held, sentCount, clockHour, noteTold, down, large, ran,
                   overtaken, dropped>>

\* compact_idle_chats; nothing in it waits, the chats it picks having no task.
CompactIdle(chats) ==
    /\ Chosen(chats)
    /\ quiet' = StillQuiet \union chats
    /\ idleSince' = [c \in Rooms |->
                      IF c \in chats \/ Expired(c) THEN NotIdle ELSE idleSince[c]]
    /\ bought' = [c \in Rooms |-> IF c \in chats /\ context[c] = "large" THEN bought[c] + 1
                                  ELSE bought[c]]
    /\ context' = [c \in Rooms |-> IF c \in chats THEN "none" ELSE context[c]]
    /\ line' = [c \in Rooms |-> IF c \in chats THEN <<Quiet>> ELSE line[c]]
    /\ drainAt' = [c \in Rooms |-> IF c \in chats THEN "created" ELSE drainAt[c]]
    /\ UNCHANGED <<atWork, held, sentCount, clockHour, noteTold, down, large, ran, overtaken,
                   dropped>>

\* interrupted_chats: a chat whose task runs and is no idle compaction, or with a queue.
Shutdown ==
    /\ down' = TRUE
    /\ noteTold' = {c \in Rooms : (Busy(c) /\ c \notin quiet) \/ line[c] # <<>>}
    /\ UNCHANGED <<line, drainAt, atWork, context, idleSince, quiet, held, sentCount,
                   clockHour, large, bought, ran, overtaken, dropped>>

Acts ==
    \/ \E c \in Rooms : Write(c) \/ WriteDue(c) \/ HeldGoesOn(c) \/ Begin(c)
                        \/ EndsUnmeasured(c) \/ AbortChat(c)
    \/ \E c \in Rooms, size \in {"small", "large"} : CompactAnswered(c, size)
    \/ QuietHourPasses \/ \E chats \in SUBSET Rooms : CompactIdle(chats)
    \/ Shutdown

CompactNext == ~down /\ Acts

CompactSpec == CompactInit /\ [][CompactNext]_compactVars

-----------------------------------------------------------------------------
(* Properties.                                                             *)

CompactTypeOK ==
    /\ \A c \in Rooms :
        /\ drainAt[c] \in {"none", "created", "running"}
        /\ context[c] \in {"none", "small", "large"}
        /\ idleSince[c] \in 0..NotIdle /\ sentCount[c] \in 0..MaxWritten
        /\ atWork[c] # Rest => drainAt[c] = "running"
        /\ line[c] # <<>> => Busy(c)
    /\ quiet \subseteq Rooms /\ noteTold \subseteq Rooms /\ clockHour \in 0..MaxHour

\* A reading over the threshold buys one compaction: two messages at once, or a message
\* and the idle loop, do not pay for two.
OneCompactionPerReading == \A c \in Rooms : bought[c] <= large[c]

\* A chat's messages run in the order they came, unless one was held while its
\* compaction was announced in a busy chat.
MessagesInOrder ==
    \A c \in Rooms \ overtaken : \A i, j \in 1..Len(ran[c]) : i < j => ran[c][i] < ran[c][j]

\* No more chats are compacted at once, unasked, than the cap allows.
QuietWithinTheCap ==
    Cardinality({c \in Rooms :
                    atWork[c] = Quiet \/ Quiet \in {line[c][i] : i \in 1..Len(line[c])}})
        <= MaxQuiet

\* A stop tells everyone whose message was being answered or was waiting, unless a
\* compaction of that chat was dropped before it began.
WorkInHandIsTold ==
    down => \A c \in Rooms \ dropped :
                (IsMessage(atWork[c]) \/ \E i \in 1..Len(line[c]) : IsMessage(line[c][i]))
                    => c \in noteTold

\* Compaction costs what it is worth and is nobody's surprise (orchestrator.py's
\* on_message, compact_idle_chats, abort and interrupted_chats together).
CompactsAsDue ==
    /\ OneCompactionPerReading /\ MessagesInOrder /\ QuietWithinTheCap
    /\ WorkInHandIsTold
=============================================================================
