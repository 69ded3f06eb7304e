-------------------------- MODULE AccountFallback --------------------------
(***************************************************************************)
(* The prompts one turn sends when accounts run out and models are busy:   *)
(* account_fallback.run moves on through the pool of accounts; inside each *)
(* attempt the codex backend resumes a thread its overloaded model left    *)
(* (_run_with_capacity_retry) and asks again when no reply came (run).     *)
(* A run of the agent is one step; what matters of it is how it ended and  *)
(* what its record tells of the tools it used.                             *)
(***************************************************************************)
EXTENDS Naturals, FiniteSets

CONSTANTS
    PoolSize,  \* how many accounts the fallback pool lists
    Retries,   \* len(CAPACITY_RETRY_DELAYS)
    MaxAsked   \* bound on the turns

ASSUME FallbackAssumption == PoolSize \in Nat \ {0} /\ {Retries, MaxAsked} \subseteq Nat

VARIABLES
    saved,          \* the saved selection: a position in the pool
    position,       \* how many candidates were tried before this one
    sending,        \* the prompt of the run under way, or "nothing"
    attemptPrompt,  \* attempt_prompt
    codexThread,    \* the session's thread id is known
    previous,       \* evidence of the runs the capacity retries resumed
    nudging,        \* no reply came, and the agent is asked once more
    nudged,         \* evidence of the runs before that
    tries,          \* capacity retries made
    ending,         \* how the turn ended, or "pending"
    broken,         \* config.yaml does not resolve at present
    asked,          \* turns so far
    worked,         \* ghost: a tool of this turn ran
    torn,           \* ghost: one has no durable result
    exhausted,      \* ghost: the accounts that ran out in this turn
    replied,        \* ghost: the agent's reply is there
    edited          \* ghost: config.yaml was broken during the turn

fallbackVars == <<saved, position, sending, attemptPrompt, codexThread, previous, nudging,
                  nudged, tries, ending, broken, asked, worked, torn, exhausted, replied,
                  edited>>

\* _quota_evidence: what a run's record tells of its tools.
Evidence(tools) == [started |-> tools # "none", ready |-> tools = "done"]
NoTools == Evidence("none")
Safe(evidence) == evidence.started => evidence.ready

\* A run after others of the same attempt: safe to resume when the later one is.
Continued(before, after) ==
    IF before.started THEN [started |-> TRUE, ready |-> Safe(after)] ELSE after

\* The mutant: the evidence is the last run's alone.
CombinedLastOnly(before, after) == after

\* The evidence a nudged run leaves: both it and the run before it must be safe.
Combined(before, after) ==
    [started |-> before.started \/ after.started,
     ready |-> Safe(before) /\ Safe(after) /\ (before.started \/ after.started)]

\* run: the account that selected turns begin with, and the rest of the pool in order.
Candidate(n) == ((saved + n - 1) % PoolSize) + 1

FallbackInit ==
    /\ saved = 1 /\ position = 0 /\ sending = "nothing" /\ attemptPrompt = "original"
    /\ codexThread = FALSE
    /\ previous = NoTools /\ nudging = FALSE /\ nudged = NoTools /\ tries = 0
    /\ ending = "unasked" /\ broken = FALSE /\ asked = 0
    /\ worked = FALSE /\ torn = FALSE /\ exhausted = {} /\ replied = FALSE /\ edited = FALSE

FreeAccounts == ending # "pending"

AskTurn ==
    /\ FreeAccounts /\ asked < MaxAsked /\ ~broken /\ asked' = asked + 1
    /\ position' = 0 /\ sending' = "original" /\ attemptPrompt' = "original"
    /\ previous' = NoTools /\ nudging' = FALSE /\ nudged' = NoTools /\ tries' = 0
    /\ ending' = "pending"
    /\ worked' = FALSE /\ torn' = FALSE /\ exhausted' = {} /\ replied' = FALSE
    /\ edited' = FALSE
    /\ UNCHANGED <<saved, codexThread, broken>>

\* config.yaml is read again for every turn, and edited while the daemon runs.
Edits ==
    /\ broken' = ~broken /\ edited' = TRUE
    /\ UNCHANGED <<saved, position, sending, attemptPrompt, codexThread, previous, nudging,
                   nudged, tries, ending, asked, worked, torn, exhausted, replied>>

\* What the run under way did: its tools, and whether its thread was seen.
RanWith(tools, seen) ==
    /\ ~FreeAccounts /\ sending # "nothing" /\ (tools # "none" => seen)
    /\ worked' = (worked \/ tools # "none") /\ torn' = (torn \/ tools = "torn")
    /\ codexThread' = (codexThread \/ seen)

Fails ==
    /\ sending' = "nothing" /\ ending' = "failed"

\* The evidence of the chain of runs that ends with this one.
Chain(tools) == Continued(previous, Evidence(tools))

\* The answer: remember the account that gave it, then read the profile for the label.
AnsweredBy ==
    /\ sending' = "nothing" /\ replied' = TRUE
    /\ ending' = IF broken THEN "failed" ELSE "answered"
    /\ saved' = Candidate(position)
    /\ UNCHANGED <<position, attemptPrompt, previous, nudging, nudged, tries, broken, asked,
                   exhausted, edited>>

Answers(tools, seen) == RanWith(tools, seen) /\ AnsweredBy

\* No reply at all: asked once more, when there is a thread to ask in.
Silent(tools, seen) ==
    /\ RanWith(tools, seen)
    /\ IF ~nudging /\ (codexThread \/ seen)
       THEN /\ sending' = "nudge" /\ nudging' = TRUE /\ nudged' = Chain(tools)
            /\ previous' = NoTools /\ tries' = 0
            /\ UNCHANGED <<saved, position, attemptPrompt, ending, broken, asked, exhausted,
                           replied, edited>>
       ELSE AnsweredBy

\* Mutant: the count is not looked at.
OverloadedForever(tools, seen) ==
    /\ RanWith(tools, seen)
    /\ IF (codexThread \/ seen) /\ Safe(Evidence(tools))
       THEN /\ sending' = "resume" /\ tries' = tries + 1 /\ previous' = Chain(tools)
            /\ ending' = ending
       ELSE Fails /\ UNCHANGED <<tries, previous>>
    /\ UNCHANGED <<saved, position, attemptPrompt, nudging, nudged, broken, asked, exhausted,
                   replied, edited>>

\* The model is at capacity: resumed in its thread while that repeats nothing.
Overloaded(tools, seen) ==
    /\ RanWith(tools, seen)
    /\ IF (codexThread \/ seen) /\ Safe(Evidence(tools)) /\ tries < Retries
       THEN /\ sending' = "resume" /\ tries' = tries + 1 /\ previous' = Chain(tools)
            /\ ending' = ending
       ELSE Fails /\ UNCHANGED <<tries, previous>>
    /\ UNCHANGED <<saved, position, attemptPrompt, nudging, nudged, broken, asked, exhausted,
                   replied, edited>>

\* The account is exhausted: the next one goes on with the work, if the record holds it.
Exhausts(tools, seen) ==
    /\ RanWith(tools, seen)
    /\ exhausted' = exhausted \union {Candidate(position)}
    /\ LET found == Combined(nudged, Chain(tools))
           prompt == IF found.started THEN "continue" ELSE attemptPrompt
       IN IF ~Safe(found) \/ position + 1 = PoolSize
          THEN Fails /\ UNCHANGED <<position, attemptPrompt, previous, nudging, nudged, tries>>
          ELSE /\ position' = position + 1 /\ attemptPrompt' = prompt /\ sending' = prompt
               /\ previous' = NoTools /\ nudging' = FALSE /\ nudged' = NoTools
               /\ tries' = 0 /\ ending' = ending
    /\ UNCHANGED <<saved, broken, asked, replied, edited>>

\* Another failure, a stop or the turn's deadline.
Breaks(tools, seen) ==
    /\ RanWith(tools, seen) /\ Fails
    /\ UNCHANGED <<saved, position, attemptPrompt, previous, nudging, nudged, tries, broken,
                   asked, exhausted, replied, edited>>

FallbackNext ==
    \/ AskTurn \/ Edits
    \/ \E tools \in {"none", "done", "torn"}, seen \in BOOLEAN :
         \/ Answers(tools, seen)
         \/ Silent(tools, seen)
         \/ Overloaded(tools, seen)
         \/ Exhausts(tools, seen)
         \/ Breaks(tools, seen)

FallbackSpec == FallbackInit /\ [][FallbackNext]_fallbackVars

-----------------------------------------------------------------------------
Prompts == {"original", "continue", "resume", "nudge"}
Evidences == {Evidence(tools) : tools \in {"none", "done", "torn"}}

\* The types of the variables.
FallbackTypeOK ==
    /\ {saved} \subseteq 1..PoolSize /\ position \in 0..(PoolSize - 1)
    /\ sending \in Prompts \union {"nothing"} /\ attemptPrompt \in {"original", "continue"}
    /\ {previous, nudged} \subseteq Evidences /\ tries \in 0..Retries
    /\ ending \in {"unasked", "pending", "answered", "failed"}
    /\ {codexThread, nudging, broken, worked, torn, replied, edited} \subseteq BOOLEAN
    /\ exhausted \subseteq 1..PoolSize /\ asked \in 0..MaxAsked

\* The request itself is sent again only while no tool of the turn has run, on whichever
\* account and in whichever of its runs ("to avoid repeated actions").
NothingIsRepeated == sending = "original" => ~worked

\* Another account, or the same after an overload, goes on only with work whose every
\* result the record holds.
NothingIsGuessed ==
    /\ sending = "continue" => worked /\ ~torn
    /\ sending = "resume" /\ ~nudging => ~torn

\* No account is tried twice in a turn.
EachAccountOnce == ending = "pending" => Cardinality(exhausted) = position

\* A reply that was made is posted, unless config.yaml stopped resolving meanwhile: the
\* profile is then read again after the agent returned, and the reply goes with it.
ReplyIsPosted == replied /\ ending = "failed" => edited

\* What the fallback keeps through every mix of exhausted accounts, overloads and nudges
\* (account_fallback.run, CodexBackend.run and _run_with_capacity_retry).
FallsBackSafely == NothingIsRepeated /\ NothingIsGuessed /\ EachAccountOnce /\ ReplyIsPosted

=============================================================================
