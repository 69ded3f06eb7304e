---------------------------- MODULE AgentsProofs ----------------------------
(***************************************************************************)
(* What serves the turns of agents keeps its promises, for every value of  *)
(* the constants: the ledger of process groups, the fallback over          *)
(* accounts, a login that daemons share, brokered commands, the egress     *)
(* proxy, the supervision of daemons and their start.  Each has an         *)
(* invariant of its own and a theorem about it; the last section puts them *)
(* together with the turns of AgentRunsProofs as MCAgents explores them.   *)
(***************************************************************************)
EXTENDS MCAgents, AgentRunsProofs

-----------------------------------------------------------------------------
(* OrphanLedger.  The invariant says, for each phase of the daemon, who     *)
(* still knows of an agent that runs: the file, the sweep that has read it, *)
(* the daemon itself, or the rewrite under way.                             *)

\* The daemon's own agents: of this life, and on file once they are announced.
Own(p, onFile) ==
    born[p] = life /\ (holds[p] = "spawned" \/ (holds[p] = "running" /\ p \in onFile))

KnownWhileDown == \A p \in Pids : groupAt[p] = "agent" => p \in ledger \/ p \in missed
KnownToTheSweep ==
    /\ entries \subseteq ledger
    /\ \A p \in Pids : groupAt[p] = "agent" => p \in entries \/ p \in missed
KnownAtWork == \A p \in Pids : groupAt[p] = "agent" => p \in missed \/ Own(p, ledger)
KnownWhileRewriting ==
    \A p \in Pids : groupAt[p] = "agent" => p \in missed \/ Own(p, remaining)

SomebodyKnows ==
    /\ phase = "down" => KnownWhileDown
    /\ phase = "sweeping" => KnownToTheSweep
    /\ phase = "up" => KnownAtWork
    /\ phase = "rewriting" => KnownWhileRewriting
    /\ phase \in {"down", "sweeping"} => HeldGroups = {}
    /\ phase # "rewriting" => remaining = {}

LedgerInv == LedgerTypeOK /\ SomebodyKnows /\ NoStrangerKilled

-----------------------------------------------------------------------------
LEMMA LedgerInitial == LedgerInit => LedgerInv
  BY LedgerAssumption DEF LedgerInit, LedgerInv, LedgerTypeOK, SomebodyKnows,
     NoStrangerKilled, KnownWhileDown, HeldGroups

LEMMA LedgerTyped == LedgerInv /\ [LedgerNext]_ledgerVars => LedgerTypeOK'
  <1> SUFFICES ASSUME LedgerTypeOK, [LedgerNext]_ledgerVars PROVE LedgerTypeOK'
    BY DEF LedgerInv
  <1> USE LedgerAssumption
  <1>1. CASE DaemonBoots
    BY <1>1 DEF DaemonBoots, LedgerTypeOK
  <1>2. CASE SweepEnds
    BY <1>2 DEF SweepEnds, LedgerTypeOK
  <1>3. CASE DaemonKilled
    BY <1>3 DEF DaemonKilled, LedgerTypeOK
  <1>4. ASSUME NEW written \in BOOLEAN, Rewrite(written) PROVE LedgerTypeOK'
    BY <1>4 DEF Rewrite, LedgerTypeOK
  <1>5. ASSUME NEW p \in Pids, SweepKills(p) PROVE LedgerTypeOK'
    BY <1>5 DEF SweepKills, Matches, LedgerTypeOK
  <1>6. ASSUME NEW p \in Pids, SweepLeaves(p) \/ SweepFails(p) PROVE LedgerTypeOK'
    BY <1>6 DEF SweepLeaves, SweepFails, LedgerTypeOK
  <1>7. ASSUME NEW p \in Pids, Spawn(p) PROVE LedgerTypeOK'
    BY <1>7 DEF Spawn, LedgerTypeOK
  <1>8. ASSUME NEW p \in Pids, NEW written \in BOOLEAN, Announce(p, written)
        PROVE  LedgerTypeOK'
    BY <1>8 DEF Announce, LedgerTypeOK
  <1>9. ASSUME NEW p \in Pids, AgentExits(p) \/ Reap(p) \/ PidFreed(p) PROVE LedgerTypeOK'
    BY <1>9 DEF AgentExits, Reap, PidFreed, LedgerTypeOK
  <1>10. ASSUME NEW p \in Pids, Forget(p) PROVE LedgerTypeOK'
    BY <1>10 DEF Forget, LedgerTypeOK
  <1>11. ASSUME NEW p \in Pids, NEW what \in {"sameName", "stranger"}, PidReused(p, what)
         PROVE  LedgerTypeOK'
    BY <1>11 DEF PidReused, LedgerTypeOK
  <1>12. CASE UNCHANGED ledgerVars
    BY <1>12 DEF ledgerVars, LedgerTypeOK
  <1>13. QED
    BY <1>1, <1>2, <1>3, <1>4, <1>5, <1>6, <1>7, <1>8, <1>9, <1>10, <1>11, <1>12
       DEF LedgerNext

\* The sweep kills only what Matches: an agent, or a program of its name.
LEMMA LedgerSpares == LedgerInv /\ [LedgerNext]_ledgerVars => NoStrangerKilled'
  <1> SUFFICES ASSUME LedgerInv, [LedgerNext]_ledgerVars PROVE NoStrangerKilled'
    OBVIOUS
  <1>1. ASSUME NEW p \in Pids, SweepKills(p) PROVE NoStrangerKilled'
    BY <1>1 DEF SweepKills, Matches, NoStrangerKilled, LedgerInv
  <1>2. CASE UNCHANGED shot
    BY <1>2 DEF NoStrangerKilled, LedgerInv
  <1>3. QED
    BY <1>1, <1>2 DEF LedgerNext, ledgerVars, DaemonBoots, SweepEnds, DaemonKilled, Rewrite,
       SweepLeaves, SweepFails, Spawn, Announce, AgentExits, Reap, Forget, PidFreed, PidReused

LEMMA LedgerKnows == LedgerInv /\ [LedgerNext]_ledgerVars => SomebodyKnows'
  <1> SUFFICES ASSUME LedgerInv, [LedgerNext]_ledgerVars PROVE SomebodyKnows'
    OBVIOUS
  <1> USE DEF LedgerInv, LedgerTypeOK, SomebodyKnows, KnownWhileDown, KnownToTheSweep,
          KnownAtWork, KnownWhileRewriting, HeldGroups, Own
  <1>1. CASE DaemonBoots
    BY <1>1 DEF DaemonBoots
  <1>2. CASE SweepEnds
    BY <1>2 DEF SweepEnds
  <1>3. CASE DaemonKilled
    BY <1>3 DEF DaemonKilled
  <1>4. ASSUME NEW written \in BOOLEAN, Rewrite(written) PROVE SomebodyKnows'
    BY <1>4 DEF Rewrite
  <1>5. ASSUME NEW p \in Pids, SweepKills(p) PROVE SomebodyKnows'
    BY <1>5 DEF SweepKills, Matches
  <1>6. ASSUME NEW p \in Pids, SweepLeaves(p) PROVE SomebodyKnows'
    BY <1>6 DEF SweepLeaves, Matches
  <1>7. ASSUME NEW p \in Pids, SweepFails(p) PROVE SomebodyKnows'
    BY <1>7 DEF SweepFails
  <1>8. ASSUME NEW p \in Pids, Spawn(p) PROVE SomebodyKnows'
    BY <1>8 DEF Spawn
  <1>9. ASSUME NEW p \in Pids, NEW written \in BOOLEAN, Announce(p, written)
        PROVE  SomebodyKnows'
    BY <1>9 DEF Announce
  <1>10. ASSUME NEW p \in Pids, AgentExits(p) PROVE SomebodyKnows'
    BY <1>10 DEF AgentExits
  <1>11. ASSUME NEW p \in Pids, Reap(p) PROVE SomebodyKnows'
    BY <1>11 DEF Reap
  <1>12. ASSUME NEW p \in Pids, Forget(p) PROVE SomebodyKnows'
    BY <1>12 DEF Forget
  <1>13. ASSUME NEW p \in Pids, PidFreed(p) PROVE SomebodyKnows'
    BY <1>13 DEF PidFreed
  <1>14. ASSUME NEW p \in Pids, NEW what \in {"sameName", "stranger"}, PidReused(p, what)
         PROVE  SomebodyKnows'
    BY <1>14 DEF PidReused
  <1>15. CASE UNCHANGED ledgerVars
    BY <1>15 DEF ledgerVars
  <1>16. QED
    BY <1>1, <1>2, <1>3, <1>4, <1>5, <1>6, <1>7, <1>8, <1>9, <1>10, <1>11, <1>12, <1>13,
       <1>14, <1>15 DEF LedgerNext

-----------------------------------------------------------------------------
\* Once a worker takes jobs, every agent of an earlier life that still runs is one whose
\* line was lost, and no sweep has killed a program of another name (orphans.py).
THEOREM SweptClean == LedgerSpec => []SweepsItsOwn
  <1>1. LedgerInit => LedgerInv
    BY LedgerInitial
  <1>2. LedgerInv /\ [LedgerNext]_ledgerVars => LedgerInv'
    BY LedgerTyped, LedgerKnows, LedgerSpares DEF LedgerInv
  <1>3. LedgerInv => SweepsItsOwn
    BY DEF LedgerInv, SweepsItsOwn, SomebodyKnows, KnownAtWork, Own, NoOrphanAtWork,
       LedgerTypeOK
  <1>4. QED
    BY <1>1, <1>2, <1>3, PTL DEF LedgerSpec
-----------------------------------------------------------------------------
(* AccountFallback.                                                        *)

\* What the evidence kept of the earlier runs of a turn says, while one is under way.
EvidenceHolds ==
    /\ Safe(previous)
    /\ ~nudging => nudged = NoTools
    /\ worked <=> (previous.started \/ nudged.started \/ attemptPrompt = "continue")
    /\ torn <=> ~Safe(nudged)

\* What the prompt of the run under way says of the runs before it.
PromptFits ==
    /\ sending \in Prompts
    /\ sending \in {"original", "continue"} =>
         /\ previous = NoTools /\ ~nudging /\ attemptPrompt = sending
    /\ sending = "nudge" => nudging

\* The accounts that ran out are those tried before the present one.
TriedInOrder ==
    /\ exhausted = {Candidate(n) : n \in {m \in 0..(PoolSize - 1) : m < position}}
    /\ IsFiniteSet(exhausted) /\ Cardinality(exhausted) = position

FallbackInv ==
    /\ FallbackTypeOK
    /\ ending = "pending" => EvidenceHolds /\ PromptFits /\ TriedInOrder /\ ~replied
    /\ ending = "pending" /\ broken => edited
    /\ ending # "pending" => sending = "nothing"
    /\ ReplyIsPosted

\* The evidence of a run, and what is made of two.
LEMMA EvidenceOfRuns ==
    /\ NoTools \in Evidences /\ NoTools.started = FALSE /\ Safe(NoTools)
    /\ \A tools \in {"none", "done", "torn"} :
         /\ Evidence(tools) \in Evidences
         /\ Evidence(tools).started <=> tools # "none"
         /\ Safe(Evidence(tools)) <=> tools # "torn"
    /\ \A e \in Evidences : e.started \in BOOLEAN /\ e.ready \in BOOLEAN
  <1>1. /\ NoTools = [started |-> FALSE, ready |-> FALSE]
        /\ Evidence("none") = [started |-> FALSE, ready |-> FALSE]
        /\ Evidence("done") = [started |-> TRUE, ready |-> TRUE]
        /\ Evidence("torn") = [started |-> TRUE, ready |-> FALSE]
    BY DEF Evidence, NoTools
  <1>2. ASSUME NEW e \in Evidences PROVE e.started \in BOOLEAN /\ e.ready \in BOOLEAN
    <2>1. PICK tools \in {"none", "done", "torn"} : e = Evidence(tools)
      BY DEF Evidences
    <2>2. QED
      BY <2>1 DEF Evidence
  <1>3. NoTools \in Evidences
    BY DEF Evidences, NoTools
  <1>4. \A tools \in {"none", "done", "torn"} : Evidence(tools) \in Evidences
    BY DEF Evidences
  <1>5. NoTools.started = FALSE /\ Safe(NoTools)
    BY <1>1 DEF Safe
  <1>6. ASSUME NEW tools \in {"none", "done", "torn"}
        PROVE  /\ Evidence(tools).started <=> tools # "none"
               /\ Safe(Evidence(tools)) <=> tools # "torn"
    BY <1>1 DEF Safe
  <1>7. QED
    BY <1>2, <1>3, <1>4, <1>5, <1>6

LEMMA EvidenceJoined ==
    ASSUME NEW a \in Evidences, NEW b \in Evidences, Safe(a)
    PROVE  /\ Continued(a, b) \in Evidences
           /\ Continued(a, b).started <=> a.started \/ b.started
           /\ Safe(Continued(a, b)) <=> Safe(b)
    BY DEF Evidences, Evidence, Safe, Continued

LEMMA EvidenceCombined ==
    ASSUME NEW a \in Evidences, NEW b \in Evidences
    PROVE  /\ Combined(a, b).started <=> a.started \/ b.started
           /\ Safe(Combined(a, b)) <=> Safe(a) /\ Safe(b)
    BY DEF Evidences, Evidence, Safe, Combined

\* The pool is gone through in order, from the saved account round to the one before it.
LEMMA WrapsRound ==
    ASSUME NEW p \in Nat \ {0}, NEW a \in 0..(2 * p - 1)
    PROVE  a % p = IF a < p THEN a ELSE a - p
    OBVIOUS

LEMMA CandidatesDiffer ==
    ASSUME saved \in 1..PoolSize, NEW n \in 0..(PoolSize - 1)
    PROVE  /\ Candidate(n) \in 1..PoolSize
           /\ \A m \in 0..(PoolSize - 1) : Candidate(m) = Candidate(n) => m = n
  <1>1. PoolSize \in Nat \ {0}
    BY FallbackAssumption
  <1>2. ASSUME NEW m \in 0..(PoolSize - 1)
        PROVE  Candidate(m) = IF saved + m - 1 < PoolSize THEN saved + m
                              ELSE saved + m - PoolSize
    <2>1. PICK a \in 0..(2 * PoolSize - 1) : a = saved + m - 1
      BY <1>1
    <2>2. a % PoolSize = IF a < PoolSize THEN a ELSE a - PoolSize
      BY <1>1, WrapsRound
    <2>3. Candidate(m) = (a % PoolSize) + 1
      BY <2>1, Zenon DEF Candidate
    <2>4. QED
      BY <1>1, <2>1, <2>2, <2>3
  <1>3. \A m \in 0..(PoolSize - 1) :
          Candidate(m) = IF saved + m - 1 < PoolSize THEN saved + m ELSE saved + m - PoolSize
    BY <1>2
  <1>4. QED
    BY <1>1, <1>3

LEMMA FallbackInvStarts == FallbackInit => FallbackInv
  <1>1. PoolSize \in Nat \ {0} /\ Retries \in Nat /\ MaxAsked \in Nat
    BY FallbackAssumption
  <1>2. QED
    <2>1. SUFFICES ASSUME FallbackInit PROVE FallbackInv
      OBVIOUS
    <2>2. NoTools \in Evidences
      BY EvidenceOfRuns
    <2>3. {codexThread, nudging, broken, worked, torn, replied, edited} \subseteq BOOLEAN
      BY <2>1, Zenon DEF FallbackInit
    <2>4. {previous, nudged} \subseteq Evidences
      BY <2>1, <2>2, Zenon DEF FallbackInit
    <2>5. FallbackTypeOK
      BY <1>1, <2>1, <2>3, <2>4 DEF FallbackInit, FallbackTypeOK
    <2>6. QED
      BY <2>1, <2>5 DEF FallbackInit, FallbackInv, ReplyIsPosted

\* A run ends with an answer: the turn is over.
LEMMA AnswerEndsTurn ==
    ASSUME FallbackInv, NEW tools \in {"none", "done", "torn"}, NEW seen \in BOOLEAN,
           RanWith(tools, seen), AnsweredBy
    PROVE  FallbackInv'
  <1>1. PoolSize \in Nat \ {0} /\ Retries \in Nat /\ MaxAsked \in Nat
    BY FallbackAssumption
  <1>2. Candidate(position) \in 1..PoolSize
    BY CandidatesDiffer DEF FallbackInv, FallbackTypeOK
  <1>3. ending = "pending" /\ FallbackTypeOK
    BY DEF RanWith, FreeAccounts, FallbackInv
  <1>4. FallbackTypeOK'
    BY <1>1, <1>2, <1>3 DEF AnsweredBy, RanWith, FallbackTypeOK
  <1>5. QED
    BY <1>1, <1>3, <1>4 DEF AnsweredBy, RanWith, FallbackInv, FallbackTypeOK, ReplyIsPosted

\* A run ends the turn with a failure, or it goes on with the evidence of that run.
LEMMA FailureEndsTurn ==
    ASSUME FallbackInv, NEW tools \in {"none", "done", "torn"}, NEW seen \in BOOLEAN,
           RanWith(tools, seen), Fails, exhausted' \subseteq 1..PoolSize,
           UNCHANGED <<saved, position, attemptPrompt, previous, nudging, nudged, tries,
                       broken, asked, replied, edited>>
    PROVE  FallbackInv'
  <1>1. ending = "pending" /\ FallbackTypeOK
    BY DEF RanWith, FreeAccounts, FallbackInv
  <1>2. FallbackTypeOK'
    BY <1>1 DEF Fails, RanWith, FallbackTypeOK
  <1>3. QED
    BY <1>1, <1>2 DEF Fails, RanWith, FallbackInv, FallbackTypeOK, ReplyIsPosted

LEMMA ChainOfRuns ==
    ASSUME FallbackInv, ending = "pending", NEW tools \in {"none", "done", "torn"}
    PROVE  /\ Chain(tools) \in Evidences
           /\ Chain(tools).started <=> previous.started \/ tools # "none"
           /\ Safe(Chain(tools)) <=> tools # "torn"
  <1>1. previous \in Evidences /\ Safe(previous) /\ Evidence(tools) \in Evidences
    BY EvidenceOfRuns DEF FallbackInv, FallbackTypeOK, EvidenceHolds
  <1>2. QED
    BY <1>1, EvidenceJoined, EvidenceOfRuns DEF Chain

LEMMA SilenceKeeps ==
    ASSUME FallbackInv, NEW tools \in {"none", "done", "torn"}, NEW seen \in BOOLEAN,
           Silent(tools, seen)
    PROVE  FallbackInv'
  <1>1. RanWith(tools, seen) /\ ending = "pending" /\ FallbackTypeOK
    BY DEF Silent, RanWith, FreeAccounts, FallbackInv
  <1>2. CASE AnsweredBy
    BY <1>1, <1>2, AnswerEndsTurn
  <1>3. CASE ~AnsweredBy
    <2>1. /\ ~nudging /\ sending' = "nudge" /\ nudging' = TRUE /\ nudged' = Chain(tools)
          /\ previous' = NoTools /\ tries' = 0
          /\ UNCHANGED <<saved, position, attemptPrompt, ending, broken, asked, exhausted,
                         replied, edited>>
      BY <1>3 DEF Silent
    <2>2. /\ Chain(tools) \in Evidences
          /\ Chain(tools).started <=> previous.started \/ tools # "none"
          /\ Safe(Chain(tools)) <=> tools # "torn"
      BY <1>1, ChainOfRuns
    <2>3. NoTools \in Evidences /\ NoTools.started = FALSE /\ Safe(NoTools)
      BY EvidenceOfRuns
    <2>4. worked' = (worked \/ tools # "none") /\ torn' = (torn \/ tools = "torn")
      BY <1>1 DEF RanWith
    <2>5. FallbackTypeOK'
      BY <1>1, <2>1, <2>2, <2>3, FallbackAssumption DEF RanWith, FallbackTypeOK, Prompts
    <2>6. EvidenceHolds /\ nudged = NoTools /\ {torn, worked} \subseteq BOOLEAN
      BY <1>1, <2>1 DEF FallbackInv, EvidenceHolds, FallbackTypeOK
    <2>7. EvidenceHolds'
      <3>1. worked' <=> (previous'.started \/ nudged'.started \/ attemptPrompt' = "continue")
        BY <2>1, <2>2, <2>3, <2>4, <2>6 DEF EvidenceHolds
      <3>2. torn' <=> ~Safe(nudged')
        BY <2>1, <2>2, <2>3, <2>4, <2>6 DEF EvidenceHolds
      <3>3. QED
        BY <2>1, <2>3, <3>1, <3>2 DEF EvidenceHolds, Safe
    <2>8. PromptFits'
      BY <2>1 DEF PromptFits, Prompts
    <2>9. TriedInOrder'
      BY <1>1, <2>1 DEF FallbackInv, TriedInOrder, Candidate
    <2>10. QED
      BY <1>1, <2>1, <2>5, <2>7, <2>8, <2>9 DEF FallbackInv, ReplyIsPosted
  <1>4. QED
    BY <1>2, <1>3

LEMMA OverloadKeeps ==
    ASSUME FallbackInv, NEW tools \in {"none", "done", "torn"}, NEW seen \in BOOLEAN,
           Overloaded(tools, seen)
    PROVE  FallbackInv'
  <1>1. /\ RanWith(tools, seen) /\ ending = "pending" /\ FallbackTypeOK
        /\ Safe(Evidence(tools)) <=> tools # "torn"
    BY EvidenceOfRuns DEF Overloaded, RanWith, FreeAccounts, FallbackInv
  <1>2. CASE Fails /\ UNCHANGED <<tries, previous>>
    BY <1>1, <1>2, FailureEndsTurn DEF Overloaded, FallbackTypeOK
  <1>3. CASE ~(Fails /\ UNCHANGED <<tries, previous>>)
    <2>1. /\ tools # "torn" /\ sending' = "resume" /\ tries' = tries + 1 /\ tries < Retries
          /\ previous' = Chain(tools) /\ ending' = ending
          /\ UNCHANGED <<saved, position, attemptPrompt, nudging, nudged, broken, asked,
                         exhausted, replied, edited>>
      BY <1>1, <1>3 DEF Overloaded
    <2>2. /\ Chain(tools) \in Evidences
          /\ Chain(tools).started <=> previous.started \/ tools # "none"
          /\ Safe(Chain(tools)) <=> tools # "torn"
      BY <1>1, ChainOfRuns
    <2>3. worked' = (worked \/ tools # "none") /\ torn' = (torn \/ tools = "torn")
      BY <1>1 DEF RanWith
    <2>4. FallbackTypeOK'
      BY <1>1, <2>1, <2>2, FallbackAssumption DEF RanWith, FallbackTypeOK, Prompts
    <2>5. EvidenceHolds /\ {torn, worked} \subseteq BOOLEAN
      BY <1>1 DEF FallbackInv, FallbackTypeOK
    <2>6. EvidenceHolds'
      <3>1. worked' <=> (previous'.started \/ nudged'.started \/ attemptPrompt' = "continue")
        BY <2>1, <2>2, <2>3, <2>5 DEF EvidenceHolds
      <3>2. torn' <=> ~Safe(nudged')
        BY <2>1, <2>2, <2>3, <2>5 DEF EvidenceHolds
      <3>3. Safe(previous') /\ (~nudging' => nudged' = NoTools)
        BY <2>1, <2>2, <2>5 DEF EvidenceHolds
      <3>4. QED
        BY <3>1, <3>2, <3>3 DEF EvidenceHolds, NoTools, Evidence, Safe
    <2>7. PromptFits'
      BY <2>1 DEF PromptFits, Prompts
    <2>8. TriedInOrder'
      BY <1>1, <2>1 DEF FallbackInv, TriedInOrder, Candidate
    <2>9. QED
      BY <1>1, <2>1, <2>4, <2>6, <2>7, <2>8 DEF FallbackInv, ReplyIsPosted
  <1>4. QED
    BY <1>2, <1>3

LEMMA NextAccountKeeps ==
    ASSUME FallbackInv, NEW tools \in {"none", "done", "torn"}, NEW seen \in BOOLEAN,
           Exhausts(tools, seen)
    PROVE  FallbackInv'
  <1> DEFINE found == Combined(nudged, Chain(tools))
             prompt == IF found.started THEN "continue" ELSE attemptPrompt
  <1>1. RanWith(tools, seen) /\ ending = "pending" /\ FallbackTypeOK
    BY DEF Exhausts, RanWith, FreeAccounts, FallbackInv
  <1>2. /\ position \in 0..(PoolSize - 1) /\ saved \in 1..PoolSize
        /\ PoolSize \in Nat \ {0} /\ Retries \in Nat
    BY <1>1, FallbackAssumption DEF FallbackTypeOK
  <1>3. /\ Candidate(position) \in 1..PoolSize
        /\ \A m \in 0..(PoolSize - 1) : Candidate(m) = Candidate(position) => m = position
    BY <1>2, CandidatesDiffer
  <1>4. /\ exhausted' = exhausted \union {Candidate(position)}
        /\ UNCHANGED <<saved, broken, asked, replied, edited>>
    BY DEF Exhausts
  <1>5. CASE ~Safe(found) \/ position + 1 = PoolSize
    <2>1. Fails /\ UNCHANGED <<position, attemptPrompt, previous, nudging, nudged, tries>>
      BY <1>5 DEF Exhausts
    <2>2. QED
      BY <1>1, <1>3, <1>4, <2>1, FailureEndsTurn DEF FallbackTypeOK
  <1>6. CASE ~(~Safe(found) \/ position + 1 = PoolSize)
    <2>1. /\ position' = position + 1 /\ attemptPrompt' = prompt /\ sending' = prompt
          /\ previous' = NoTools /\ nudging' = FALSE /\ nudged' = NoTools
          /\ tries' = 0 /\ ending' = ending
      BY <1>6 DEF Exhausts
    <2>2. /\ Chain(tools) \in Evidences
          /\ Chain(tools).started <=> previous.started \/ tools # "none"
          /\ Safe(Chain(tools)) <=> tools # "torn"
      BY <1>1, ChainOfRuns
    <2>3. /\ found.started <=> nudged.started \/ previous.started \/ tools # "none"
          /\ Safe(nudged) /\ tools # "torn"
      BY <1>1, <1>6, <2>2, EvidenceCombined DEF FallbackTypeOK
    <2>4. worked' = (worked \/ tools # "none") /\ torn' = (torn \/ tools = "torn")
      BY <1>1 DEF RanWith
    <2>5. EvidenceHolds /\ {torn, worked} \subseteq BOOLEAN
          /\ attemptPrompt \in {"original", "continue"}
      BY <1>1 DEF FallbackInv, FallbackTypeOK
    <2>6. NoTools \in Evidences /\ NoTools.started = FALSE /\ Safe(NoTools)
      BY EvidenceOfRuns
    <2>7. prompt \in {"original", "continue"}
      BY <2>5
    <2>8. position' \in 0..(PoolSize - 1)
      BY <1>2, <1>6, <2>1
    <2> HIDE DEF found
    <2>9. worked' <=> attemptPrompt' = "continue"
      BY <2>1, <2>3, <2>4, <2>5 DEF EvidenceHolds
    <2>10. torn' = FALSE
      BY <2>3, <2>4, <2>5 DEF EvidenceHolds
    <2> HIDE DEF prompt
    <2>11. FallbackTypeOK'
      <3>1. exhausted' \subseteq 1..PoolSize /\ saved' \in 1..PoolSize
        BY <1>1, <1>2, <1>3, <1>4 DEF FallbackTypeOK
      <3>2. sending' \in Prompts \union {"nothing"} /\ attemptPrompt' \in {"original", "continue"}
        BY <2>1, <2>7 DEF Prompts
      <3>3. {codexThread, nudging, broken, worked, torn, replied, edited}' \subseteq BOOLEAN
        BY <1>1, <1>4, <2>1, <2>4 DEF RanWith, FallbackTypeOK
      <3>4. QED
        BY <1>1, <1>2, <1>4, <2>1, <2>6, <2>8, <3>1, <3>2, <3>3 DEF FallbackTypeOK
    <2>12. EvidenceHolds'
      BY <2>1, <2>6, <2>9, <2>10 DEF EvidenceHolds, Safe
    <2>13. PromptFits'
      BY <2>1, <2>7 DEF PromptFits, Prompts
    <2>14. TriedInOrder'
      <3>1. TriedInOrder
        BY <1>1 DEF FallbackInv
      <3>2. Candidate(position) \notin exhausted
        BY <1>2, <1>3, <3>1 DEF TriedInOrder
      <3>3. IsFiniteSet(exhausted') /\ Cardinality(exhausted') = position'
        BY <1>2, <1>4, <2>1, <3>1, <3>2, FS_AddElement DEF TriedInOrder
      <3>4. \A m \in 0..(PoolSize - 1) : m < position' <=> m < position \/ m = position
        BY <1>2, <2>1
      <3>5. exhausted' = {Candidate(n) : n \in {m \in 0..(PoolSize - 1) : m < position'}}
        BY <1>2, <1>4, <3>1, <3>4 DEF TriedInOrder
      <3>6. QED
        BY <1>4, <3>3, <3>5 DEF TriedInOrder, Candidate
    <2>15. QED
      BY <1>1, <1>4, <2>1, <2>11, <2>12, <2>13, <2>14 DEF FallbackInv, ReplyIsPosted
  <1>7. QED
    BY <1>5, <1>6

LEMMA FallbackInvKept == FallbackInv /\ [FallbackNext]_fallbackVars => FallbackInv'
  <1>1. SUFFICES ASSUME FallbackInv, [FallbackNext]_fallbackVars PROVE FallbackInv'
    OBVIOUS
  <1>2. FallbackTypeOK /\ PoolSize \in Nat \ {0} /\ Retries \in Nat /\ MaxAsked \in Nat
    BY <1>1, FallbackAssumption DEF FallbackInv
  <1>3. CASE AskTurn
    <2>1. NoTools \in Evidences /\ NoTools.started = FALSE /\ Safe(NoTools)
      BY EvidenceOfRuns
    <2>2. FallbackTypeOK'
      <3>1. {nudging, worked, torn, replied, edited}' \subseteq BOOLEAN
        BY <1>3, Zenon DEF AskTurn
      <3>2. {codexThread, broken}' \subseteq BOOLEAN
        BY <1>2, <1>3 DEF AskTurn, FallbackTypeOK
      <3>3. {previous, nudged}' \subseteq Evidences
        BY <1>3, <2>1, Zenon DEF AskTurn
      <3>4. asked' \in 0..MaxAsked
        BY <1>2, <1>3 DEF AskTurn, FallbackTypeOK
      <3>5. QED
        BY <1>2, <1>3, <3>1, <3>2, <3>3, <3>4 DEF AskTurn, FallbackTypeOK, Prompts
    <2>3. EvidenceHolds'
      BY <1>3, <2>1 DEF AskTurn, EvidenceHolds, Safe
    <2>4. PromptFits'
      BY <1>3 DEF AskTurn, PromptFits, Prompts
    <2>5. TriedInOrder'
      <3>1. {m \in 0..(PoolSize - 1) : m < position'} = {}
        BY <1>3 DEF AskTurn
      <3>2. QED
        BY <1>3, <3>1, FS_EmptySet DEF AskTurn, TriedInOrder
    <2>6. QED
      BY <1>3, <2>2, <2>3, <2>4, <2>5 DEF AskTurn, FallbackInv, ReplyIsPosted
  <1>4. CASE Edits
    <2>1. FallbackTypeOK'
      BY <1>2, <1>4 DEF Edits, FallbackTypeOK
    <2>2. ending = "pending" => EvidenceHolds' /\ PromptFits' /\ TriedInOrder'
      BY <1>1, <1>4 DEF Edits, FallbackInv, EvidenceHolds, PromptFits, TriedInOrder, Candidate
    <2>3. QED
      BY <1>1, <1>4, <2>1, <2>2 DEF Edits, FallbackInv, ReplyIsPosted
  <1>5. ASSUME NEW tools \in {"none", "done", "torn"}, NEW seen \in BOOLEAN,
               Answers(tools, seen)
        PROVE  FallbackInv'
    BY <1>1, <1>5, AnswerEndsTurn DEF Answers
  <1>6. ASSUME NEW tools \in {"none", "done", "torn"}, NEW seen \in BOOLEAN,
               Breaks(tools, seen)
        PROVE  FallbackInv'
    BY <1>1, <1>2, <1>6, FailureEndsTurn DEF Breaks, FallbackTypeOK
  <1>7. CASE UNCHANGED fallbackVars
    <2>1. FallbackTypeOK'
      BY <1>2, <1>7 DEF fallbackVars, FallbackTypeOK
    <2>2. ending = "pending" => EvidenceHolds' /\ PromptFits' /\ TriedInOrder'
      BY <1>1, <1>7
      DEF fallbackVars, FallbackInv, EvidenceHolds, PromptFits, TriedInOrder, Candidate
    <2>3. QED
      BY <1>1, <1>7, <2>1, <2>2 DEF fallbackVars, FallbackInv, ReplyIsPosted
  <1>8. QED
    BY <1>1, <1>3, <1>4, <1>5, <1>6, <1>7, SilenceKeeps, OverloadKeeps, NextAccountKeeps
    DEF FallbackNext

\* What was sent, and what is known of the runs before it, makes every prompt a safe one.
LEMMA FallbackInvServes == FallbackInv => FallsBackSafely
  <1>1. SUFFICES ASSUME FallbackInv PROVE FallsBackSafely
    OBVIOUS
  <1>2. NoTools.started = FALSE /\ Safe(NoTools)
    BY EvidenceOfRuns
  <1>3. NothingIsRepeated
    BY <1>1, <1>2 DEF FallbackInv, EvidenceHolds, PromptFits, NothingIsRepeated
  <1>4. NothingIsGuessed
    BY <1>1, <1>2 DEF FallbackInv, EvidenceHolds, PromptFits, NothingIsGuessed
  <1>5. QED
    BY <1>1, <1>3, <1>4 DEF FallbackInv, TriedInOrder, EachAccountOnce, FallsBackSafely

\* A turn falls back on the next account without repeating, guessing or losing work
\* (account_fallback.py).
THEOREM FallbackIsSafe == FallbackSpec => []FallsBackSafely
  <1>1. FallbackInit => FallbackInv
    BY FallbackInvStarts
  <1>2. FallbackInv /\ [FallbackNext]_fallbackVars => FallbackInv'
    BY FallbackInvKept
  <1>3. FallbackInv => FallsBackSafely
    BY FallbackInvServes
  <1>4. QED
    BY <1>1, <1>2, <1>3, PTL DEF FallbackSpec

-----------------------------------------------------------------------------
(* CodexLogin.                                                             *)

Guarded(q) == reqAt[q] \in {"checking", "posting", "saving", "rechecking", "reposting",
                            "resaving"}
Refreshing(q) == Posting(q) \/ Saving(q)

\* A request past the first lock holds it, and one that refreshes holds the other.
LocksFit ==
    /\ \A q \in Requests : Guarded(q) => guardHolder[servedBy[q]] = q
    /\ \A q \in Requests : Refreshing(q) => flock = servedBy[q]

\* What the file, and those who are about to write it, know of the login.
FileFits ==
    /\ \A q \in Requests : Saving(q) => reqToken[q] < live
    /\ \A d \in Brokers : pinned[d] => unsaved
    /\ handToken # 0 => outside
    /\ midWrite => handToken # 0

\* While nobody refreshed by hand and no answer was lost: not Broken.
LoginFits ==
    /\ ~spentTried
    /\ (\A q \in Requests : ~Saving(q)) => authFile = live
    /\ \A q \in Requests : Posting(q) => reqToken[q] = live
    /\ \A q \in Requests : Saving(q) => live = reqToken[q] + 1

LoginInv ==
    /\ LoginTypeOK /\ servedBy \in [Requests -> Brokers]
    /\ LocksFit /\ FileFits /\ GivenUpWasTurnedDown /\ GivenUpIsNotTried
    /\ Broken \/ LoginFits

LEMMA LoginInvStarts == LoginInit => LoginInv
  <1>1. NoRequest \notin Requests /\ NoBroker \notin Brokers /\ MaxToken \in Nat \ {0}
        /\ MaxDeaths \in Nat
    BY LoginAssumption
  <1>2. SUFFICES ASSUME LoginInit PROVE LoginInv
    OBVIOUS
  <1>3. LoginTypeOK /\ servedBy \in [Requests -> Brokers]
    <2>1. {midWrite, spentTried, outside, unsaved, lostAnswer} \subseteq BOOLEAN
      BY <1>2, Zenon DEF LoginInit
    <2>2. /\ pinned \in [Brokers -> BOOLEAN]
          /\ guardHolder \in [Brokers -> Requests \union {NoRequest}]
      BY <1>2 DEF LoginInit
    <2>3. /\ reqToken \in [Requests -> 0..MaxToken] /\ cached \in [Brokers -> 0..MaxToken]
          /\ failedToken \in [Brokers -> 0..MaxToken] /\ deaths \in 0..MaxDeaths
          /\ {live, authFile} \subseteq 1..MaxToken
          /\ {refusedUpTo, agedToken, handToken} \subseteq 0..MaxToken
      BY <1>1, <1>2 DEF LoginInit
    <2>4. QED
      BY <1>2, <2>1, <2>2, <2>3 DEF LoginInit, LoginTypeOK
  <1>4. LocksFit /\ FileFits /\ LoginFits
    BY <1>2
    DEF LoginInit, LocksFit, FileFits, LoginFits, Guarded, Refreshing, Posting, Saving
  <1>5. GivenUpWasTurnedDown /\ GivenUpIsNotTried
    BY <1>2 DEF LoginInit, GivenUpWasTurnedDown, GivenUpIsNotTried, Posting
  <1>6. QED
    BY <1>3, <1>4, <1>5 DEF LoginInv

\* Whoever refreshes does so alone.
LEMMA RefreshesAlone ==
    ASSUME LoginInv, NEW q \in Requests, NEW r \in Requests, Refreshing(q), Refreshing(r)
    PROVE  q = r
    BY DEF LoginInv, LocksFit, Refreshing, Posting, Saving, Guarded

\* A request leaves both locks: nobody else held what it gives up.
LEMMA LocksAreLeft ==
    ASSUME LoginInv, NEW q \in Requests, NEW token, LeavesLocks(q, token),
           UNCHANGED servedBy, AtTheLock(q) \/ Refreshing(q)
    PROVE  /\ LocksFit'
           /\ flock' = NoBroker /\ guardHolder' \in [Brokers -> Requests \union {NoRequest}]
           /\ reqAt'[q] \in {"ready", "over", "new"}
           /\ \A r \in Requests : r # q => reqAt'[r] = reqAt[r]
           /\ reqAt' \in [Requests -> {"new", "checking", "posting", "saving", "ready",
                          "refused", "rechecking", "reposting", "resaving", "over"}]
           /\ sentAgain' \subseteq Requests
  <1>1. LoginTypeOK /\ servedBy \in [Requests -> Brokers] /\ LocksFit
    BY DEF LoginInv
  <1>2. /\ reqAt'[q] \in {"ready", "over", "new"}
        /\ \A r \in Requests : r # q => reqAt'[r] = reqAt[r]
        /\ reqAt' \in [Requests -> {"new", "checking", "posting", "saving", "ready",
                       "refused", "rechecking", "reposting", "resaving", "over"}]
    BY <1>1 DEF LoginTypeOK, LeavesLocks
  <1>3. /\ flock' = NoBroker /\ guardHolder' \in [Brokers -> Requests \union {NoRequest}]
        /\ sentAgain' \subseteq Requests
    BY <1>1 DEF LoginTypeOK, LeavesLocks
  <1>4. \A r \in Requests : r # q => ~Refreshing(r)
    BY <1>1, RefreshesAlone, LoginAssumption DEF LocksFit, AtTheLock
  <1>5. \A r \in Requests : ~Refreshing(r)'
    BY <1>2, <1>4 DEF Refreshing, Posting, Saving
  <1>6. \A r \in Requests : Guarded(r)' => guardHolder'[servedBy'[r]] = r
    <2>1. SUFFICES ASSUME NEW r \in Requests, Guarded(r)'
                   PROVE  guardHolder'[servedBy'[r]] = r
      OBVIOUS
    <2>2. r # q /\ Guarded(r)
      BY <1>2, <2>1 DEF Guarded
    <2>3. guardHolder[servedBy[r]] = r /\ guardHolder[servedBy[q]] = q
      BY <1>1, <2>2 DEF LocksFit, Guarded, AtTheLock, Refreshing, Posting, Saving
    <2>4. servedBy[r] # servedBy[q]
      BY <2>2, <2>3
    <2>5. QED
      BY <1>1, <2>3, <2>4 DEF LeavesLocks, LoginTypeOK
  <1>7. QED
    BY <1>2, <1>3, <1>5, <1>6 DEF LocksFit

\* A request that fails leaves what it held.
LEMMA LocksAreDropped ==
    ASSUME LoginInv, NEW q \in Requests, FailsRequest(q), UNCHANGED servedBy
    PROVE  /\ LocksFit'
           /\ flock' \in Brokers \union {NoBroker}
           /\ guardHolder' \in [Brokers -> Requests \union {NoRequest}]
           /\ ~Refreshing(q)' /\ \A r \in Requests : r # q => reqAt'[r] = reqAt[r]
           /\ reqAt' \in [Requests -> {"new", "checking", "posting", "saving", "ready",
                          "refused", "rechecking", "reposting", "resaving", "over"}]
  <1>1. /\ LoginTypeOK /\ servedBy \in [Requests -> Brokers] /\ LocksFit
        /\ servedBy[q] \in Brokers /\ NoRequest \notin Requests
    BY LoginAssumption DEF LoginInv
  <1>2. /\ reqAt' = [reqAt EXCEPT ![q] = "over"]
        /\ guardHolder' = [guardHolder EXCEPT ![servedBy[q]] = IF @ = q THEN NoRequest ELSE @]
        /\ flock' = IF Posting(q) THEN NoBroker ELSE flock
    BY DEF FailsRequest
  <1>3. /\ flock' \in Brokers \union {NoBroker}
        /\ guardHolder' \in [Brokers -> Requests \union {NoRequest}]
        /\ reqAt' \in [Requests -> {"new", "checking", "posting", "saving", "ready",
                       "refused", "rechecking", "reposting", "resaving", "over"}]
    BY <1>1, <1>2 DEF LoginTypeOK
  <1>4. /\ ~Refreshing(q)' /\ ~Guarded(q)'
        /\ \A r \in Requests : r # q => reqAt'[r] = reqAt[r]
    BY <1>1, <1>2 DEF LoginTypeOK, Refreshing, Saving, Posting, Guarded
  <1>5. SUFFICES ASSUME NEW r \in Requests
                 PROVE  /\ Guarded(r)' => guardHolder'[servedBy'[r]] = r
                        /\ Refreshing(r)' => flock' = servedBy'[r]
    BY <1>3, <1>4 DEF LocksFit
  <1>6. CASE r = q
    BY <1>4, <1>6
  <1>7. CASE r # q
    <2>1. /\ Guarded(r)' <=> Guarded(r)
          /\ Refreshing(r)' <=> Refreshing(r)
      BY <1>4, <1>7 DEF Refreshing, Saving, Posting, Guarded
    <2>2. Guarded(r) => guardHolder'[servedBy[r]] = r
      BY <1>1, <1>2, <1>7 DEF LocksFit, LoginTypeOK
    <2>3. Refreshing(r) => ~Posting(q)
      BY <1>7, RefreshesAlone DEF Refreshing
    <2>4. QED
      BY <1>1, <1>2, <2>1, <2>2, <2>3 DEF LocksFit
  <1>8. QED
    BY <1>6, <1>7

\* The rest of the invariant where a request leaves its locks without an answer.
LEMMA NothingSaved ==
    ASSUME LoginInv, NEW q \in Requests,
           ~Refreshing(q)', \A r \in Requests : r # q => reqAt'[r] = reqAt[r],
           ~Saving(q), \A r \in Requests : r # q => reqToken'[r] = reqToken[r],
           UNCHANGED <<live, authFile, handToken, midWrite, outside, unsaved, lostAnswer>>,
           UNCHANGED <<failedToken, servedBy>>, turnedDown \subseteq turnedDown',
           \A d \in Brokers : pinned'[d] => pinned[d], Broken \/ ~spentTried'
    PROVE  /\ FileFits' /\ GivenUpWasTurnedDown' /\ GivenUpIsNotTried'
           /\ Broken' \/ LoginFits'
  <1>1. \A r \in Requests : Saving(r)' <=> Saving(r) /\ r # q
    BY DEF Refreshing, Posting, Saving
  <1>2. \A r \in Requests : Posting(r)' => Posting(r) /\ r # q
    BY DEF Refreshing, Posting, Saving
  <1>3. FileFits'
    BY <1>1 DEF LoginInv, FileFits
  <1>4. GivenUpWasTurnedDown' /\ GivenUpIsNotTried'
    BY <1>2 DEF LoginInv, GivenUpWasTurnedDown, GivenUpIsNotTried
  <1>5. LoginFits /\ ~Broken => LoginFits'
    BY <1>1, <1>2 DEF LoginFits
  <1>6. QED
    BY <1>3, <1>4, <1>5 DEF LoginInv, Broken

LEMMA EnteringKeeps ==
    ASSUME LoginInv, NEW q \in Requests, Enters(q) PROVE LoginInv'
  <1> DEFINE token == Reading(servedBy[q])
  <1>1. LoginTypeOK /\ servedBy \in [Requests -> Brokers] /\ LocksFit /\ FileFits
    BY DEF LoginInv
  <1>2. /\ AtTheLock(q) /\ cached' = [cached EXCEPT ![servedBy[q]] = token]
        /\ UNCHANGED <<live, refusedUpTo, agedToken, authFile, midWrite, handToken, pinned,
                       failedToken, servedBy, spentTried, outside, unsaved, lostAnswer,
                       turnedDown, deaths>>
    BY DEF Enters, Caches, endpointVars, fileVars, toldVars
  <1>3. token \in 0..MaxToken
    BY <1>1 DEF LoginTypeOK, Reading
  <1>4. ~Broken => token = authFile
    BY <1>1 DEF FileFits, Reading, Broken
  <1>5. GivenUpWasTurnedDown' /\ (Broken' <=> Broken)
    BY <1>2 DEF LoginInv, GivenUpWasTurnedDown, Broken
  <1>6. \A r \in Requests : ~Refreshing(r)
    BY <1>1, <1>2, LoginAssumption DEF LocksFit, AtTheLock
  <1>7. cached' \in [Brokers -> 0..MaxToken]
    BY <1>1, <1>2, <1>3 DEF LoginTypeOK
  <1> HIDE DEF token
  <1>8. CASE Refreshes(q, token) /\ token # failedToken[servedBy[q]]
    <2>1. /\ flock' = servedBy[q] /\ reqToken' = [reqToken EXCEPT ![q] = token]
          /\ reqAt' = [reqAt EXCEPT ![q] = IF @ = "checking" THEN "posting" ELSE "reposting"]
          /\ UNCHANGED <<guardHolder, sentAgain>>
      BY <1>8 DEF Refreshes
    <2>2. LoginTypeOK'
      BY <1>1, <1>2, <1>3, <1>7, <2>1 DEF LoginTypeOK
    <2>3. /\ \A r \in Requests : r # q => ~Refreshing(r)'
          /\ ~Saving(q)' /\ Guarded(q)
          /\ \A r \in Requests : Guarded(r)' => Guarded(r)
      BY <1>1, <1>2, <1>6, <2>1
      DEF LoginTypeOK, Refreshing, Posting, Saving, Guarded, AtTheLock
    <2>4. LocksFit'
      BY <1>1, <1>2, <2>1, <2>3 DEF LocksFit
    <2>5. FileFits'
      BY <1>1, <1>2, <2>1, <2>3 DEF FileFits, Refreshing
    <2>6. LoginFits /\ ~Broken => LoginFits'
      <3>1. SUFFICES ASSUME LoginFits, ~Broken PROVE LoginFits'
        OBVIOUS
      <3>2. authFile = live /\ token = live
        BY <1>4, <1>6, <3>1 DEF LoginFits, Refreshing
      <3>3. reqToken'[q] = token
        BY <1>1, <2>1 DEF LoginTypeOK
      <3>4. QED
        BY <1>2, <2>3, <3>1, <3>2, <3>3 DEF LoginFits, Refreshing
    <2>7. GivenUpIsNotTried'
      BY <1>1, <1>2, <1>8, <2>1, <2>3 DEF GivenUpIsNotTried, Refreshing, LoginTypeOK
    <2>8. QED
      BY <1>1, <1>2, <1>5, <2>2, <2>4, <2>5, <2>6, <2>7 DEF LoginInv
  <1>9. CASE LeavesLocks(q, token) /\ UNCHANGED reqToken
    <2>1. /\ LocksFit'
          /\ flock' = NoBroker /\ guardHolder' \in [Brokers -> Requests \union {NoRequest}]
          /\ reqAt'[q] \in {"ready", "over", "new"}
          /\ \A r \in Requests : r # q => reqAt'[r] = reqAt[r]
          /\ reqAt' \in [Requests -> {"new", "checking", "posting", "saving", "ready",
                         "refused", "rechecking", "reposting", "resaving", "over"}]
          /\ sentAgain' \subseteq Requests
      BY <1>2, <1>9, LocksAreLeft
    <2>2. LoginTypeOK'
      BY <1>1, <1>2, <1>7, <1>9, <2>1 DEF LoginTypeOK
    <2>3. FileFits' /\ GivenUpIsNotTried' /\ (Broken' \/ LoginFits')
      <3>1. ~Refreshing(q)' /\ ~Saving(q)
        BY <1>6, <2>1 DEF Refreshing, Posting, Saving
      <3>2. Broken \/ ~spentTried'
        BY <1>2 DEF LoginInv, LoginFits
      <3>3. QED
        BY <1>2, <1>9, <2>1, <3>1, <3>2, NothingSaved
    <2>4. QED
      BY <1>1, <1>2, <1>5, <2>1, <2>2, <2>3 DEF LoginInv
  <1>10. QED
    BY <1>8, <1>9 DEF Enters, NeedsRefresh, token

\* The endpoint's answer is there, and about to be written.
LEMMA PostingKeeps ==
    ASSUME LoginInv, NEW q \in Requests, Posts(q) PROVE LoginInv'
  <1>1. LoginTypeOK /\ servedBy \in [Requests -> Brokers] /\ LocksFit /\ FileFits
    BY DEF LoginInv
  <1>2. /\ Posting(q) /\ reqToken[q] = live /\ live < MaxToken /\ live' = live + 1
        /\ reqAt' = [reqAt EXCEPT ![q] = IF @ = "posting" THEN "saving" ELSE "resaving"]
        /\ UNCHANGED <<refusedUpTo, agedToken, authFile, midWrite, handToken, cached, pinned,
                       failedToken, guardHolder, flock, servedBy, sentAgain, reqToken,
                       spentTried, outside, unsaved, lostAnswer, turnedDown, deaths>>
    BY DEF Posts, fileVars, daemonVars, lockVars, toldVars
  <1>3. live \in 1..MaxToken /\ live' \in 1..MaxToken /\ MaxToken \in Nat
    BY <1>1, <1>2, LoginAssumption DEF LoginTypeOK
  <1>4. LoginTypeOK'
    BY <1>1, <1>2, <1>3 DEF LoginTypeOK
  <1>5. /\ Saving(q)' /\ ~Posting(q)'
        /\ \A r \in Requests : r # q => ~Refreshing(r) /\ ~Refreshing(r)'
    BY <1>1, <1>2, RefreshesAlone DEF LoginTypeOK, Refreshing, Posting, Saving
  <1>6. LocksFit'
    BY <1>1, <1>2, <1>5 DEF LocksFit, Guarded, Refreshing, Posting, Saving, LoginTypeOK
  <1>7. FileFits'
    BY <1>1, <1>2, <1>3, <1>5 DEF FileFits, Refreshing
  <1>8. LoginFits => LoginFits'
    BY <1>2, <1>3, <1>5 DEF LoginFits, Refreshing
  <1>9. GivenUpWasTurnedDown' /\ GivenUpIsNotTried'
    BY <1>2, <1>5 DEF LoginInv, GivenUpWasTurnedDown, GivenUpIsNotTried, Refreshing
  <1>10. QED
    BY <1>1, <1>2, <1>4, <1>6, <1>7, <1>8, <1>9 DEF LoginInv, Broken

\* The answer is written, to the file or to the daemon's memory.
LEMMA SavingKeeps ==
    ASSUME LoginInv, NEW q \in Requests, Saves(q) \/ SavesInMemory(q) PROVE LoginInv'
  <1>1. /\ LoginTypeOK /\ servedBy \in [Requests -> Brokers] /\ LocksFit /\ FileFits
        /\ servedBy[q] \in Brokers /\ MaxToken \in Nat
    BY LoginAssumption DEF LoginInv
  <1>2. /\ Saving(q) /\ LeavesLocks(q, reqToken[q] + 1)
        /\ UNCHANGED <<live, refusedUpTo, agedToken, midWrite, handToken, servedBy, reqToken,
                       spentTried, outside, lostAnswer, turnedDown, deaths>>
    BY DEF Saves, SavesInMemory, endpointVars, fileVars, toldVars
  <1>3. reqToken[q] \in 0..MaxToken /\ live \in 1..MaxToken /\ reqToken[q] + 1 \in 1..MaxToken
    BY <1>1, <1>2 DEF LoginTypeOK, FileFits
  <1>4. /\ LocksFit'
        /\ flock' = NoBroker /\ guardHolder' \in [Brokers -> Requests \union {NoRequest}]
        /\ reqAt'[q] \in {"ready", "over", "new"}
        /\ \A r \in Requests : r # q => reqAt'[r] = reqAt[r]
        /\ reqAt' \in [Requests -> {"new", "checking", "posting", "saving", "ready",
                       "refused", "rechecking", "reposting", "resaving", "over"}]
        /\ sentAgain' \subseteq Requests
    BY <1>2, LocksAreLeft DEF Refreshing
  <1>5. \A r \in Requests : ~Saving(r)' /\ ~Posting(r)'
    BY <1>2, <1>4, RefreshesAlone DEF Refreshing, Posting, Saving
  <1>6. CASE Saves(q)
    <2>1. /\ authFile' = reqToken[q] + 1 /\ pinned' = [e \in Brokers |-> FALSE]
          /\ cached' = [cached EXCEPT ![servedBy[q]] = 0]
          /\ failedToken' = [failedToken EXCEPT ![servedBy[q]] = 0] /\ unsaved' = unsaved
      BY <1>6 DEF Saves, toldVars
    <2>2. LoginTypeOK'
      BY <1>1, <1>2, <1>3, <1>4, <2>1 DEF LoginTypeOK
    <2>3. FileFits'
      BY <1>1, <1>2, <1>5, <2>1 DEF FileFits
    <2>4. LoginFits => LoginFits'
      BY <1>2, <1>5, <2>1 DEF LoginFits
    <2>5. GivenUpWasTurnedDown' /\ GivenUpIsNotTried'
      BY <1>1, <1>2, <1>5, <2>1
      DEF LoginInv, GivenUpWasTurnedDown, GivenUpIsNotTried, LoginTypeOK
    <2>6. QED
      BY <1>1, <1>2, <1>4, <2>1, <2>2, <2>3, <2>4, <2>5 DEF LoginInv, Broken
  <1>7. CASE SavesInMemory(q)
    <2>1. /\ unsaved' = TRUE /\ pinned' = [pinned EXCEPT ![servedBy[q]] = TRUE]
          /\ cached' = [cached EXCEPT ![servedBy[q]] = reqToken[q] + 1]
          /\ authFile' = authFile /\ failedToken' = failedToken
      BY <1>7 DEF SavesInMemory, fileVars
    <2>2. LoginTypeOK'
      BY <1>1, <1>2, <1>3, <1>4, <2>1 DEF LoginTypeOK
    <2>3. FileFits'
      BY <1>1, <1>2, <1>5, <2>1 DEF FileFits
    <2>4. GivenUpWasTurnedDown' /\ GivenUpIsNotTried'
      BY <1>2, <1>5, <2>1 DEF LoginInv, GivenUpWasTurnedDown, GivenUpIsNotTried
    <2>5. QED
      BY <1>1, <1>2, <1>4, <2>1, <2>2, <2>3, <2>4 DEF LoginInv, Broken
  <1>8. QED
    BY <1>6, <1>7

\* The endpoint turns the token down, or gives no answer.
LEMMA NoAnswerKeeps ==
    ASSUME LoginInv, NEW q \in Requests, Rejected(q) \/ PostFails(q) \/ AnswerLost(q)
    PROVE  LoginInv'
  <1>1. /\ LoginTypeOK /\ servedBy \in [Requests -> Brokers] /\ LocksFit /\ FileFits
        /\ servedBy[q] \in Brokers /\ MaxToken \in Nat
    BY LoginAssumption DEF LoginInv
  <1>2. /\ Posting(q)
        /\ (\E token : LeavesLocks(q, token)) \/ (FailsRequest(q) /\ UNCHANGED sentAgain)
        /\ UNCHANGED <<refusedUpTo, agedToken, authFile, midWrite, handToken, servedBy,
                       reqToken, outside, unsaved, deaths>>
    BY DEF Rejected, TurnsDown, PostFails, AnswerLost, Unanswered, endpointVars, fileVars
  <1>3. /\ LocksFit' /\ flock' \in Brokers \union {NoBroker}
        /\ guardHolder' \in [Brokers -> Requests \union {NoRequest}]
        /\ ~Refreshing(q)' /\ \A r \in Requests : r # q => reqAt'[r] = reqAt[r]
        /\ reqAt' \in [Requests -> {"new", "checking", "posting", "saving", "ready",
                       "refused", "rechecking", "reposting", "resaving", "over"}]
        /\ sentAgain' \subseteq Requests
    <2>1. CASE \E token : LeavesLocks(q, token)
      <3>1. PICK token : LeavesLocks(q, token)
        BY <2>1
      <3>2. QED
        BY <1>2, <3>1, LocksAreLeft DEF Refreshing, Posting, Saving
    <2>2. CASE FailsRequest(q) /\ UNCHANGED sentAgain
      BY <1>1, <1>2, <2>2, LocksAreDropped DEF LoginTypeOK
    <2>3. QED
      BY <1>2, <2>1, <2>2
  <1>4. \A r \in Requests : ~Saving(r)' /\ ~Posting(r)'
    BY <1>2, <1>3, RefreshesAlone DEF Refreshing, Posting, Saving
  <1>5. CASE Rejected(q)
    <2>1. /\ turnedDown' = turnedDown \union {reqToken[q]}
          /\ spentTried' = (spentTried \/ reqToken[q] < live)
          /\ cached' = [cached EXCEPT ![servedBy[q]] = authFile]
          /\ pinned' = [pinned EXCEPT ![servedBy[q]] = FALSE]
          /\ failedToken' = IF authFile = reqToken[q]
                            THEN [failedToken EXCEPT ![servedBy[q]] = authFile]
                            ELSE failedToken
          /\ UNCHANGED <<live, lostAnswer>>
      BY <1>5 DEF Rejected, TurnsDown, endpointVars
    <2>2. /\ cached' \in [Brokers -> 0..MaxToken] /\ failedToken' \in [Brokers -> 0..MaxToken]
          /\ turnedDown' \subseteq 0..MaxToken /\ pinned' \in [Brokers -> BOOLEAN]
      <3>1. authFile \in 0..MaxToken /\ reqToken[q] \in 0..MaxToken
        BY <1>1 DEF LoginTypeOK
      <3>2. cached' \in [Brokers -> 0..MaxToken]
        BY <1>1, <2>1, <3>1 DEF LoginTypeOK
      <3>3. failedToken' \in [Brokers -> 0..MaxToken]
        BY <1>1, <2>1, <3>1 DEF LoginTypeOK
      <3>4. turnedDown' \subseteq 0..MaxToken
        BY <1>1, <2>1, <3>1 DEF LoginTypeOK
      <3>5. pinned' \in [Brokers -> BOOLEAN]
        BY <1>1, <2>1 DEF LoginTypeOK
      <3>6. QED
        BY <3>2, <3>3, <3>4, <3>5
    <2>3. spentTried' \in BOOLEAN
      BY <1>1, <2>1 DEF LoginTypeOK
    <2>4. LoginTypeOK'
      BY <1>1, <1>2, <1>3, <2>1, <2>2, <2>3 DEF LoginTypeOK
    <2>5. FileFits'
      BY <1>1, <1>2, <1>4, <2>1 DEF FileFits, LoginTypeOK
    <2>6. GivenUpWasTurnedDown' /\ GivenUpIsNotTried'
      BY <1>1, <1>4, <2>1 DEF LoginInv, GivenUpWasTurnedDown, GivenUpIsNotTried, LoginTypeOK
    <2>7. LoginFits => LoginFits'
      <3>1. SUFFICES ASSUME LoginFits PROVE LoginFits'
        OBVIOUS
      <3>2. \A r \in Requests : ~Saving(r)
        BY <1>2, RefreshesAlone DEF Posting, Saving, Refreshing
      <3>3. authFile = live /\ reqToken[q] = live /\ live \in Nat
        BY <1>1, <1>2, <3>1, <3>2 DEF LoginFits, LoginTypeOK
      <3>4. ~(reqToken[q] < live)
        BY <3>3
      <3>5. ~spentTried'
        BY <2>1, <3>1, <3>4, Zenon DEF LoginFits
      <3>6. QED
        BY <1>2, <1>4, <2>1, <3>3, <3>5 DEF LoginFits
    <2>8. QED
      BY <1>1, <1>2, <1>3, <2>1, <2>4, <2>5, <2>6, <2>7 DEF LoginInv, Broken
  <1>6. CASE PostFails(q) \/ AnswerLost(q)
    <2>1. /\ \/ Caches(servedBy[q])
             \/ UNCHANGED cached
          /\ UNCHANGED <<pinned, failedToken, spentTried, turnedDown>>
          /\ \/ UNCHANGED <<live, lostAnswer>>
             \/ live < MaxToken /\ live' = live + 1 /\ lostAnswer' = TRUE
      BY <1>6 DEF PostFails, AnswerLost, Unanswered
    <2>2. /\ cached' \in [Brokers -> 0..MaxToken] /\ live' \in 1..MaxToken
          /\ lostAnswer' \in BOOLEAN
      <3>1. cached' \in [Brokers -> 0..MaxToken]
        BY <1>1, <2>1 DEF LoginTypeOK, Caches, Reading
      <3>2. live' \in 1..MaxToken
        BY <1>1, <2>1 DEF LoginTypeOK
      <3>3. lostAnswer' \in BOOLEAN
        BY <1>1, <2>1 DEF LoginTypeOK
      <3>4. QED
        BY <3>1, <3>2, <3>3
    <2>3. LoginTypeOK'
      BY <1>1, <1>2, <1>3, <2>1, <2>2 DEF LoginTypeOK
    <2>4. FileFits'
      BY <1>1, <1>2, <1>4, <2>1 DEF FileFits
    <2>5. GivenUpWasTurnedDown' /\ GivenUpIsNotTried'
      BY <1>4, <2>1 DEF LoginInv, GivenUpWasTurnedDown, GivenUpIsNotTried
    <2>6. Broken' \/ LoginFits'
      <3>1. CASE lostAnswer' = TRUE
        BY <3>1 DEF Broken
      <3>2. CASE UNCHANGED <<live, lostAnswer>>
        <4>1. LoginFits => LoginFits'
          <5>1. \A r \in Requests : ~Saving(r)
            BY <1>2, RefreshesAlone DEF Posting, Saving, Refreshing
          <5>2. QED
            BY <1>2, <1>4, <2>1, <3>2, <5>1 DEF LoginFits
        <4>2. QED
          BY <1>2, <3>2, <4>1 DEF LoginInv, Broken
      <3>3. QED
        BY <2>1, <3>1, <3>2
    <2>7. QED
      BY <1>1, <1>2, <1>3, <2>3, <2>4, <2>5, <2>6 DEF LoginInv
  <1>7. QED
    BY <1>5, <1>6

\* A request takes its daemon's own lock.
LEMMA GuardingKeeps ==
    ASSUME LoginInv, NEW q \in Requests, Guards(q) PROVE LoginInv'
  <1>1. /\ LoginTypeOK /\ servedBy \in [Requests -> Brokers] /\ LocksFit /\ FileFits
        /\ servedBy[q] \in Brokers /\ NoRequest \notin Requests
    BY LoginAssumption DEF LoginInv
  <1>2. /\ reqAt[q] \in {"new", "refused"} /\ guardHolder[servedBy[q]] = NoRequest
        /\ guardHolder' = [guardHolder EXCEPT ![servedBy[q]] = q]
        /\ reqAt' = [reqAt EXCEPT ![q] = IF @ = "new" THEN "checking" ELSE "rechecking"]
        /\ UNCHANGED <<endpointVars, fileVars, daemonVars, flock, servedBy, sentAgain,
                       reqToken, toldVars>>
    BY DEF Guards
  <1>3. LoginTypeOK'
    BY <1>1, <1>2 DEF LoginTypeOK, endpointVars, fileVars, daemonVars, toldVars
  <1>4. \A r \in Requests : /\ Saving(r)' <=> Saving(r)
                            /\ Posting(r)' <=> Posting(r)
                            /\ Guarded(r)' => Guarded(r) \/ r = q
    BY <1>1, <1>2 DEF LoginTypeOK, Saving, Posting, Guarded
  <1>5. LocksFit'
    <2>1. \A r \in Requests : Guarded(r) => servedBy[r] # servedBy[q]
      BY <1>1, <1>2 DEF LocksFit
    <2>2. \A r \in Requests : Guarded(r)' => guardHolder'[servedBy'[r]] = r
      BY <1>1, <1>2, <1>4, <2>1 DEF LoginTypeOK, LocksFit
    <2>3. QED
      BY <1>1, <1>2, <1>4, <2>2 DEF LocksFit, Refreshing
  <1>6. FileFits' /\ (LoginFits => LoginFits')
    BY <1>1, <1>2, <1>4
    DEF FileFits, LoginFits, endpointVars, fileVars, daemonVars, toldVars
  <1>7. GivenUpWasTurnedDown' /\ GivenUpIsNotTried'
    BY <1>2, <1>4 DEF LoginInv, GivenUpWasTurnedDown, GivenUpIsNotTried, daemonVars, toldVars
  <1>8. QED
    BY <1>1, <1>2, <1>3, <1>5, <1>6, <1>7 DEF LoginInv, Broken, toldVars

\* No copy answers a read.
LEMMA UnreadableKeeps ==
    ASSUME LoginInv, NEW q \in Requests, Unreadable(q) PROVE LoginInv'
  <1>1. LoginTypeOK /\ servedBy \in [Requests -> Brokers] /\ servedBy[q] \in Brokers
    BY DEF LoginInv
  <1>2. /\ cached' = [cached EXCEPT ![servedBy[q]] = 0] /\ FailsRequest(q)
        /\ UNCHANGED <<endpointVars, fileVars, pinned, failedToken, servedBy, sentAgain,
                       reqToken, outside, unsaved, lostAnswer, deaths>>
    BY DEF Unreadable
  <1>3. ~Saving(q)
    BY <1>1 DEF Unreadable, TurnsDown, LoginTypeOK, AtTheLock, Saving, Posting
  <1>4. \/ spentTried' = spentTried /\ turnedDown' = turnedDown
        \/ /\ Posting(q) /\ spentTried' = (spentTried \/ reqToken[q] < live)
           /\ turnedDown' = turnedDown \union {reqToken[q]}
    BY DEF Unreadable, TurnsDown
  <1>5. /\ spentTried' \in BOOLEAN
        /\ turnedDown' \subseteq 0..MaxToken /\ turnedDown \subseteq turnedDown'
    BY <1>1, <1>4 DEF LoginTypeOK
  <1>6. /\ LocksFit' /\ flock' \in Brokers \union {NoBroker}
        /\ guardHolder' \in [Brokers -> Requests \union {NoRequest}]
        /\ ~Refreshing(q)' /\ \A r \in Requests : r # q => reqAt'[r] = reqAt[r]
        /\ reqAt' \in [Requests -> {"new", "checking", "posting", "saving", "ready",
                       "refused", "rechecking", "reposting", "resaving", "over"}]
    BY <1>2, LocksAreDropped
  <1>7. LoginTypeOK'
    <2>1. cached' \in [Brokers -> 0..MaxToken]
      BY <1>1, <1>2, LoginAssumption DEF LoginTypeOK
    <2>2. QED
      BY <1>1, <1>2, <1>5, <1>6, <2>1 DEF LoginTypeOK, endpointVars, fileVars
  <1>8. Broken \/ ~spentTried'
    BY <1>1, <1>4 DEF LoginInv, LoginFits, LoginTypeOK
  <1>9. /\ FileFits' /\ GivenUpWasTurnedDown' /\ GivenUpIsNotTried'
        /\ Broken' \/ LoginFits'
    BY <1>2, <1>3, <1>5, <1>6, <1>8, NothingSaved DEF endpointVars, fileVars
  <1>10. QED
    BY <1>1, <1>2, <1>6, <1>7, <1>9 DEF LoginInv

\* A request is sent.
LEMMA SendingKeeps ==
    ASSUME LoginInv, NEW q \in Requests, SendsOn(q) PROVE LoginInv'
  <1> DEFINE token == Reading(servedBy[q])
  <1>1. /\ LoginTypeOK /\ servedBy \in [Requests -> Brokers] /\ LocksFit /\ FileFits
        /\ servedBy[q] \in Brokers
    BY DEF LoginInv
  <1>2. token \in 0..MaxToken
    BY <1>1 DEF LoginTypeOK, Reading
  <1>3. PICK w \in {"refused", "over"} :
          /\ reqAt[q] = "ready" /\ cached' = [cached EXCEPT ![servedBy[q]] = token]
          /\ reqToken' = [reqToken EXCEPT ![q] = token] /\ reqAt' = [reqAt EXCEPT ![q] = w]
          /\ UNCHANGED <<endpointVars, fileVars, pinned, failedToken, lockVars, servedBy,
                         sentAgain, toldVars>>
    BY DEF SendsOn, Caches
  <1> HIDE DEF token
  <1>4. LoginTypeOK'
    BY <1>1, <1>2, <1>3
    DEF LoginTypeOK, endpointVars, fileVars, lockVars, toldVars
  <1>5. /\ ~Refreshing(q)' /\ ~Guarded(q)' /\ ~Saving(q)
        /\ \A r \in Requests : r # q => reqAt'[r] = reqAt[r] /\ reqToken'[r] = reqToken[r]
    BY <1>1, <1>3 DEF LoginTypeOK, Refreshing, Saving, Posting, Guarded
  <1>6. LocksFit'
    BY <1>1, <1>3, <1>5 DEF LocksFit, Refreshing, Saving, Posting, Guarded, lockVars
  <1>7. /\ FileFits' /\ GivenUpWasTurnedDown' /\ GivenUpIsNotTried'
        /\ Broken' \/ LoginFits'
    <2>1. Broken \/ ~spentTried'
      BY <1>3 DEF LoginInv, LoginFits, toldVars
    <2>2. QED
      BY <1>3, <1>5, <2>1, NothingSaved DEF endpointVars, fileVars, toldVars
  <1>8. QED
    BY <1>1, <1>3, <1>4, <1>6, <1>7 DEF LoginInv

LEMMA DyingKeeps ==
    ASSUME LoginInv, NEW d \in Brokers, DaemonDies(d) PROVE LoginInv'
  <1> DEFINE mine == {q \in Requests : servedBy[q] = d}
  <1>1. /\ LoginTypeOK /\ servedBy \in [Requests -> Brokers] /\ LocksFit /\ FileFits
        /\ MaxDeaths \in Nat /\ MaxToken \in Nat
    BY LoginAssumption DEF LoginInv
  <1>2. /\ deaths < MaxDeaths /\ deaths' = deaths + 1
        /\ unsaved' = (unsaved \/ pinned[d] \/ \E q \in mine : Saving(q))
        /\ reqAt' = [q \in Requests |-> IF q \in mine THEN "over" ELSE reqAt[q]]
        /\ cached' = [cached EXCEPT ![d] = 0] /\ pinned' = [pinned EXCEPT ![d] = FALSE]
        /\ failedToken' = [failedToken EXCEPT ![d] = 0]
        /\ guardHolder' = [guardHolder EXCEPT ![d] = NoRequest]
        /\ flock' = IF flock = d THEN NoBroker ELSE flock
        /\ UNCHANGED <<endpointVars, fileVars, servedBy, sentAgain, reqToken, spentTried,
                       outside, lostAnswer, turnedDown>>
    BY DEF DaemonDies
  <1>3. \A q \in Requests : IF servedBy[q] = d THEN reqAt'[q] = "over" ELSE reqAt'[q] = reqAt[q]
    BY <1>2
  <1>4. LoginTypeOK'
    <2>1. unsaved' \in BOOLEAN /\ deaths' \in 0..MaxDeaths
      BY <1>1, <1>2 DEF LoginTypeOK
    <2>2. reqAt' \in [Requests -> {"new", "checking", "posting", "saving", "ready", "refused",
                                   "rechecking", "reposting", "resaving", "over"}]
      BY <1>1, <1>2 DEF LoginTypeOK
    <2>3. /\ guardHolder' \in [Brokers -> Requests \union {NoRequest}]
          /\ pinned' \in [Brokers -> BOOLEAN] /\ flock' \in Brokers \union {NoBroker}
      BY <1>1, <1>2 DEF LoginTypeOK
    <2>4. {cached, failedToken}' \subseteq [Brokers -> 0..MaxToken]
      BY <1>1, <1>2 DEF LoginTypeOK
    <2>5. QED
      BY <1>1, <1>2, <2>1, <2>2, <2>3, <2>4 DEF LoginTypeOK, endpointVars, fileVars
  <1>5. \A r \in Requests : /\ Saving(r)' <=> Saving(r) /\ servedBy[r] # d
                            /\ Posting(r)' <=> Posting(r) /\ servedBy[r] # d
                            /\ Guarded(r)' <=> Guarded(r) /\ servedBy[r] # d
    BY <1>3 DEF Saving, Posting, Guarded
  <1>6. LocksFit'
    <2>1. \A r \in Requests : Guarded(r)' => guardHolder'[servedBy'[r]] = r
      BY <1>1, <1>2, <1>5 DEF LocksFit, LoginTypeOK
    <2>2. QED
      BY <1>1, <1>2, <1>5, <2>1 DEF LocksFit, Refreshing
  <1>7. FileFits'
    <2>1. \A e \in Brokers : pinned'[e] => pinned[e]
      BY <1>1, <1>2 DEF LoginTypeOK
    <2>2. unsaved => unsaved'
      BY <1>2
    <2>3. QED
      BY <1>1, <1>2, <1>5, <2>1, <2>2 DEF FileFits, endpointVars, fileVars
  <1>8. LoginFits /\ ~unsaved' => LoginFits'
    <2>1. SUFFICES ASSUME LoginFits, ~unsaved' PROVE LoginFits'
      OBVIOUS
    <2>2. \A r \in Requests : Saving(r)' <=> Saving(r)
      BY <1>2, <1>5, <2>1
    <2>3. QED
      BY <1>2, <1>5, <2>1, <2>2 DEF LoginFits, endpointVars, fileVars
  <1>9. GivenUpWasTurnedDown' /\ GivenUpIsNotTried'
    BY <1>1, <1>2, <1>5 DEF LoginInv, GivenUpWasTurnedDown, GivenUpIsNotTried, LoginTypeOK
  <1>10. Broken' \/ LoginFits'
    BY <1>2, <1>8 DEF LoginInv, Broken
  <1>11. QED
    BY <1>1, <1>2, <1>4, <1>6, <1>7, <1>9, <1>10 DEF LoginInv

\* The endpoint, and the operator's own codex, which asks for no lock.
LEMMA OutsideKeeps ==
    ASSUME LoginInv, TokensAge \/ ExpiresToken \/ HandPosts \/ HandRewrites
    PROVE  LoginInv'
  <1>1. /\ LoginTypeOK /\ servedBy \in [Requests -> Brokers] /\ LocksFit /\ FileFits
        /\ MaxToken \in Nat
    BY LoginAssumption DEF LoginInv
  <1>2. /\ UNCHANGED <<servedBy, reqAt, sentAgain, reqToken, guardHolder, flock>>
        /\ \A r \in Requests : /\ Saving(r)' <=> Saving(r)
                               /\ Posting(r)' <=> Posting(r)
                               /\ Guarded(r)' <=> Guarded(r)
    BY DEF TokensAge, ExpiresToken, HandPosts, HandRewrites, requestVars, lockVars, Saving,
           Posting, Guarded
  <1>3. LocksFit'
    BY <1>1, <1>2 DEF LocksFit, Refreshing
  <1>4. CASE TokensAge \/ ExpiresToken
    <2>1. /\ UNCHANGED <<live, fileVars, daemonVars, toldVars>>
          /\ {refusedUpTo, agedToken}' \subseteq 0..MaxToken
      BY <1>1, <1>4 DEF TokensAge, ExpiresToken, LoginTypeOK
    <2>2. LoginTypeOK'
      BY <1>1, <1>2, <2>1 DEF LoginTypeOK, fileVars, daemonVars, toldVars
    <2>3. FileFits' /\ (LoginFits => LoginFits')
      BY <1>1, <1>2, <2>1 DEF FileFits, LoginFits, fileVars, daemonVars, toldVars
    <2>4. GivenUpWasTurnedDown' /\ GivenUpIsNotTried'
      BY <1>2, <2>1 DEF LoginInv, GivenUpWasTurnedDown, GivenUpIsNotTried, daemonVars, toldVars
    <2>5. QED
      BY <1>1, <1>2, <1>3, <2>1, <2>2, <2>3, <2>4 DEF LoginInv, Broken, toldVars
  <1>5. CASE HandPosts
    <2>1. /\ live < MaxToken /\ live' = live + 1 /\ handToken' = live + 1 /\ outside' = TRUE
          /\ UNCHANGED <<refusedUpTo, agedToken, authFile, midWrite, daemonVars, spentTried,
                         unsaved, lostAnswer, turnedDown, deaths>>
      BY <1>5 DEF HandPosts
    <2>2. LoginTypeOK'
      BY <1>1, <1>2, <2>1 DEF LoginTypeOK, daemonVars
    <2>3. FileFits'
      BY <1>1, <1>2, <2>1 DEF LoginInv, FileFits, LoginTypeOK, daemonVars
    <2>4. GivenUpWasTurnedDown' /\ GivenUpIsNotTried'
      BY <1>2, <2>1 DEF LoginInv, GivenUpWasTurnedDown, GivenUpIsNotTried, daemonVars
    <2>5. QED
      BY <1>1, <1>2, <1>3, <2>1, <2>2, <2>3, <2>4 DEF LoginInv, Broken
  <1>6. CASE HandRewrites
    <2>1. /\ handToken # 0 /\ midWrite' = ~midWrite /\ pinned' = [d \in Brokers |-> FALSE]
          /\ IF midWrite THEN authFile' = handToken /\ handToken' = 0
             ELSE UNCHANGED <<authFile, handToken>>
          /\ UNCHANGED <<endpointVars, cached, failedToken, toldVars>>
      BY <1>6 DEF HandRewrites
    <2>2. LoginTypeOK'
      BY <1>1, <1>2, <2>1 DEF LoginTypeOK, endpointVars, toldVars
    <2>3. FileFits' /\ outside'
      BY <1>1, <1>2, <2>1 DEF FileFits, endpointVars, toldVars
    <2>4. GivenUpWasTurnedDown' /\ GivenUpIsNotTried'
      BY <1>2, <2>1 DEF LoginInv, GivenUpWasTurnedDown, GivenUpIsNotTried, toldVars
    <2>5. QED
      BY <1>1, <1>2, <1>3, <2>1, <2>2, <2>3, <2>4 DEF LoginInv, Broken
  <1>7. QED
    BY <1>4, <1>5, <1>6

LEMMA LoginInvKept == LoginInv /\ [LoginNext]_loginVars => LoginInv'
  <1>1. SUFFICES ASSUME LoginInv, [LoginNext]_loginVars PROVE LoginInv'
    OBVIOUS
  <1>2. CASE UNCHANGED loginVars
    <2>1. LoginTypeOK' /\ GivenUpWasTurnedDown' /\ servedBy' = servedBy
      BY <1>1, <1>2
      DEF LoginInv, LoginTypeOK, GivenUpWasTurnedDown, loginVars, endpointVars, fileVars,
          daemonVars, lockVars, requestVars, toldVars
    <2>2. \A r \in Requests : /\ Saving(r)' <=> Saving(r)
                              /\ Posting(r)' <=> Posting(r)
                              /\ Guarded(r)' <=> Guarded(r)
      BY <1>2 DEF loginVars, requestVars, Saving, Posting, Guarded
    <2>3. LocksFit' /\ FileFits' /\ GivenUpIsNotTried' /\ (LoginFits => LoginFits')
      BY <1>1, <1>2, <2>2
      DEF LoginInv, LocksFit, FileFits, GivenUpIsNotTried, LoginFits, Refreshing, loginVars,
          endpointVars, fileVars, daemonVars, lockVars, requestVars, toldVars
    <2>4. QED
      BY <1>1, <1>2, <2>1, <2>3 DEF LoginInv, Broken, loginVars, toldVars
  <1>3. QED
    BY <1>1, <1>2, EnteringKeeps, PostingKeeps, SavingKeeps, NoAnswerKeeps, GuardingKeeps,
       UnreadableKeeps, SendingKeeps, DyingKeeps, OutsideKeeps
    DEF LoginNext

\* What the locks and the file say of each other makes the login a shared one.
LEMMA LoginInvShares == LoginInv => LoginIsShared
  <1>1. SUFFICES ASSUME LoginInv PROVE LoginIsShared
    OBVIOUS
  <1>2. SpendsOnce /\ LoginIsKept /\ GivenUpWasTurnedDown /\ GivenUpIsNotTried
    BY <1>1 DEF LoginInv, LoginFits, SpendsOnce, LoginIsKept
  <1>3. OneRefresh
    <2> DEFINE busy == {q \in Requests : Posting(q) \/ Saving(q)}
    <2>1. CASE busy = {}
      BY <2>1, FS_EmptySet DEF OneRefresh
    <2>2. CASE busy # {}
      <3>1. PICK q \in Requests : busy = {q}
        BY <1>1, <2>2, RefreshesAlone DEF Refreshing
      <3>2. QED
        BY <3>1, FS_Singleton DEF OneRefresh
    <2>3. QED
      BY <2>1, <2>2
  <1>4. QED
    BY <1>2, <1>3 DEF LoginIsShared

\* The daemons that share a login refresh it one at a time, spend each refresh token once and
\* keep the answer unless it is lost on the way, and give up nothing but a token that the
\* endpoint turned down, which they do not try again (codex_auth.py).
THEOREM LoginsAreShared == LoginSpec => []LoginIsShared
  <1>1. LoginInit => LoginInv
    BY LoginInvStarts
  <1>2. LoginInv /\ [LoginNext]_loginVars => LoginInv'
    BY LoginInvKept
  <1>3. LoginInv => LoginIsShared
    BY LoginInvShares
  <1>4. QED
    BY <1>1, <1>2, <1>3, PTL DEF LoginSpec

-----------------------------------------------------------------------------
(* BrokeredCommand.                                                        *)

BeingRun == commandStage \in {"feeding", "reading"}

CommandShape ==
    /\ commandStage \in {"none", "feeding", "reading", "ok", "capped", "timedOut", "refused",
                         "cancelled"}
    /\ child \in {"none", "running", "exited", "killed"}
    /\ want \in {"read", "out", "err", "sleep", "exit"}
    /\ closed \in BOOLEAN /\ slept \in BOOLEAN

\* What was written was read or is in the pipe, and a stream that ended held nothing more.
StreamsFit ==
    /\ \A s \in Streams : wrote[s] = kept[s] + buffered[s]
    /\ \A s \in Streams : over[s] = "no" => kept[s] < StreamCap
    /\ \A s \in Streams : over[s] = "eof" => buffered[s] = 0 /\ child # "running"

\* Where the request is says what became of its child.
RequestFits ==
    /\ commandStage \in {"none", "refused"} => child = "none"
    /\ commandStage \in {"none", "feeding", "refused"} => over = [s \in Streams |-> "no"]
    /\ commandStage \in {"none", "feeding"} => ~closed
    /\ commandStage = "reading" => closed
    /\ BeingRun => child \in {"running", "exited"}
    /\ child = "running" => BeingRun \/ commandStage = "cancelled"
    /\ child = "running" /\ want = "sleep" => slept

CommandInv ==
    /\ CommandTypeOK /\ CommandShape /\ StreamsFit /\ RequestFits
    /\ TimeoutIsItsOwn /\ OutputIsWhole

LEMMA CommandInvStarts == CommandInit => CommandInv
  <1>1. SUFFICES ASSUME CommandInit PROVE CommandInv
    OBVIOUS
  <1>2. /\ MaxInput \in Nat /\ Hold \in Nat /\ MaxWrites \in Nat
        /\ InRoom \in Nat \ {0} /\ OutRoom \in Nat \ {0} /\ StreamCap \in Nat \ {0}
    BY CommandAssumption
  <1>3. CommandTypeOK /\ CommandShape
    <2>1. /\ wrote \in [Streams -> 0..MaxWrites] /\ buffered \in [Streams -> 0..OutRoom]
          /\ kept \in [Streams -> 0..StreamCap] /\ over \in [Streams -> {"no", "eof", "cap"}]
      BY <1>1, <1>2 DEF CommandInit
    <2>2. CommandTypeOK
      BY <1>1, <1>2, <2>1 DEF CommandInit, CommandTypeOK
    <2>3. CommandShape
      BY <1>1 DEF CommandInit, CommandShape
    <2>4. QED
      BY <2>2, <2>3
  <1>4. StreamsFit /\ RequestFits
    BY <1>1, <1>2 DEF CommandInit, StreamsFit, RequestFits, BeingRun
  <1>5. QED
    BY <1>1, <1>3, <1>4 DEF CommandInit, CommandInv, TimeoutIsItsOwn, OutputIsWhole

\* The child goes on, reads, writes or ends, or its stdin is flushed.
LEMMA ChildStepKeeps ==
    ASSUME CommandInv,
           \/ ChildReads \/ ChildTurns \/ HolderEnds \/ Flush
           \/ \E s \in Streams : ChildWrites(s)
           \/ \E leaves \in BOOLEAN : ChildExits(leaves)
    PROVE  CommandInv'
  <1>1. CommandTypeOK /\ CommandShape /\ StreamsFit /\ RequestFits
    BY DEF CommandInv
  <1>2. /\ MaxInput \in Nat /\ Hold \in Nat /\ MaxWrites \in Nat
        /\ InRoom \in Nat \ {0} /\ OutRoom \in Nat \ {0} /\ StreamCap \in Nat \ {0}
    BY CommandAssumption
  <1>3. CASE ChildReads
    <2>1. CommandTypeOK' /\ CommandShape'
      BY <1>1, <1>2, <1>3 DEF ChildReads, Chooses, CommandTypeOK, CommandShape
    <2>2. StreamsFit' /\ RequestFits'
      BY <1>1, <1>3
      DEF ChildReads, Chooses, StreamsFit, RequestFits, BeingRun, CommandShape
    <2>3. TimeoutIsItsOwn' /\ OutputIsWhole'
      BY <1>1, <1>3
      DEF ChildReads, CommandInv, TimeoutIsItsOwn, OutputIsWhole, RequestFits, BeingRun
    <2>4. QED
      BY <2>1, <2>2, <2>3 DEF CommandInv
  <1>4. CASE ChildTurns
    <2>1. CommandTypeOK' /\ CommandShape'
      BY <1>1, <1>4 DEF ChildTurns, Chooses, data, CommandTypeOK, CommandShape
    <2>2. StreamsFit' /\ RequestFits'
      BY <1>1, <1>4
      DEF ChildTurns, Chooses, data, StreamsFit, RequestFits, BeingRun, CommandShape
    <2>3. TimeoutIsItsOwn' /\ OutputIsWhole'
      BY <1>1, <1>4
      DEF ChildTurns, CommandInv, TimeoutIsItsOwn, OutputIsWhole, RequestFits, BeingRun
    <2>4. QED
      BY <2>1, <2>2, <2>3 DEF CommandInv
  <1>5. CASE HolderEnds
    BY <1>1, <1>5
    DEF HolderEnds, data, CommandInv, CommandTypeOK, CommandShape, StreamsFit, RequestFits,
        BeingRun, TimeoutIsItsOwn, OutputIsWhole
  <1>6. CASE Flush
    <2>1. CommandTypeOK' /\ CommandShape'
      BY <1>1, <1>2, <1>6 DEF Flush, CommandTypeOK, CommandShape
    <2>2. QED
      BY <1>1, <1>6, <2>1
      DEF Flush, CommandInv, StreamsFit, RequestFits, BeingRun, TimeoutIsItsOwn, OutputIsWhole
  <1>7. ASSUME NEW s \in Streams, ChildWrites(s) PROVE CommandInv'
    <2>1. /\ child = "running" /\ buffered[s] < OutRoom /\ wrote[s] < MaxWrites
          /\ wrote' = [wrote EXCEPT ![s] = @ + 1]
          /\ buffered' = [buffered EXCEPT ![s] = @ + 1] /\ Chooses
          /\ UNCHANGED <<commandTurn, server, commandStage, child, holder, unsent, inPipe,
                         closed, kept, over>>
      BY <1>7 DEF ChildWrites
    <2>2. CommandTypeOK'
      BY <1>1, <1>2, <2>1 DEF CommandTypeOK
    <2>3. CommandShape'
      BY <1>1, <2>1 DEF CommandShape, Chooses
    <2>4. StreamsFit'
      BY <1>1, <1>2, <2>1 DEF StreamsFit, CommandTypeOK
    <2>5. RequestFits'
      BY <1>1, <2>1 DEF RequestFits, BeingRun, Chooses, CommandShape
    <2>6. TimeoutIsItsOwn' /\ OutputIsWhole'
      BY <1>1, <2>1 DEF TimeoutIsItsOwn, OutputIsWhole, RequestFits, BeingRun
    <2>7. QED
      BY <2>2, <2>3, <2>4, <2>5, <2>6 DEF CommandInv
  <1>8. ASSUME NEW leaves \in BOOLEAN, ChildExits(leaves) PROVE CommandInv'
    BY <1>1, <1>8
    DEF ChildExits, data, CommandInv, CommandTypeOK, CommandShape, StreamsFit, RequestFits,
        BeingRun, TimeoutIsItsOwn, OutputIsWhole
  <1>9. QED
    BY <1>3, <1>4, <1>5, <1>6, <1>7, <1>8

\* The broker reads a stream, or finds that it ended.
LEMMA ReadingKeeps ==
    ASSUME CommandInv, NEW s \in Streams, ReadSome(s) \/ ReadEof(s) PROVE CommandInv'
  <1>1. CommandTypeOK /\ CommandShape /\ StreamsFit /\ RequestFits
    BY DEF CommandInv
  <1>2. /\ MaxWrites \in Nat /\ OutRoom \in Nat \ {0} /\ StreamCap \in Nat \ {0}
    BY CommandAssumption
  <1>3. CASE ReadSome(s)
    <2>1. /\ commandStage = "reading" /\ over[s] = "no" /\ buffered[s] > 0
          /\ buffered' = [buffered EXCEPT ![s] = @ - 1]
          /\ kept' = [kept EXCEPT ![s] = @ + 1]
          /\ over' = [over EXCEPT ![s] = IF kept[s] + 1 = StreamCap THEN "cap" ELSE "no"]
          /\ UNCHANGED <<commandTurn, server, commandStage, child, want, holder, slept, unsent,
                         inPipe, closed, wrote>>
      BY <1>3 DEF ReadSome, CanRead
    <2>2. CommandTypeOK'
      <3>1. kept[s] + 1 \in 0..StreamCap /\ buffered[s] - 1 \in 0..OutRoom
        BY <1>1, <1>2, <2>1 DEF CommandTypeOK, StreamsFit
      <3>2. QED
        BY <1>1, <2>1, <3>1 DEF CommandTypeOK
    <2>3. CommandShape'
      BY <1>1, <2>1 DEF CommandShape
    <2>4. StreamsFit'
      BY <1>1, <1>2, <2>1 DEF StreamsFit, CommandTypeOK
    <2>5. RequestFits' /\ TimeoutIsItsOwn' /\ OutputIsWhole'
      BY <1>1, <2>1 DEF RequestFits, BeingRun, TimeoutIsItsOwn, OutputIsWhole
    <2>6. QED
      BY <2>2, <2>3, <2>4, <2>5 DEF CommandInv
  <1>4. CASE ReadEof(s)
    <2>1. /\ commandStage = "reading" /\ buffered[s] = 0 /\ child # "running"
          /\ over' = [over EXCEPT ![s] = "eof"]
          /\ UNCHANGED <<commandTurn, server, commandStage, child, want, holder, slept, unsent,
                         inPipe, closed, wrote, buffered, kept>>
      BY <1>4 DEF ReadEof
    <2>2. CommandTypeOK' /\ CommandShape'
      BY <1>1, <2>1 DEF CommandTypeOK, CommandShape
    <2>3. StreamsFit'
      BY <1>1, <2>1 DEF StreamsFit, CommandTypeOK
    <2>4. QED
      BY <1>1, <2>1, <2>2, <2>3
      DEF CommandInv, RequestFits, BeingRun, TimeoutIsItsOwn, OutputIsWhole
  <1>5. QED
    BY <1>3, <1>4

\* Nothing moves, and the child has not slept: it has exited, or its stdin is open.
LEMMA StuckForAReason ==
    ASSUME CommandInv, commandStage \in {"feeding", "reading"}, Stuck
    PROVE  slept \/ child = "exited" \/ ~closed
  <1>1. SUFFICES ASSUME ~slept, child # "exited", closed PROVE FALSE
    OBVIOUS
  <1>2. CommandTypeOK /\ CommandShape /\ StreamsFit /\ RequestFits
    BY DEF CommandInv
  <1>3. child = "running" /\ want # "sleep"
    BY <1>1, <1>2 DEF RequestFits, BeingRun
  <1>4. want \in {"read", "out", "err"}
    BY <1>2, <1>3 DEF Stuck, CommandShape, Streams
  <1>5. want # "read"
    BY <1>1, <1>3 DEF Stuck, Streams
  <1>6. PICK s \in Streams : want = s
    BY <1>4, <1>5 DEF Streams
  <1>7. buffered[s] = OutRoom /\ OutRoom > 0 /\ OutRoom \in Nat
    BY <1>3, <1>6, CommandAssumption DEF Stuck, Streams
  <1>8. ~CanRead(s) /\ over[s] # "cap"
    BY DEF Stuck
  <1>9. over[s] \in {"no", "eof"} /\ over[s] # "eof"
    BY <1>2, <1>3, <1>8 DEF StreamsFit, CommandTypeOK
  <1>10. commandStage = "feeding"
    BY <1>7, <1>8, <1>9 DEF CanRead
  <1>11. QED
    BY <1>1, <1>2, <1>3, <1>10 DEF RequestFits

\* The request begins, goes on, ends as its child did, or is cut short.
LEMMA RequestStepKeeps ==
    ASSUME CommandInv,
           \/ Refuse \/ Fed \/ CapReached \/ StreamsEnded \/ TimesOut \/ CancelRequest
           \/ \E size \in 0..MaxInput : RunCommand(size)
    PROVE  CommandInv'
  <1>1. /\ CommandTypeOK /\ CommandShape /\ StreamsFit /\ RequestFits
        /\ TimeoutIsItsOwn /\ OutputIsWhole
    BY DEF CommandInv
  <1>2. /\ MaxWrites \in Nat /\ OutRoom \in Nat \ {0} /\ StreamCap \in Nat \ {0}
    BY CommandAssumption
  <1>3. CASE Refuse
    BY <1>1, <1>3
    DEF Refuse, data, CommandInv, CommandTypeOK, CommandShape, StreamsFit, RequestFits, BeingRun,
        TimeoutIsItsOwn, OutputIsWhole
  <1>4. ASSUME NEW size \in 0..MaxInput, RunCommand(size) PROVE CommandInv'
    <2>1. /\ commandStage = "none" /\ commandStage' = "feeding" /\ unsent' = size
          /\ child' = "running" /\ want' \in {"read", "out", "err", "sleep", "exit"}
          /\ slept' = (want' = "sleep")
          /\ UNCHANGED <<commandTurn, server, holder, inPipe, closed, wrote, buffered, kept,
                         over>>
      BY <1>4 DEF RunCommand
    <2>2. CommandTypeOK' /\ CommandShape'
      BY <1>1, <1>4, <2>1 DEF CommandTypeOK, CommandShape
    <2>3. over = [s \in Streams |-> "no"]
      BY <1>1, <2>1 DEF RequestFits
    <2>4. StreamsFit'
      BY <1>1, <2>1, <2>3 DEF StreamsFit
    <2>5. RequestFits' /\ TimeoutIsItsOwn' /\ OutputIsWhole'
      BY <1>1, <2>1, <2>3 DEF RequestFits, BeingRun, TimeoutIsItsOwn, OutputIsWhole
    <2>6. QED
      BY <2>2, <2>4, <2>5 DEF CommandInv
  <1>5. CASE Fed
    BY <1>1, <1>5
    DEF Fed, CommandInv, CommandTypeOK, CommandShape, StreamsFit, RequestFits, BeingRun,
        TimeoutIsItsOwn, OutputIsWhole
  <1>6. CASE CapReached
    BY <1>1, <1>6
    DEF CapReached, Terminated, data, CommandInv, CommandTypeOK, CommandShape, StreamsFit,
        RequestFits, BeingRun, TimeoutIsItsOwn, OutputIsWhole
  <1>7. CASE StreamsEnded
    <2>1. /\ commandStage = "reading" /\ commandStage' = "ok"
          /\ \A s \in Streams : over[s] = "eof"
          /\ UNCHANGED <<commandTurn, server, child, want, holder, slept, data>>
      BY <1>7 DEF StreamsEnded
    <2>2. child # "running"
      BY <1>1, <2>1 DEF StreamsFit, Streams
    <2>3. kept = wrote
      <3>1. \A s \in Streams : kept[s] = wrote[s]
        BY <1>1, <1>2, <2>1 DEF StreamsFit, CommandTypeOK
      <3>2. QED
        BY <1>1, <3>1 DEF CommandTypeOK
    <2>4. CommandTypeOK' /\ CommandShape' /\ StreamsFit'
      BY <1>1, <2>1 DEF data, CommandTypeOK, CommandShape, StreamsFit
    <2>5. RequestFits' /\ TimeoutIsItsOwn' /\ OutputIsWhole'
      BY <1>1, <2>1, <2>2, <2>3
      DEF data, RequestFits, BeingRun, TimeoutIsItsOwn, OutputIsWhole
    <2>6. QED
      BY <2>4, <2>5 DEF CommandInv
  <1>8. CASE TimesOut
    <2>1. /\ commandStage \in {"feeding", "reading"} /\ Terminated
          /\ commandStage' = "timedOut"
          /\ UNCHANGED <<commandTurn, server, want, slept, data>>
          /\ slept \/ child = "exited" \/ ~closed
      BY <1>8, StuckForAReason DEF TimesOut
    <2>2. CommandTypeOK' /\ CommandShape' /\ StreamsFit'
      BY <1>1, <2>1 DEF Terminated, data, CommandTypeOK, CommandShape, StreamsFit
    <2>3. RequestFits' /\ TimeoutIsItsOwn' /\ OutputIsWhole'
      BY <1>1, <2>1
      DEF Terminated, data, RequestFits, BeingRun, TimeoutIsItsOwn, OutputIsWhole
    <2>4. QED
      BY <2>2, <2>3 DEF CommandInv
  <1>9. CASE CancelRequest
    BY <1>1, <1>9
    DEF CancelRequest, data, CommandInv, CommandTypeOK, CommandShape, StreamsFit, RequestFits,
        BeingRun, TimeoutIsItsOwn, OutputIsWhole
  <1>10. QED
    BY <1>3, <1>4, <1>5, <1>6, <1>7, <1>8, <1>9

LEMMA CommandInvKept == CommandInv /\ [CommandNext]_commandVars => CommandInv'
  <1>1. SUFFICES ASSUME CommandInv, [CommandNext]_commandVars PROVE CommandInv'
    OBVIOUS
  <1>2. CASE IssueToken \/ RevokeToken \/ StopServer \/ Stopped \/ UNCHANGED commandVars
    <2>1. /\ UNCHANGED <<commandStage, child, want, slept, data>>
          /\ commandTurn' \in {"none", "live", "revoked"}
          /\ server' \in {"up", "draining", "stopped"}
      BY <1>1, <1>2
      DEF IssueToken, RevokeToken, StopServer, Stopped, commandVars, data, CommandInv,
          CommandTypeOK
    <2>2. QED
      BY <1>1, <2>1
      DEF data, CommandInv, CommandTypeOK, CommandShape, StreamsFit, RequestFits, BeingRun,
          TimeoutIsItsOwn, OutputIsWhole
  <1>3. QED
    BY <1>1, <1>2, ChildStepKeeps, ReadingKeeps, RequestStepKeeps DEF CommandNext

\* A child that runs is watched while its request is at work.
LEMMA CommandInvEnds == CommandInv => CommandEndsWell
    BY DEF CommandInv, RequestFits, BeingRun, WatchedToItsEnd, CommandEndsWell

\* A brokered command ends as what it did, with all it wrote (commands.py).
THEOREM CommandsEnd == CommandSpec => []CommandEndsWell
  <1>1. CommandInit => CommandInv
    BY CommandInvStarts
  <1>2. CommandInv /\ [CommandNext]_commandVars => CommandInv'
    BY CommandInvKept
  <1>3. CommandInv => CommandEndsWell
    BY CommandInvEnds
  <1>4. QED
    BY <1>1, <1>2, <1>3, PTL DEF CommandSpec

-----------------------------------------------------------------------------
(* Egress.                                                                 *)

TunnelRecords ==
    [at : Serving \union {"none", "accepted", "closed"}, host : NetHosts, of : 0..MaxSessions,
     private : BOOLEAN, to : {"none", "public", "loopback"},
     by : {"none", "listed", "open", "grant", "approval"}, late : BOOLEAN]

\* What a connection is at each stage: judged before it is looked up, decided before it
\* is dialled, of the present session until it is closed.
HostJudged(t) == t.at \in {"lookup", "asking", "dialling", "tunnel", "half"}
Dialling(t) == t.at \in {"dialling", "tunnel", "half"}
TunnelFits(t) ==
    /\ t \in TunnelRecords
    /\ t.at \in Serving \union {"accepted"} => t.of = session
    /\ t.at \in Serving /\ proxyIs = "stopping" => t.late
    /\ HostJudged(t) => t.host = "repo"
    /\ HostJudged(t) /\ t.to = "loopback" /\ t.at # "lookup" => t.private
    /\ Dialling(t) /\ t.by \in {"grant", "approval"} => allowedBy[t.host] = session

GrantsFit ==
    /\ \A h \in granted : allowedBy[h] = session /\ h \notin withdrawn /\ h = "repo"

EgressInv ==
    /\ EgressTypeOK /\ tunnel \in [Tunnels -> TunnelRecords]
    /\ \A c \in Tunnels : TunnelFits(tunnel[c])
    /\ GrantsFit

ClosedTunnel == [NoTunnel EXCEPT !.at = "closed"]

\* A connection that is closed, or was never made, fits any proxy.
LEMMA EmptyTunnelsFit ==
    /\ NoTunnel \in TunnelRecords /\ NoTunnel.at = "none"
    /\ ClosedTunnel \in TunnelRecords /\ ClosedTunnel.at = "closed"
  <1>1. MaxSessions \in Nat
    BY EgressAssumption
  <1>2. NoTunnel \in TunnelRecords /\ NoTunnel.at = "none"
    BY <1>1 DEF NoTunnel, TunnelRecords, Serving, NetHosts
  <1>3. ClosedTunnel.at = "closed" /\ ClosedTunnel \in TunnelRecords
    BY <1>2 DEF NoTunnel, ClosedTunnel, TunnelRecords, Serving
  <1>4. QED
    BY <1>2, <1>3

LEMMA ListsAreHosts == ReadLists \in [Lists -> SUBSET NetHosts] /\ "meta" \in HostsOf("never")
    BY DEF ReadLists, HostsOf, Bundled, Lists, NetHosts

LEMMA EgressInvStarts == EgressInit => EgressInv
  <1>1. SUFFICES ASSUME EgressInit PROVE EgressInv
    OBVIOUS
  <1>2. MaxEdits \in Nat /\ MaxSessions \in Nat \ {0}
    BY EgressAssumption
  <1>3. tunnel \in [Tunnels -> TunnelRecords] /\ \A c \in Tunnels : tunnel[c] = NoTunnel
    BY <1>1, EmptyTunnelsFit DEF EgressInit
  <1>4. \A c \in Tunnels : TunnelFits(tunnel[c])
    BY <1>3, EmptyTunnelsFit DEF TunnelFits, HostJudged, Dialling, Serving
  <1>5. EgressTypeOK
    BY <1>1, <1>2, <1>3, ListsAreHosts DEF EgressInit, EgressTypeOK, NoTunnel
  <1>6. QED
    BY <1>1, <1>3, <1>4, <1>5 DEF EgressInit, EgressInv, GrantsFit

\* Where one connection changes, and the proxy only as far as that connection allows.
LEMMA OneTunnelChanges ==
    ASSUME EgressInv, NEW c \in Tunnels, NEW t, tunnel' = [tunnel EXCEPT ![c] = t],
           TunnelFits(t)', UNCHANGED <<session, proxyIs>>,
           allowedBy' = allowedBy \/ allowedBy' = [allowedBy EXCEPT !["repo"] = session]
    PROVE  /\ tunnel' \in [Tunnels -> TunnelRecords]
           /\ \A d \in Tunnels : TunnelFits(tunnel[d])'
  <1>1. t \in TunnelRecords
    BY DEF TunnelFits
  <1>2. tunnel' \in [Tunnels -> TunnelRecords] /\ tunnel'[c] = t
        /\ \A d \in Tunnels : d # c => tunnel'[d] = tunnel[d]
    BY <1>1 DEF EgressInv
  <1>3. ASSUME NEW d \in Tunnels, d # c PROVE TunnelFits(tunnel[d])'
    <2>1. TunnelFits(tunnel[d]) /\ tunnel'[d] = tunnel[d]
      BY <1>2, <1>3 DEF EgressInv
    <2>2. Dialling(tunnel[d]) => tunnel[d].host = "repo"
      BY <2>1 DEF TunnelFits, HostJudged, Dialling
    <2>3. allowedBy["repo"] = session => allowedBy'["repo"] = session
      BY DEF EgressInv, EgressTypeOK, NetHosts
    <2>4. QED
      BY <2>1, <2>2, <2>3 DEF TunnelFits, HostJudged, Dialling
  <1>4. TunnelFits(tunnel[c])'
    BY <1>2
  <1>5. QED
    BY <1>2, <1>3, <1>4

\* The types of the connections follow from those of their records.
LEMMA EgressTypes ==
    ASSUME tunnel \in [Tunnels -> TunnelRecords], NEW c \in Tunnels
    PROVE  /\ tunnel[c].at \in Serving \union {"none", "accepted", "closed"}
           /\ tunnel[c].to \in {"none", "public", "loopback"}
           /\ tunnel[c].by \in {"none", "listed", "open", "grant", "approval"}
    BY DEF TunnelRecords

\* The steps of one connection that neither ask nor judge.
LEMMA TunnelStepKeeps ==
    ASSUME EgressInv, NEW c \in Tunnels,
           \/ Accepted(c) \/ HandlerBegins(c) \/ BadRequest(c) \/ HalfDone(c)
           \/ TunnelHangsUp(c) \/ \E yes \in BOOLEAN : Dialled(c, yes)
    PROVE  EgressInv'
  <1>1. /\ TunnelFits(tunnel[c]) /\ EgressTypeOK /\ tunnel[c] \in TunnelRecords
        /\ tunnel \in [Tunnels -> TunnelRecords]
    BY DEF EgressInv
  <1>2. UNCHANGED <<asksHosts, section, editsDone, session, proxyIs, lists, granted, allowedBy,
                    withdrawn>>
    BY DEF Accepted, HandlerBegins, BadRequest, HalfDone, TunnelHangsUp, Dialled
  <1>3. PICK t : tunnel' = [tunnel EXCEPT ![c] = t] /\ TunnelFits(t)'
    <2>1. CASE HangsUp(c)
      <3>1. tunnel' = [tunnel EXCEPT ![c] = ClosedTunnel]
        BY <2>1 DEF HangsUp, ClosedTunnel
      <3>2. TunnelFits(ClosedTunnel)'
        BY <1>2, EmptyTunnelsFit DEF TunnelFits, HostJudged, Dialling, Serving
      <3>3. QED
        BY <3>1, <3>2
    <2>2. CASE Accepted(c)
      <3>0. PICK t : t = [tunnel[c] EXCEPT !.at = "accepted", !.of = session]
        OBVIOUS
      <3>1. tunnel' = [tunnel EXCEPT ![c] = t]
        BY <3>0, <1>1, <2>2 DEF Accepted
      <3>2. t \in TunnelRecords
        <4>1. session \in 0..MaxSessions
          BY <1>1, EgressAssumption DEF EgressTypeOK
        <4>2. QED
          BY <3>0, <1>1, <4>1 DEF TunnelRecords, Serving
      <3>3. t.at = "accepted" /\ t.of = session
        BY <3>0, <1>1 DEF TunnelRecords
      <3>4. TunnelFits(t)'
        BY <1>2, <3>2, <3>3 DEF TunnelFits, HostJudged, Dialling, Serving
      <3>5. QED
        BY <3>1, <3>4
    <2>3. CASE HandlerBegins(c)
      <3>0. PICK t : t = [tunnel[c] EXCEPT !.at = "reading", !.late = (proxyIs = "stopping")]
        OBVIOUS
      <3>1. tunnel' = [tunnel EXCEPT ![c] = t]
        BY <3>0, <1>1, <2>3 DEF HandlerBegins
      <3>2. t \in TunnelRecords
        BY <3>0, <1>1 DEF TunnelRecords, Serving
      <3>3. /\ t.at = "reading" /\ t.of = tunnel[c].of /\ (proxyIs = "stopping" => t.late)
            /\ tunnel[c].at = "accepted"
        BY <3>0, <1>1, <2>3 DEF TunnelRecords, HandlerBegins
      <3>4. TunnelFits(t)'
        BY <1>1, <1>2, <3>2, <3>3 DEF TunnelFits, HostJudged, Dialling, Serving
      <3>5. QED
        BY <3>1, <3>4
    <2>4. ASSUME NEW w \in {"half", "tunnel"}, tunnel' = [tunnel EXCEPT ![c].at = w],
                 tunnel[c].at \in {"tunnel", "dialling"}
          PROVE  \E t : tunnel' = [tunnel EXCEPT ![c] = t] /\ TunnelFits(t)'
      <3>0. PICK t : t = [tunnel[c] EXCEPT !.at = w]
        OBVIOUS
      <3>1. tunnel' = [tunnel EXCEPT ![c] = t]
        BY <3>0, <1>1, <2>4
      <3>2. t \in TunnelRecords
        BY <3>0, <1>1 DEF TunnelRecords, Serving
      <3>3. /\ t.at = w /\ t.of = tunnel[c].of /\ t.host = tunnel[c].host
            /\ t.private = tunnel[c].private /\ t.to = tunnel[c].to /\ t.by = tunnel[c].by
            /\ t.late = tunnel[c].late
        BY <3>0, <1>1 DEF TunnelRecords
      <3>4. TunnelFits(t)'
        BY <1>1, <1>2, <2>4, <3>2, <3>3 DEF TunnelFits, HostJudged, Dialling, Serving
      <3>5. QED
        BY <3>1, <3>4
    <2>5. QED
      BY <2>1, <2>2, <2>3, <2>4 DEF BadRequest, HalfDone, TunnelHangsUp, Dialled
  <1>4. /\ tunnel' \in [Tunnels -> TunnelRecords]
        /\ \A d \in Tunnels : TunnelFits(tunnel[d])'
    BY <1>2, <1>3, OneTunnelChanges
  <1>5. EgressTypeOK'
    BY <1>1, <1>2, <1>4 DEF EgressTypeOK, TunnelRecords, Serving
  <1>6. QED
    BY <1>2, <1>4, <1>5 DEF EgressInv, GrantsFit

LEMMA JudgingKeeps ==
    ASSUME EgressInv, NEW c \in Tunnels, NEW h \in NetHosts, Judge(c, h)
    PROVE  EgressInv'
  <1>1. /\ TunnelFits(tunnel[c]) /\ EgressTypeOK /\ tunnel[c] \in TunnelRecords
        /\ tunnel \in [Tunnels -> TunnelRecords]
    BY DEF EgressInv
  <1>2. /\ tunnel[c].at = "reading"
        /\ lists' = ReadLists /\ granted' = granted \ Removed
        /\ withdrawn' = withdrawn \union Removed
        /\ UNCHANGED <<asksHosts, section, editsDone, session, proxyIs, allowedBy>>
    BY DEF Judge, GrantsLeft
  <1>3. PICK t : tunnel' = [tunnel EXCEPT ![c] = t] /\ TunnelFits(t)'
    <2>1. CASE h \in HostsOf("never")
      <3>1. tunnel' = [tunnel EXCEPT ![c] = ClosedTunnel]
        BY <2>1 DEF Judge, HangsUp, ClosedTunnel
      <3>2. TunnelFits(ClosedTunnel)'
        BY <1>2, EmptyTunnelsFit DEF TunnelFits, HostJudged, Dialling, Serving
      <3>3. QED
        BY <3>1, <3>2
    <2>2. CASE h \notin HostsOf("never")
      <3> DEFINE inside == h \in HostsOf("private")
      <3>0. PICK t : t = [tunnel[c] EXCEPT !.at = "lookup", !.host = h, !.private = inside]
        OBVIOUS
      <3>1. tunnel' = [tunnel EXCEPT ![c] = t]
        BY <3>0, <1>1, <2>2 DEF Judge
      <3>2. h = "repo"
        BY <2>2, ListsAreHosts DEF NetHosts
      <3>3. inside \in BOOLEAN
        OBVIOUS
      <3> HIDE DEF inside
      <3>4. t \in TunnelRecords
        BY <3>0, <1>1, <3>3 DEF TunnelRecords, Serving
      <3>5. /\ t.at = "lookup" /\ t.of = tunnel[c].of /\ t.host = h
            /\ t.late = tunnel[c].late
        BY <3>0, <1>1 DEF TunnelRecords
      <3>6. TunnelFits(t)'
        BY <1>1, <1>2, <3>2, <3>4, <3>5 DEF TunnelFits, HostJudged, Dialling, Serving
      <3>7. QED
        BY <3>1, <3>6
    <2>3. QED
      BY <2>1, <2>2
  <1>4. /\ tunnel' \in [Tunnels -> TunnelRecords]
        /\ \A d \in Tunnels : TunnelFits(tunnel[d])'
    BY <1>2, <1>3, OneTunnelChanges
  <1>5. Removed \subseteq NetHosts
    BY <1>1 DEF Removed, EgressTypeOK, HostsOf, Bundled, Lists, NetHosts
  <1>6. EgressTypeOK'
    BY <1>1, <1>2, <1>4, <1>5, ListsAreHosts DEF EgressTypeOK, TunnelRecords, Serving
  <1>7. GrantsFit'
    BY <1>2 DEF EgressInv, GrantsFit
  <1>8. QED
    BY <1>4, <1>6, <1>7 DEF EgressInv

LEMMA LookingUpKeeps ==
    ASSUME EgressInv, NEW c \in Tunnels, NEW found \in Lookups, LookedUp(c, found)
    PROVE  EgressInv'
  <1>1. /\ TunnelFits(tunnel[c]) /\ EgressTypeOK /\ tunnel[c] \in TunnelRecords
        /\ tunnel \in [Tunnels -> TunnelRecords]
    BY DEF EgressInv
  <1>2. /\ tunnel[c].at = "lookup"
        /\ UNCHANGED <<asksHosts, section, editsDone, session, proxyIs, lists, granted,
                       allowedBy, withdrawn>>
    BY DEF LookedUp
  <1>3. PICK t : tunnel' = [tunnel EXCEPT ![c] = t] /\ TunnelFits(t)'
    <2>1. CASE ~Usable(c, found)
      <3>1. tunnel' = [tunnel EXCEPT ![c] = ClosedTunnel]
        BY <2>1 DEF LookedUp, HangsUp, ClosedTunnel
      <3>2. TunnelFits(ClosedTunnel)'
        BY <1>2, EmptyTunnelsFit DEF TunnelFits, HostJudged, Dialling, Serving
      <3>3. QED
        BY <3>1, <3>2
    <2>2. CASE Usable(c, found)
      <3>1. PICK w \in {"dialling", "asking"}, by \in {"none", "listed", "open", "grant"},
                 first \in found :
              /\ tunnel' = [tunnel EXCEPT ![c].at = w, ![c].to = first, ![c].by = by]
              /\ w = "dialling" /\ by = "grant" => tunnel[c].host \in granted
        BY <2>2 DEF LookedUp
      <3>0. PICK t : t = [tunnel[c] EXCEPT !.at = w, !.to = first, !.by = by]
        OBVIOUS
      <3>2. tunnel' = [tunnel EXCEPT ![c] = t]
        BY <3>0, <1>1, <3>1
      <3>3. first \in {"public", "loopback"} /\ (first = "loopback" => tunnel[c].private)
        BY <2>2 DEF Usable, Lookups
      <3>4. t \in TunnelRecords
        BY <3>0, <1>1, <3>3 DEF TunnelRecords, Serving
      <3>5. /\ t.at = w /\ t.of = tunnel[c].of /\ t.host = tunnel[c].host
            /\ t.private = tunnel[c].private /\ t.to = first /\ t.by = by
            /\ t.late = tunnel[c].late
        BY <3>0, <1>1 DEF TunnelRecords
      <3>6. w = "dialling" /\ by = "grant" => allowedBy[tunnel[c].host] = session
        BY <3>1 DEF EgressInv, GrantsFit
      <3>7. TunnelFits(t)'
        BY <1>1, <1>2, <3>3, <3>4, <3>5, <3>6 DEF TunnelFits, HostJudged, Dialling, Serving
      <3>8. QED
        BY <3>2, <3>7
    <2>3. QED
      BY <2>1, <2>2
  <1>4. /\ tunnel' \in [Tunnels -> TunnelRecords]
        /\ \A d \in Tunnels : TunnelFits(tunnel[d])'
    BY <1>2, <1>3, OneTunnelChanges
  <1>5. EgressTypeOK'
    BY <1>1, <1>2, <1>4 DEF EgressTypeOK, TunnelRecords, Serving
  <1>6. QED
    BY <1>2, <1>4, <1>5 DEF EgressInv, GrantsFit

LEMMA AnsweringKeeps ==
    ASSUME EgressInv, NEW c \in Tunnels, NEW yes \in BOOLEAN, OperatorAnswers(c, yes)
    PROVE  EgressInv'
  <1>1. /\ TunnelFits(tunnel[c]) /\ EgressTypeOK /\ tunnel[c] \in TunnelRecords
        /\ tunnel \in [Tunnels -> TunnelRecords] /\ session \in 0..MaxSessions
    BY EgressAssumption DEF EgressInv, EgressTypeOK
  <1>2. /\ tunnel[c].at = "asking" /\ tunnel[c].host = "repo"
        /\ UNCHANGED <<asksHosts, section, editsDone, session, proxyIs, lists>>
    BY <1>1 DEF OperatorAnswers, TunnelFits, HostJudged
  <1>3. CASE yes
    <2>1. /\ tunnel' = [tunnel EXCEPT ![c].at = "dialling", ![c].by = "approval"]
          /\ granted' = granted \union {"repo"}
          /\ allowedBy' = [allowedBy EXCEPT !["repo"] = session]
          /\ withdrawn' = withdrawn \ {"repo"}
      BY <1>2, <1>3 DEF OperatorAnswers
    <2>2. /\ allowedBy' \in [NetHosts -> 0..MaxSessions] /\ allowedBy'["repo"] = session
          /\ granted' \subseteq NetHosts /\ withdrawn' \subseteq NetHosts
      BY <1>1, <2>1 DEF EgressTypeOK, NetHosts
    <2>3. PICK t : t = [tunnel[c] EXCEPT !.at = "dialling", !.by = "approval"]
      OBVIOUS
    <2>4. tunnel' = [tunnel EXCEPT ![c] = t] /\ t \in TunnelRecords
      BY <1>1, <2>1, <2>3 DEF TunnelRecords, Serving
    <2>5. /\ t.at = "dialling" /\ t.of = tunnel[c].of /\ t.host = "repo"
          /\ t.private = tunnel[c].private /\ t.to = tunnel[c].to /\ t.by = "approval"
          /\ t.late = tunnel[c].late
      BY <1>1, <1>2, <2>3 DEF TunnelRecords
    <2>6. TunnelFits(t)'
      BY <1>1, <1>2, <2>2, <2>4, <2>5 DEF TunnelFits, HostJudged, Dialling, Serving
    <2>7. /\ tunnel' \in [Tunnels -> TunnelRecords]
          /\ \A d \in Tunnels : TunnelFits(tunnel[d])'
      BY <1>2, <2>1, <2>4, <2>6, OneTunnelChanges
    <2>8. EgressTypeOK'
      BY <1>1, <1>2, <2>2, <2>7 DEF EgressTypeOK, TunnelRecords, Serving
    <2>9. GrantsFit'
      BY <1>2, <2>1, <2>2 DEF EgressInv, GrantsFit
    <2>10. QED
      BY <2>7, <2>8, <2>9 DEF EgressInv
  <1>4. CASE ~yes
    <2>1. /\ tunnel' = [tunnel EXCEPT ![c] = ClosedTunnel]
          /\ UNCHANGED <<granted, allowedBy, withdrawn>>
      BY <1>4 DEF OperatorAnswers, HangsUp, ClosedTunnel
    <2>2. TunnelFits(ClosedTunnel)'
      BY EmptyTunnelsFit DEF TunnelFits, HostJudged, Dialling, Serving
    <2>3. PICK t : t = ClosedTunnel /\ TunnelFits(t)'
      BY <2>2
    <2>4. /\ tunnel' \in [Tunnels -> TunnelRecords]
          /\ \A d \in Tunnels : TunnelFits(tunnel[d])'
      BY <1>2, <2>1, <2>3, OneTunnelChanges
    <2>5. EgressTypeOK'
      BY <1>1, <1>2, <2>1, <2>4 DEF EgressTypeOK, TunnelRecords, Serving
    <2>6. QED
      BY <1>2, <2>1, <2>4, <2>5 DEF EgressInv, GrantsFit
  <1>5. QED
    BY <1>3, <1>4

\* The proxy stops, and the next session gets one.
LEMMA ProxyStepKeeps ==
    ASSUME EgressInv, StopProxy \/ NextSession PROVE EgressInv'
  <1>1. EgressTypeOK /\ tunnel \in [Tunnels -> TunnelRecords] /\ MaxSessions \in Nat
    BY EgressAssumption DEF EgressInv
  <1>2. CASE StopProxy
    <2>1. /\ proxyIs' = "stopping"
          /\ tunnel' = [c \in Tunnels |-> IF c \in Cancelled THEN ClosedTunnel ELSE tunnel[c]]
          /\ UNCHANGED <<asksHosts, section, editsDone, session, lists, granted, allowedBy,
                         withdrawn>>
      BY <1>2 DEF StopProxy, ClosedTunnel
    <2>2. tunnel' \in [Tunnels -> TunnelRecords]
      BY <1>1, <2>1, EmptyTunnelsFit
    <2>3. ASSUME NEW c \in Tunnels PROVE TunnelFits(tunnel[c])'
      <3>1. tunnel'[c] \in TunnelRecords /\ tunnel'[c].at \notin Serving
        BY <2>1, <2>2, EmptyTunnelsFit DEF Cancelled, Serving
      <3>2. tunnel'[c].at = "accepted" => tunnel'[c].of = session
        BY <2>1, EmptyTunnelsFit DEF EgressInv, TunnelFits, Serving
      <3>3. QED
        BY <2>1, <3>1, <3>2 DEF TunnelFits, HostJudged, Dialling, Serving
    <2>4. EgressTypeOK'
      BY <1>1, <2>1, <2>2 DEF EgressTypeOK, TunnelRecords, Serving
    <2>5. QED
      BY <2>1, <2>2, <2>3, <2>4 DEF EgressInv, GrantsFit
  <1>3. CASE NextSession
    <2>1. /\ session < MaxSessions /\ \A c \in Tunnels : tunnel[c].at \in {"none", "closed"}
          /\ session' = session + 1 /\ proxyIs' = "up" /\ lists' = ReadLists /\ granted' = {}
          /\ withdrawn' = {}
          /\ UNCHANGED <<asksHosts, section, editsDone, tunnel, allowedBy>>
      BY <1>3 DEF NextSession
    <2>2. EgressTypeOK'
      BY <1>1, <2>1, ListsAreHosts DEF EgressTypeOK
    <2>3. \A c \in Tunnels : TunnelFits(tunnel[c])'
      BY <1>1, <2>1 DEF TunnelFits, HostJudged, Dialling, Serving
    <2>4. QED
      BY <1>1, <2>1, <2>2, <2>3 DEF EgressInv, GrantsFit
  <1>4. QED
    BY <1>2, <1>3

LEMMA EgressInvKept == EgressInv /\ [EgressNext]_egressVars => EgressInv'
  <1>1. SUFFICES ASSUME EgressInv, [EgressNext]_egressVars PROVE EgressInv'
    OBVIOUS
  <1>2. ASSUME UNCHANGED <<session, proxyIs, tunnel, allowedBy, withdrawn, asksHosts, lists>>,
               section' \subseteq Lists, editsDone' \in 0..MaxEdits, granted' \subseteq granted
        PROVE  EgressInv'
    BY <1>1, <1>2 DEF EgressInv, EgressTypeOK, TunnelFits, GrantsFit
  <1>3. CASE EditLists
    BY <1>1, <1>2, <1>3, EgressAssumption DEF EditLists, EgressInv, EgressTypeOK
  <1>4. ASSUME NEW h \in NetHosts, GrantLapses(h) PROVE EgressInv'
    BY <1>1, <1>2, <1>4 DEF GrantLapses, EgressInv, EgressTypeOK
  <1>5. CASE UNCHANGED egressVars
    BY <1>1, <1>2, <1>5 DEF egressVars, EgressInv, EgressTypeOK
  <1>6. QED
    BY <1>1, <1>3, <1>4, <1>5, TunnelStepKeeps, JudgingKeeps, LookingUpKeeps, AnsweringKeeps,
       ProxyStepKeeps
    DEF EgressNext

\* Every connection is as its stage and its proxy ask.
LEMMA EgressInvHolds == EgressInv => EgressKeeps
  <1>1. SUFFICES ASSUME EgressInv PROVE EgressKeeps
    OBVIOUS
  <1>2. DialsAsDecided
    BY <1>1 DEF EgressInv, GrantsFit, TunnelFits, HostJudged, Dialling, DialsAsDecided
  <1>3. StopsItsTunnels
    BY <1>1 DEF EgressInv, TunnelFits, StopsItsTunnels
  <1>4. QED
    BY <1>2, <1>3 DEF EgressKeeps

\* A connection is dialled as it was decided, and ends with its session (egress.py).
THEOREM EgressIsKept == EgressSpec => []EgressKeeps
  <1>1. EgressInit => EgressInv
    BY EgressInvStarts
  <1>2. EgressInv /\ [EgressNext]_egressVars => EgressInv'
    BY EgressInvKept
  <1>3. EgressInv => EgressKeeps
    BY EgressInvHolds
  <1>4. QED
    BY <1>1, <1>2, <1>3, PTL DEF EgressSpec

-----------------------------------------------------------------------------
(* Supervision.                                                            *)

ProcStates == {"free", "spawned", "claimed", "swept", "up", "wedged", "deaf", "closing",
               "unlinking", "closed", "zombie"}
SupStates == {"idle", "check", "resolve", "grace", "sweep", "lastPolls", "unlink", "popen",
              "wait"}

\* The daemon has the frontend; and its agents may run.
HasLock(p) == proc[p] \in {"claimed", "swept", "up", "wedged", "deaf", "closing", "unlinking",
                           "closed"}
AtWork(p) == proc[p] \in {"up", "wedged", "deaf", "closing"}

\* A supervisor that waits for a daemon knows which, and one that has killed it swept it
\* or is about to.
SupersFit ==
    /\ sup \in [Supers -> [at : SupStates, pid : Daemons \union {NoPid},
                           verb : {"none", "start", "stop", "restart"}]]
    /\ \A s \in Supers : sup[s].at \in {"grace", "sweep", "lastPolls", "wait"} =>
                            sup[s].pid \in Daemons
    /\ \A s \in Supers : sup[s].at \in {"sweep", "lastPolls"} => ~Running(sup[s].pid)

LockFits == \A p \in Daemons : HasLock(p) => lock = p

\* The heartbeat is written and removed by a daemon at work, or removed for another's.
HeartFits ==
    /\ \A p \in Daemons : proc[p] \in {"spawned", "closed"} => heart # p
    /\ \A p \in Daemons : proc[p] \in {"up", "wedged", "deaf"} => heart = p \/ p \in hidden
    /\ heart # NoPid => Running(heart) \/ heart \in crashed

GroupsFit == \A p \in groups : Running(p) => AtWork(p)

\* Every daemon at work but the one a stop is after is known to have been overlapped.
OverlapFits ==
    \A s \in Supers, p \in Daemons :
        sup[s].at \in {"grace", "sweep"} /\ AtWork(p) => p = sup[s].pid \/ p \in overlapped

SupervisionInv ==
    /\ SupervisionTypeOK /\ SupersFit /\ LockFits /\ HeartFits /\ GroupsFit /\ OverlapFits
    /\ AgentsAreItsOwn

LEMMA SupervisionInvStarts == SupervisionInit => SupervisionInv
  <1>1. SUFFICES ASSUME SupervisionInit PROVE SupervisionInv
    OBVIOUS
  <1>2. NoPid \notin Daemons
    BY SupervisionAssumption
  <1>3. \A p \in Daemons : proc[p] = "free"
    BY <1>1 DEF SupervisionInit
  <1>4. SupersFit
    BY <1>1 DEF SupervisionInit, SupersFit, IdleSuper, SupStates
  <1>5. SupervisionTypeOK
    BY <1>1, <1>4 DEF SupervisionInit, SupervisionTypeOK, SupersFit
  <1>6. LockFits /\ HeartFits /\ GroupsFit /\ OverlapFits /\ AgentsAreItsOwn
    BY <1>1, <1>2, <1>3
    DEF SupervisionInit, LockFits, HasLock, HeartFits, GroupsFit, OverlapFits, AgentsAreItsOwn,
        AtWork, Running
  <1>7. QED
    BY <1>4, <1>5, <1>6 DEF SupervisionInv

\* A supervisor's own step changes what it is doing and nothing of the others.
LEMMA SupersKept ==
    ASSUME SupersFit, NEW s \in Supers,
           sup' \in [Supers -> [at : SupStates, pid : Daemons \union {NoPid},
                                verb : {"none", "start", "stop", "restart"}]],
           \A r \in Supers : r # s => sup'[r] = sup[r],
           sup'[s].at \in {"grace", "sweep", "lastPolls", "wait"} => sup'[s].pid \in Daemons,
           sup'[s].at \in {"sweep", "lastPolls"} => ~Running(sup[s].pid)',
           \A p \in Daemons : ~Running(p) => ~Running(p)'
    PROVE  SupersFit'
  <1>1. ASSUME NEW r \in Supers
        PROVE  /\ sup'[r].at \in {"grace", "sweep", "lastPolls", "wait"} =>
                      sup'[r].pid \in Daemons
               /\ sup'[r].at \in {"sweep", "lastPolls"} => ~Running(sup[r].pid)'
    BY <1>1 DEF SupersFit
  <1>2. QED
    BY <1>1 DEF SupersFit

LEMMA SuperGoes ==
    ASSUME SupersFit, NEW s \in Supers, NEW at \in SupStates,
           NEW pid \in Daemons \union {NoPid}, Goes(s, at, pid)
    PROVE  /\ sup' \in [Supers -> [at : SupStates, pid : Daemons \union {NoPid},
                            verb : {"none", "start", "stop", "restart"}]]
           /\ \A r \in Supers : r # s => sup'[r] = sup[r]
           /\ sup'[s].at = at /\ sup'[s].pid = pid
  <1>1. sup[s] \in [at : SupStates, pid : Daemons \union {NoPid},
                    verb : {"none", "start", "stop", "restart"}]
    BY DEF SupersFit
  <1>2. PICK goes : goes = [sup[s] EXCEPT !.at = at, !.pid = pid]
    OBVIOUS
  <1>3. /\ goes \in [at : SupStates, pid : Daemons \union {NoPid},
                     verb : {"none", "start", "stop", "restart"}]
        /\ goes.at = at /\ goes.pid = pid
    BY <1>1, <1>2
  <1>4. sup' = [sup EXCEPT ![s] = goes]
    BY <1>1, <1>2 DEF Goes, SupersFit
  <1>5. QED
    BY <1>3, <1>4 DEF SupersFit

LEMMA RequestKeeps ==
    ASSUME SupervisionInv, NEW s \in Supers, NEW verb \in {"start", "stop", "restart"},
           Request(s, verb)
    PROVE  SupervisionInv'
  <1>1. /\ SupervisionTypeOK /\ SupersFit /\ LockFits /\ HeartFits /\ GroupsFit /\ OverlapFits
        /\ AgentsAreItsOwn /\ NoPid \notin Daemons
    BY SupervisionAssumption DEF SupervisionInv
  <1>2. SupervisionTypeOK' /\ SupersFit'
    BY <1>1 DEF Request, SupervisionTypeOK, SupersFit, SupStates, Running
  <1>3. LockFits' /\ HeartFits'
    BY <1>1
    DEF Request, SupervisionTypeOK, SupersFit, LockFits, HeartFits, HasLock, AtWork, Running
  <1>4. GroupsFit' /\ OverlapFits' /\ AgentsAreItsOwn'
    BY <1>1
    DEF Request, SupervisionTypeOK, SupersFit, LockFits, GroupsFit, OverlapFits,
        AgentsAreItsOwn, HasLock, AtWork, Running
  <1>5. QED
    BY <1>2, <1>3, <1>4 DEF SupervisionInv

LEMMA StopFoundKeeps ==
    ASSUME SupervisionInv, NEW s \in Supers, StopFound(s) PROVE SupervisionInv'
  <1>1. /\ SupervisionTypeOK /\ SupersFit /\ LockFits /\ HeartFits /\ GroupsFit /\ OverlapFits
        /\ AgentsAreItsOwn /\ NoPid \notin Daemons
    BY SupervisionAssumption DEF SupervisionInv
  <1>2. SupervisionTypeOK' /\ SupersFit'
    <2>1. /\ Goes(s, "grace", Resolved) /\ Resolved \in Daemons
          /\ \A p \in Daemons : ~Running(p) => ~Running(p)'
      BY <1>1
      DEF StopFound, Terminate, Dies, Resolved, NoneRuns, SupervisionTypeOK, Running
    <2>2. /\ sup' \in [Supers -> [at : SupStates, pid : Daemons \union {NoPid},
                                verb : {"none", "start", "stop", "restart"}]]
          /\ \A r \in Supers : r # s => sup'[r] = sup[r]
          /\ sup'[s].at = "grace" /\ sup'[s].pid = Resolved
      BY <1>1, <2>1, SuperGoes DEF SupStates
    <2>3. SupersFit'
      BY <1>1, <2>1, <2>2, SupersKept
    <2>4. QED
      BY <1>1, <2>3
      DEF StopFound, Terminate, Dies, Goes, Resolved, NoneRuns, HasExited, SupervisionTypeOK,
          SupersFit
  <1>3. LockFits' /\ HeartFits'
    BY <1>1
    DEF StopFound, Terminate, Dies, Goes, Resolved, NoneRuns, HasExited, SupervisionTypeOK,
        SupersFit, LockFits, HeartFits, HasLock, AtWork, Running
  <1>4. GroupsFit' /\ OverlapFits' /\ AgentsAreItsOwn'
    BY <1>1
    DEF StopFound, Terminate, Dies, Goes, Resolved, NoneRuns, HasExited, SupervisionTypeOK,
        SupersFit, LockFits, GroupsFit, OverlapFits, AgentsAreItsOwn, HasLock, AtWork,
        Running
  <1>5. QED
    BY <1>2, <1>3, <1>4 DEF SupervisionInv

LEMMA StopFoundNoneKeeps ==
    ASSUME SupervisionInv, NEW s \in Supers, StopFoundNone(s) PROVE SupervisionInv'
  <1>1. /\ SupervisionTypeOK /\ SupersFit /\ LockFits /\ HeartFits /\ GroupsFit /\ OverlapFits
        /\ AgentsAreItsOwn /\ NoPid \notin Daemons
    BY SupervisionAssumption DEF SupervisionInv
  <1>2. SupervisionTypeOK' /\ SupersFit'
    <2>1. /\ sup' \in [Supers -> [at : SupStates, pid : Daemons \union {NoPid},
                                verb : {"none", "start", "stop", "restart"}]]
          /\ \A r \in Supers : r # s => sup'[r] = sup[r]
      BY <1>1
      DEF StopFoundNone, Reaped, RemoveFiles, Then, Goes, DaemonEnds, IdleSuper, Resolved,
          NoneRuns, HasExited, SupervisionTypeOK, SupersFit, SupStates
    <2>2. /\ sup'[s].at \in {"grace", "sweep", "lastPolls", "wait"} => sup'[s].pid \in Daemons
          /\ sup'[s].at \in {"sweep", "lastPolls"} => ~Running(sup[s].pid)'
          /\ \A p \in Daemons : ~Running(p) => ~Running(p)'
      BY <1>1
      DEF StopFoundNone, Reaped, RemoveFiles, Then, Goes, DaemonEnds, IdleSuper, Resolved,
          NoneRuns, HasExited, SupervisionTypeOK, SupersFit, SupStates, Running
    <2>3. SupersFit'
      BY <1>1, <2>1, <2>2, SupersKept
    <2>4. QED
      BY <1>1, <2>3
      DEF StopFoundNone, Reaped, RemoveFiles, Then, Goes, DaemonEnds, IdleSuper, Resolved,
          NoneRuns, HasExited, SupervisionTypeOK, SupersFit
  <1>3. LockFits' /\ HeartFits'
    BY <1>1
    DEF StopFoundNone, Reaped, RemoveFiles, Then, Goes, DaemonEnds, IdleSuper, Resolved,
        NoneRuns, HasExited, SupervisionTypeOK, SupersFit, LockFits, HeartFits, HasLock,
        AtWork, Running
  <1>4. GroupsFit' /\ OverlapFits' /\ AgentsAreItsOwn'
    BY <1>1
    DEF StopFoundNone, Reaped, RemoveFiles, Then, Goes, DaemonEnds, IdleSuper, Resolved,
        NoneRuns, HasExited, SupervisionTypeOK, SupersFit, LockFits, GroupsFit, OverlapFits,
        AgentsAreItsOwn, HasLock, AtWork, Running
  <1>5. QED
    BY <1>2, <1>3, <1>4 DEF SupervisionInv

LEMMA StopSawExitKeeps ==
    ASSUME SupervisionInv, NEW s \in Supers, StopSawExit(s) PROVE SupervisionInv'
  <1>1. /\ SupervisionTypeOK /\ SupersFit /\ LockFits /\ HeartFits /\ GroupsFit /\ OverlapFits
        /\ AgentsAreItsOwn /\ NoPid \notin Daemons
    BY SupervisionAssumption DEF SupervisionInv
  <1>2. SupervisionTypeOK' /\ SupersFit'
    <2>1. /\ sup' \in [Supers -> [at : SupStates, pid : Daemons \union {NoPid},
                                verb : {"none", "start", "stop", "restart"}]]
          /\ \A r \in Supers : r # s => sup'[r] = sup[r]
      BY <1>1
      DEF StopSawExit, Reaped, RemoveFiles, Then, Goes, DaemonEnds, IdleSuper, HasExited,
          SupervisionTypeOK, SupersFit, SupStates
    <2>2. /\ sup'[s].at \in {"grace", "sweep", "lastPolls", "wait"} => sup'[s].pid \in Daemons
          /\ sup'[s].at \in {"sweep", "lastPolls"} => ~Running(sup[s].pid)'
          /\ \A p \in Daemons : ~Running(p) => ~Running(p)'
      BY <1>1
      DEF StopSawExit, Reaped, RemoveFiles, Then, Goes, DaemonEnds, IdleSuper, HasExited,
          SupervisionTypeOK, SupersFit, SupStates, Running
    <2>3. SupersFit'
      BY <1>1, <2>1, <2>2, SupersKept
    <2>4. QED
      BY <1>1, <2>1, <2>3
      DEF StopSawExit, Reaped, RemoveFiles, Then, Goes, DaemonEnds, IdleSuper, HasExited,
          SupervisionTypeOK, SupersFit, SupStates
  <1>3. LockFits' /\ HeartFits'
    BY <1>1
    DEF StopSawExit, Reaped, RemoveFiles, Then, Goes, DaemonEnds, IdleSuper, HasExited,
        SupervisionTypeOK, SupersFit, LockFits, HeartFits, HasLock, AtWork, Running
  <1>4. GroupsFit' /\ OverlapFits' /\ AgentsAreItsOwn'
    BY <1>1
    DEF StopSawExit, Reaped, RemoveFiles, Then, Goes, DaemonEnds, IdleSuper, HasExited,
        SupervisionTypeOK, SupersFit, LockFits, GroupsFit, OverlapFits, AgentsAreItsOwn,
        HasLock, AtWork, Running
  <1>5. QED
    BY <1>2, <1>3, <1>4 DEF SupervisionInv

LEMMA StopKillsKeeps ==
    ASSUME SupervisionInv, NEW s \in Supers, StopKills(s) PROVE SupervisionInv'
  <1>1. /\ SupervisionTypeOK /\ SupersFit /\ LockFits /\ HeartFits /\ GroupsFit /\ OverlapFits
        /\ AgentsAreItsOwn /\ NoPid \notin Daemons
    BY SupervisionAssumption DEF SupervisionInv
  <1>2. SupervisionTypeOK' /\ SupersFit'
    <2>1. /\ sup' \in [Supers -> [at : SupStates, pid : Daemons \union {NoPid},
                                verb : {"none", "start", "stop", "restart"}]]
          /\ \A r \in Supers : r # s => sup'[r] = sup[r]
          /\ sup'[s].at = "sweep" /\ sup'[s].pid = sup[s].pid
      <3>1. Goes(s, "sweep", sup[s].pid) /\ sup[s].pid \in Daemons \union {NoPid}
        BY <1>1 DEF StopKills, SupersFit
      <3>2. QED
        BY <1>1, <3>1, SuperGoes DEF SupStates
    <2>2. /\ sup'[s].at \in {"grace", "sweep", "lastPolls", "wait"} => sup'[s].pid \in Daemons
          /\ sup'[s].at \in {"sweep", "lastPolls"} => ~Running(sup[s].pid)'
          /\ \A p \in Daemons : ~Running(p) => ~Running(p)'
      BY <1>1, <2>1 DEF StopKills, Dies, Goes, SupervisionTypeOK, SupersFit, SupStates, Running
    <2>3. SupersFit'
      BY <1>1, <2>1, <2>2, SupersKept
    <2>4. QED
      BY <1>1, <2>3 DEF StopKills, Dies, Goes, SupervisionTypeOK, SupersFit
  <1>3. LockFits' /\ HeartFits'
    BY <1>1
    DEF StopKills, Dies, Goes, SupervisionTypeOK, SupersFit, LockFits, HeartFits, HasLock,
        AtWork, Running
  <1>4. GroupsFit' /\ OverlapFits' /\ AgentsAreItsOwn'
    BY <1>1
    DEF StopKills, Dies, Goes, SupervisionTypeOK, SupersFit, LockFits, GroupsFit, OverlapFits,
        AgentsAreItsOwn, HasLock, AtWork, Running
  <1>5. QED
    BY <1>2, <1>3, <1>4 DEF SupervisionInv

LEMMA StopSweepsKeeps ==
    ASSUME SupervisionInv, NEW s \in Supers, StopSweeps(s) PROVE SupervisionInv'
  <1>1. /\ SupervisionTypeOK /\ SupersFit /\ LockFits /\ HeartFits /\ GroupsFit /\ OverlapFits
        /\ AgentsAreItsOwn /\ NoPid \notin Daemons
    BY SupervisionAssumption DEF SupervisionInv
  <1>2. SupervisionTypeOK' /\ SupersFit'
    <2>1. /\ sup' \in [Supers -> [at : SupStates, pid : Daemons \union {NoPid},
                                verb : {"none", "start", "stop", "restart"}]]
          /\ \A r \in Supers : r # s => sup'[r] = sup[r]
          /\ sup'[s].at = "lastPolls" /\ sup'[s].pid = sup[s].pid
      <3>1. Goes(s, "lastPolls", sup[s].pid) /\ sup[s].pid \in Daemons \union {NoPid}
        BY <1>1 DEF StopSweeps, SupersFit
      <3>2. QED
        BY <1>1, <3>1, SuperGoes DEF SupStates
    <2>2. /\ sup'[s].at \in {"grace", "sweep", "lastPolls", "wait"} => sup'[s].pid \in Daemons
          /\ sup'[s].at \in {"sweep", "lastPolls"} => ~Running(sup[s].pid)'
          /\ \A p \in Daemons : ~Running(p) => ~Running(p)'
      BY <1>1, <2>1
      DEF StopSweeps, SweepGroups, Goes, SupervisionTypeOK, SupersFit, SupStates, Running
    <2>3. SupersFit'
      BY <1>1, <2>1, <2>2, SupersKept
    <2>4. QED
      BY <1>1, <2>3 DEF StopSweeps, SweepGroups, Goes, SupervisionTypeOK, SupersFit
  <1>3. LockFits' /\ HeartFits'
    BY <1>1
    DEF StopSweeps, SweepGroups, Goes, SupervisionTypeOK, SupersFit, LockFits, HeartFits,
        HasLock, AtWork, Running
  <1>4. GroupsFit' /\ OverlapFits' /\ AgentsAreItsOwn'
    BY <1>1
    DEF StopSweeps, SweepGroups, Goes, SupervisionTypeOK, SupersFit, LockFits, GroupsFit,
        OverlapFits, AgentsAreItsOwn, HasLock, AtWork, Running
  <1>5. QED
    BY <1>2, <1>3, <1>4 DEF SupervisionInv

LEMMA StopGivesUpKeeps ==
    ASSUME SupervisionInv, NEW s \in Supers, StopGivesUp(s) PROVE SupervisionInv'
  <1>1. /\ SupervisionTypeOK /\ SupersFit /\ LockFits /\ HeartFits /\ GroupsFit /\ OverlapFits
        /\ AgentsAreItsOwn /\ NoPid \notin Daemons
    BY SupervisionAssumption DEF SupervisionInv
  <1>2. SupervisionTypeOK' /\ SupersFit'
    <2>1. UNCHANGED proc /\ (Goes(s, "unlink", NoPid) \/ DaemonEnds(s))
      BY DEF StopGivesUp, Then
    <2>2. /\ sup' \in [Supers -> [at : SupStates, pid : Daemons \union {NoPid},
                                verb : {"none", "start", "stop", "restart"}]]
          /\ \A r \in Supers : r # s => sup'[r] = sup[r]
          /\ sup'[s].at \in {"unlink", "idle"} /\ sup'[s].pid = NoPid
      <3>1. CASE Goes(s, "unlink", NoPid)
        BY <1>1, <3>1, SuperGoes DEF SupStates
      <3>2. CASE DaemonEnds(s)
        BY <1>1, <3>2 DEF DaemonEnds, IdleSuper, SupersFit, SupStates
      <3>3. QED
        BY <2>1, <3>1, <3>2
    <2>3. SupersFit'
      BY <1>1, <2>1, <2>2, SupersKept DEF Running
    <2>4. QED
      BY <1>1, <2>1, <2>3
      DEF StopGivesUp, RemoveFiles, SupervisionTypeOK, SupersFit
  <1>3. LockFits' /\ HeartFits'
    BY <1>1
    DEF StopGivesUp, RemoveFiles, Then, Goes, DaemonEnds, IdleSuper, SupervisionTypeOK,
        SupersFit, LockFits, HeartFits, HasLock, AtWork, Running
  <1>4. GroupsFit' /\ OverlapFits' /\ AgentsAreItsOwn'
    BY <1>1
    DEF StopGivesUp, RemoveFiles, Then, Goes, DaemonEnds, IdleSuper, SupervisionTypeOK,
        SupersFit, LockFits, GroupsFit, OverlapFits, AgentsAreItsOwn, HasLock, AtWork,
        Running
  <1>5. QED
    BY <1>2, <1>3, <1>4 DEF SupervisionInv

LEMMA UnlinkKeeps ==
    ASSUME SupervisionInv, NEW s \in Supers, Unlink(s) PROVE SupervisionInv'
  <1>1. /\ SupervisionTypeOK /\ SupersFit /\ LockFits /\ HeartFits /\ GroupsFit /\ OverlapFits
        /\ AgentsAreItsOwn /\ NoPid \notin Daemons
    BY SupervisionAssumption DEF SupervisionInv
  <1>2. SupervisionTypeOK' /\ SupersFit'
    <2>1. /\ sup' \in [Supers -> [at : SupStates, pid : Daemons \union {NoPid},
                                verb : {"none", "start", "stop", "restart"}]]
          /\ \A r \in Supers : r # s => sup'[r] = sup[r]
          /\ sup'[s].at = "check" /\ sup'[s].pid = NoPid
      <3>1. Goes(s, "check", NoPid) /\ NoPid \in Daemons \union {NoPid}
        BY <1>1 DEF Unlink, SupersFit
      <3>2. QED
        BY <1>1, <3>1, SuperGoes DEF SupStates
    <2>2. /\ sup'[s].at \in {"grace", "sweep", "lastPolls", "wait"} => sup'[s].pid \in Daemons
          /\ sup'[s].at \in {"sweep", "lastPolls"} => ~Running(sup[s].pid)'
          /\ \A p \in Daemons : ~Running(p) => ~Running(p)'
      BY <1>1, <2>1 DEF Unlink, Goes, SupervisionTypeOK, SupersFit, SupStates, Running
    <2>3. SupersFit'
      BY <1>1, <2>1, <2>2, SupersKept
    <2>4. QED
      BY <1>1, <2>3 DEF Unlink, Goes, SupervisionTypeOK, SupersFit
  <1>3. LockFits' /\ HeartFits'
    BY <1>1
    DEF Unlink, Goes, SupervisionTypeOK, SupersFit, LockFits, HeartFits, HasLock, AtWork,
        Running
  <1>4. GroupsFit' /\ OverlapFits' /\ AgentsAreItsOwn'
    BY <1>1
    DEF Unlink, Goes, SupervisionTypeOK, SupersFit, LockFits, GroupsFit, OverlapFits,
        AgentsAreItsOwn, HasLock, AtWork, Running
  <1>5. QED
    BY <1>2, <1>3, <1>4 DEF SupervisionInv

LEMMA SpawnChecksKeeps ==
    ASSUME SupervisionInv, NEW s \in Supers, SpawnChecks(s) PROVE SupervisionInv'
  <1>1. /\ SupervisionTypeOK /\ SupersFit /\ LockFits /\ HeartFits /\ GroupsFit /\ OverlapFits
        /\ AgentsAreItsOwn /\ NoPid \notin Daemons
    BY SupervisionAssumption DEF SupervisionInv
  <1>2. SupervisionTypeOK' /\ SupersFit'
    BY <1>1
    DEF SpawnChecks, Reaped, Goes, DaemonEnds, IdleSuper, Resolved, NoneRuns, HasExited,
        SupervisionTypeOK, SupersFit, SupStates, Running
  <1>3. LockFits' /\ HeartFits'
    BY <1>1
    DEF SpawnChecks, Reaped, Goes, DaemonEnds, IdleSuper, Resolved, NoneRuns, HasExited,
        SupervisionTypeOK, SupersFit, LockFits, HeartFits, HasLock, AtWork, Running
  <1>4. GroupsFit' /\ OverlapFits' /\ AgentsAreItsOwn'
    BY <1>1
    DEF SpawnChecks, Reaped, Goes, DaemonEnds, IdleSuper, Resolved, NoneRuns, HasExited,
        SupervisionTypeOK, SupersFit, LockFits, GroupsFit, OverlapFits, AgentsAreItsOwn,
        HasLock, AtWork, Running
  <1>5. QED
    BY <1>2, <1>3, <1>4 DEF SupervisionInv

LEMMA SpawnSeesHeartbeatKeeps ==
    ASSUME SupervisionInv, NEW s \in Supers, SpawnSeesHeartbeat(s) PROVE SupervisionInv'
  <1>1. /\ SupervisionTypeOK /\ SupersFit /\ LockFits /\ HeartFits /\ GroupsFit /\ OverlapFits
        /\ AgentsAreItsOwn /\ NoPid \notin Daemons
    BY SupervisionAssumption DEF SupervisionInv
  <1>2. SupervisionTypeOK' /\ SupersFit'
    BY <1>1
    DEF SpawnSeesHeartbeat, DaemonEnds, IdleSuper, SupervisionTypeOK, SupersFit, SupStates,
        Running
  <1>3. LockFits' /\ HeartFits'
    BY <1>1
    DEF SpawnSeesHeartbeat, DaemonEnds, IdleSuper, SupervisionTypeOK, SupersFit, LockFits,
        HeartFits, HasLock, AtWork, Running
  <1>4. GroupsFit' /\ OverlapFits' /\ AgentsAreItsOwn'
    BY <1>1
    DEF SpawnSeesHeartbeat, DaemonEnds, IdleSuper, SupervisionTypeOK, SupersFit, LockFits,
        GroupsFit, OverlapFits, AgentsAreItsOwn, HasLock, AtWork, Running
  <1>5. QED
    BY <1>2, <1>3, <1>4 DEF SupervisionInv

LEMMA SpawnFailsKeeps ==
    ASSUME SupervisionInv, NEW s \in Supers, SpawnFails(s) PROVE SupervisionInv'
  <1>1. /\ SupervisionTypeOK /\ SupersFit /\ LockFits /\ HeartFits /\ GroupsFit /\ OverlapFits
        /\ AgentsAreItsOwn /\ NoPid \notin Daemons
    BY SupervisionAssumption DEF SupervisionInv
  <1>2. SupervisionTypeOK' /\ SupersFit'
    BY <1>1
    DEF SpawnFails, Reaped, Terminate, Dies, DaemonEnds, IdleSuper, HasExited,
        SupervisionTypeOK, SupersFit, SupStates, Running
  <1>3. LockFits' /\ HeartFits'
    BY <1>1
    DEF SpawnFails, Reaped, Terminate, Dies, DaemonEnds, IdleSuper, HasExited,
        SupervisionTypeOK, SupersFit, LockFits, HeartFits, HasLock, AtWork, Running
  <1>4. GroupsFit' /\ OverlapFits' /\ AgentsAreItsOwn'
    BY <1>1
    DEF SpawnFails, Reaped, Terminate, Dies, DaemonEnds, IdleSuper, HasExited,
        SupervisionTypeOK, SupersFit, LockFits, GroupsFit, OverlapFits, AgentsAreItsOwn,
        HasLock, AtWork, Running
  <1>5. QED
    BY <1>2, <1>3, <1>4 DEF SupervisionInv

LEMMA PopenKeeps ==
    ASSUME SupervisionInv, NEW s \in Supers, NEW p \in Daemons,
           Popen(s, p)
    PROVE  SupervisionInv'
  <1>1. /\ SupervisionTypeOK /\ SupersFit /\ LockFits /\ HeartFits /\ GroupsFit /\ OverlapFits
        /\ AgentsAreItsOwn /\ NoPid \notin Daemons
    BY SupervisionAssumption DEF SupervisionInv
  <1>2. SupervisionTypeOK' /\ SupersFit'
    BY <1>1 DEF Popen, Fresh, Goes, SupervisionTypeOK, SupersFit, SupStates, Running
  <1>3. LockFits' /\ HeartFits'
    BY <1>1
    DEF Popen, Fresh, Goes, SupervisionTypeOK, SupersFit, LockFits, HeartFits, HasLock,
        AtWork, Running
  <1>4. GroupsFit' /\ OverlapFits' /\ AgentsAreItsOwn'
    BY <1>1
    DEF Popen, Fresh, Goes, SupervisionTypeOK, SupersFit, LockFits, GroupsFit, OverlapFits,
        AgentsAreItsOwn, HasLock, AtWork, Running
  <1>5. QED
    BY <1>2, <1>3, <1>4 DEF SupervisionInv

LEMMA SuperTickKeeps ==
    ASSUME SupervisionInv, NEW s \in Supers, NEW p \in Daemons,
           SuperTick(s, p)
    PROVE  SupervisionInv'
  <1>1. /\ SupervisionTypeOK /\ SupersFit /\ LockFits /\ HeartFits /\ GroupsFit /\ OverlapFits
        /\ AgentsAreItsOwn /\ NoPid \notin Daemons
    BY SupervisionAssumption DEF SupervisionInv
  <1>2. SupervisionTypeOK' /\ SupersFit'
    BY <1>1 DEF SuperTick, SupervisionTypeOK, SupersFit, SupStates, Running
  <1>3. LockFits' /\ HeartFits'
    BY <1>1
    DEF SuperTick, SupervisionTypeOK, SupersFit, LockFits, HeartFits, HasLock, AtWork,
        Running
  <1>4. GroupsFit' /\ OverlapFits' /\ AgentsAreItsOwn'
    BY <1>1
    DEF SuperTick, SupervisionTypeOK, SupersFit, LockFits, GroupsFit, OverlapFits,
        AgentsAreItsOwn, HasLock, AtWork, Running
  <1>5. QED
    BY <1>2, <1>3, <1>4 DEF SupervisionInv

LEMMA LeaveKeeps ==
    ASSUME SupervisionInv, NEW s \in Supers, NEW p \in Daemons,
           Leave(s, p)
    PROVE  SupervisionInv'
  <1>1. /\ SupervisionTypeOK /\ SupersFit /\ LockFits /\ HeartFits /\ GroupsFit /\ OverlapFits
        /\ AgentsAreItsOwn /\ NoPid \notin Daemons
    BY SupervisionAssumption DEF SupervisionInv
  <1>2. SupervisionTypeOK' /\ SupersFit'
    BY <1>1 DEF Leave, SupervisionTypeOK, SupersFit, SupStates, Running
  <1>3. LockFits' /\ HeartFits'
    BY <1>1
    DEF Leave, SupervisionTypeOK, SupersFit, LockFits, HeartFits, HasLock, AtWork, Running
  <1>4. GroupsFit' /\ OverlapFits' /\ AgentsAreItsOwn'
    BY <1>1
    DEF Leave, SupervisionTypeOK, SupersFit, LockFits, GroupsFit, OverlapFits,
        AgentsAreItsOwn, HasLock, AtWork, Running
  <1>5. QED
    BY <1>2, <1>3, <1>4 DEF SupervisionInv

LEMMA ClaimKeeps ==
    ASSUME SupervisionInv, NEW p \in Daemons, Claim(p) PROVE SupervisionInv'
  <1>1. /\ SupervisionTypeOK /\ SupersFit /\ LockFits /\ HeartFits /\ GroupsFit /\ OverlapFits
        /\ AgentsAreItsOwn /\ NoPid \notin Daemons
    BY SupervisionAssumption DEF SupervisionInv
  <1>2. SupervisionTypeOK' /\ SupersFit'
    BY <1>1 DEF Claim, Dies, SupervisionTypeOK, SupersFit, SupStates, Running
  <1>3. LockFits' /\ HeartFits'
    BY <1>1
    DEF Claim, Dies, SupervisionTypeOK, SupersFit, LockFits, HeartFits, HasLock, AtWork,
        Running
  <1>4. GroupsFit' /\ OverlapFits' /\ AgentsAreItsOwn'
    BY <1>1
    DEF Claim, Dies, SupervisionTypeOK, SupersFit, LockFits, GroupsFit, OverlapFits,
        AgentsAreItsOwn, HasLock, AtWork, Running
  <1>5. QED
    BY <1>2, <1>3, <1>4 DEF SupervisionInv

LEMMA BootSweepKeeps ==
    ASSUME SupervisionInv, NEW p \in Daemons, BootSweep(p) PROVE SupervisionInv'
  <1>1. /\ SupervisionTypeOK /\ SupersFit /\ LockFits /\ HeartFits /\ GroupsFit /\ OverlapFits
        /\ AgentsAreItsOwn /\ NoPid \notin Daemons
    BY SupervisionAssumption DEF SupervisionInv
  <1>2. SupervisionTypeOK' /\ SupersFit'
    BY <1>1 DEF BootSweep, SweepGroups, SupervisionTypeOK, SupersFit, SupStates, Running
  <1>3. LockFits' /\ HeartFits'
    BY <1>1
    DEF BootSweep, SweepGroups, SupervisionTypeOK, SupersFit, LockFits, HeartFits, HasLock,
        AtWork, Running
  <1>4. GroupsFit' /\ OverlapFits' /\ AgentsAreItsOwn'
    BY <1>1
    DEF BootSweep, SweepGroups, SupervisionTypeOK, SupersFit, LockFits, GroupsFit,
        OverlapFits, AgentsAreItsOwn, HasLock, AtWork, Running
  <1>5. QED
    BY <1>2, <1>3, <1>4 DEF SupervisionInv

LEMMA BeatKeeps ==
    ASSUME SupervisionInv, NEW p \in Daemons, Beat(p) PROVE SupervisionInv'
  <1>1. /\ SupervisionTypeOK /\ SupersFit /\ LockFits /\ HeartFits /\ GroupsFit /\ OverlapFits
        /\ AgentsAreItsOwn /\ NoPid \notin Daemons
    BY SupervisionAssumption DEF SupervisionInv
  <1>2. SupervisionTypeOK' /\ SupersFit'
    BY <1>1 DEF Beat, BeingStopped, SupervisionTypeOK, SupersFit, SupStates, Running
  <1>3. LockFits' /\ HeartFits'
    BY <1>1
    DEF Beat, BeingStopped, SupervisionTypeOK, SupersFit, LockFits, HeartFits, HasLock,
        AtWork, Running
  <1>4. GroupsFit' /\ OverlapFits' /\ AgentsAreItsOwn'
    BY <1>1
    DEF Beat, BeingStopped, SupervisionTypeOK, SupersFit, LockFits, GroupsFit, OverlapFits,
        AgentsAreItsOwn, HasLock, AtWork, Running
  <1>5. QED
    BY <1>2, <1>3, <1>4 DEF SupervisionInv

LEMMA AgentStartsKeeps ==
    ASSUME SupervisionInv, NEW p \in Daemons, AgentStarts(p) PROVE SupervisionInv'
  <1>1. /\ SupervisionTypeOK /\ SupersFit /\ LockFits /\ HeartFits /\ GroupsFit /\ OverlapFits
        /\ AgentsAreItsOwn /\ NoPid \notin Daemons
    BY SupervisionAssumption DEF SupervisionInv
  <1>2. SupervisionTypeOK' /\ SupersFit'
    BY <1>1 DEF AgentStarts, SupervisionTypeOK, SupersFit, SupStates, Running
  <1>3. LockFits' /\ HeartFits'
    BY <1>1
    DEF AgentStarts, SupervisionTypeOK, SupersFit, LockFits, HeartFits, HasLock, AtWork,
        Running
  <1>4. GroupsFit' /\ OverlapFits' /\ AgentsAreItsOwn'
    BY <1>1
    DEF AgentStarts, SupervisionTypeOK, SupersFit, LockFits, GroupsFit, OverlapFits,
        AgentsAreItsOwn, HasLock, AtWork, Running
  <1>5. QED
    BY <1>2, <1>3, <1>4 DEF SupervisionInv

LEMMA AgentEndsKeeps ==
    ASSUME SupervisionInv, NEW p \in Daemons, AgentEnds(p) PROVE SupervisionInv'
  <1>1. /\ SupervisionTypeOK /\ SupersFit /\ LockFits /\ HeartFits /\ GroupsFit /\ OverlapFits
        /\ AgentsAreItsOwn /\ NoPid \notin Daemons
    BY SupervisionAssumption DEF SupervisionInv
  <1>2. SupervisionTypeOK' /\ SupersFit'
    BY <1>1 DEF AgentEnds, SupervisionTypeOK, SupersFit, SupStates, Running
  <1>3. LockFits' /\ HeartFits'
    BY <1>1
    DEF AgentEnds, SupervisionTypeOK, SupersFit, LockFits, HeartFits, HasLock, AtWork,
        Running
  <1>4. GroupsFit' /\ OverlapFits' /\ AgentsAreItsOwn'
    BY <1>1
    DEF AgentEnds, SupervisionTypeOK, SupersFit, LockFits, GroupsFit, OverlapFits,
        AgentsAreItsOwn, HasLock, AtWork, Running
  <1>5. QED
    BY <1>2, <1>3, <1>4 DEF SupervisionInv

LEMMA WedgeKeeps ==
    ASSUME SupervisionInv, NEW p \in Daemons, Wedge(p) PROVE SupervisionInv'
  <1>1. /\ SupervisionTypeOK /\ SupersFit /\ LockFits /\ HeartFits /\ GroupsFit /\ OverlapFits
        /\ AgentsAreItsOwn /\ NoPid \notin Daemons
    BY SupervisionAssumption DEF SupervisionInv
  <1>2. SupervisionTypeOK' /\ SupersFit'
    BY <1>1 DEF Wedge, SupervisionTypeOK, SupersFit, SupStates, Running
  <1>3. LockFits' /\ HeartFits'
    BY <1>1
    DEF Wedge, SupervisionTypeOK, SupersFit, LockFits, HeartFits, HasLock, AtWork, Running
  <1>4. GroupsFit' /\ OverlapFits' /\ AgentsAreItsOwn'
    BY <1>1
    DEF Wedge, SupervisionTypeOK, SupersFit, LockFits, GroupsFit, OverlapFits,
        AgentsAreItsOwn, HasLock, AtWork, Running
  <1>5. QED
    BY <1>2, <1>3, <1>4 DEF SupervisionInv

LEMMA UnwedgeKeeps ==
    ASSUME SupervisionInv, NEW p \in Daemons, Unwedge(p) PROVE SupervisionInv'
  <1>1. /\ SupervisionTypeOK /\ SupersFit /\ LockFits /\ HeartFits /\ GroupsFit /\ OverlapFits
        /\ AgentsAreItsOwn /\ NoPid \notin Daemons
    BY SupervisionAssumption DEF SupervisionInv
  <1>2. SupervisionTypeOK' /\ SupersFit'
    BY <1>1 DEF Unwedge, SupervisionTypeOK, SupersFit, SupStates, Running
  <1>3. LockFits' /\ HeartFits'
    BY <1>1
    DEF Unwedge, SupervisionTypeOK, SupersFit, LockFits, HeartFits, HasLock, AtWork, Running
  <1>4. GroupsFit' /\ OverlapFits' /\ AgentsAreItsOwn'
    BY <1>1
    DEF Unwedge, SupervisionTypeOK, SupersFit, LockFits, GroupsFit, OverlapFits,
        AgentsAreItsOwn, HasLock, AtWork, Running
  <1>5. QED
    BY <1>2, <1>3, <1>4 DEF SupervisionInv

LEMMA CloseKeeps ==
    ASSUME SupervisionInv, NEW p \in Daemons, Close(p) PROVE SupervisionInv'
  <1>1. /\ SupervisionTypeOK /\ SupersFit /\ LockFits /\ HeartFits /\ GroupsFit /\ OverlapFits
        /\ AgentsAreItsOwn /\ NoPid \notin Daemons
    BY SupervisionAssumption DEF SupervisionInv
  <1>2. SupervisionTypeOK' /\ SupersFit'
    BY <1>1 DEF Close, SupervisionTypeOK, SupersFit, SupStates, Running
  <1>3. LockFits' /\ HeartFits'
    BY <1>1
    DEF Close, SupervisionTypeOK, SupersFit, LockFits, HeartFits, HasLock, AtWork, Running
  <1>4. GroupsFit' /\ OverlapFits' /\ AgentsAreItsOwn'
    BY <1>1
    DEF Close, SupervisionTypeOK, SupersFit, LockFits, GroupsFit, OverlapFits,
        AgentsAreItsOwn, HasLock, AtWork, Running
  <1>5. QED
    BY <1>2, <1>3, <1>4 DEF SupervisionInv

LEMMA RemoveOwnedKeeps ==
    ASSUME SupervisionInv, NEW p \in Daemons, RemoveOwned(p) PROVE SupervisionInv'
  <1>1. /\ SupervisionTypeOK /\ SupersFit /\ LockFits /\ HeartFits /\ GroupsFit /\ OverlapFits
        /\ AgentsAreItsOwn /\ NoPid \notin Daemons
    BY SupervisionAssumption DEF SupervisionInv
  <1>2. SupervisionTypeOK' /\ SupersFit'
    BY <1>1 DEF RemoveOwned, SupervisionTypeOK, SupersFit, SupStates, Running
  <1>3. LockFits' /\ HeartFits'
    BY <1>1
    DEF RemoveOwned, SupervisionTypeOK, SupersFit, LockFits, HeartFits, HasLock, AtWork,
        Running
  <1>4. GroupsFit' /\ OverlapFits' /\ AgentsAreItsOwn'
    BY <1>1
    DEF RemoveOwned, SupervisionTypeOK, SupersFit, LockFits, GroupsFit, OverlapFits,
        AgentsAreItsOwn, HasLock, AtWork, Running
  <1>5. QED
    BY <1>2, <1>3, <1>4 DEF SupervisionInv

LEMMA ReleaseKeeps ==
    ASSUME SupervisionInv, NEW p \in Daemons, Release(p) PROVE SupervisionInv'
  <1>1. /\ SupervisionTypeOK /\ SupersFit /\ LockFits /\ HeartFits /\ GroupsFit /\ OverlapFits
        /\ AgentsAreItsOwn /\ NoPid \notin Daemons
    BY SupervisionAssumption DEF SupervisionInv
  <1>2. SupervisionTypeOK' /\ SupersFit'
    BY <1>1 DEF Release, Dies, SupervisionTypeOK, SupersFit, SupStates, Running
  <1>3. LockFits' /\ HeartFits'
    BY <1>1
    DEF Release, Dies, SupervisionTypeOK, SupersFit, LockFits, HeartFits, HasLock, AtWork,
        Running
  <1>4. GroupsFit' /\ OverlapFits' /\ AgentsAreItsOwn'
    BY <1>1
    DEF Release, Dies, SupervisionTypeOK, SupersFit, LockFits, GroupsFit, OverlapFits,
        AgentsAreItsOwn, HasLock, AtWork, Running
  <1>5. QED
    BY <1>2, <1>3, <1>4 DEF SupervisionInv

LEMMA DaemonCrashesKeeps ==
    ASSUME SupervisionInv, NEW p \in Daemons, DaemonCrashes(p) PROVE SupervisionInv'
  <1>1. /\ SupervisionTypeOK /\ SupersFit /\ LockFits /\ HeartFits /\ GroupsFit /\ OverlapFits
        /\ AgentsAreItsOwn /\ NoPid \notin Daemons
    BY SupervisionAssumption DEF SupervisionInv
  <1>2. SupervisionTypeOK' /\ SupersFit'
    BY <1>1 DEF DaemonCrashes, Dies, SupervisionTypeOK, SupersFit, SupStates, Running
  <1>3. LockFits' /\ HeartFits'
    BY <1>1
    DEF DaemonCrashes, Dies, SupervisionTypeOK, SupersFit, LockFits, HeartFits, HasLock,
        AtWork, Running
  <1>4. GroupsFit' /\ OverlapFits' /\ AgentsAreItsOwn'
    BY <1>1
    DEF DaemonCrashes, Dies, SupervisionTypeOK, SupersFit, LockFits, GroupsFit, OverlapFits,
        AgentsAreItsOwn, HasLock, AtWork, Running
  <1>5. QED
    BY <1>2, <1>3, <1>4 DEF SupervisionInv

LEMMA ManagedKeeps ==
    ASSUME SupervisionInv, NEW p \in Daemons, Managed(p) PROVE SupervisionInv'
  <1>1. /\ SupervisionTypeOK /\ SupersFit /\ LockFits /\ HeartFits /\ GroupsFit /\ OverlapFits
        /\ AgentsAreItsOwn /\ NoPid \notin Daemons
    BY SupervisionAssumption DEF SupervisionInv
  <1>2. SupervisionTypeOK' /\ SupersFit'
    BY <1>1 DEF Managed, Fresh, SupervisionTypeOK, SupersFit, SupStates, Running
  <1>3. LockFits' /\ HeartFits'
    BY <1>1
    DEF Managed, Fresh, SupervisionTypeOK, SupersFit, LockFits, HeartFits, HasLock, AtWork,
        Running
  <1>4. GroupsFit' /\ OverlapFits' /\ AgentsAreItsOwn'
    BY <1>1
    DEF Managed, Fresh, SupervisionTypeOK, SupersFit, LockFits, GroupsFit, OverlapFits,
        AgentsAreItsOwn, HasLock, AtWork, Running
  <1>5. QED
    BY <1>2, <1>3, <1>4 DEF SupervisionInv

LEMMA InitReapsKeeps ==
    ASSUME SupervisionInv, NEW p \in Daemons, InitReaps(p) PROVE SupervisionInv'
  <1>1. /\ SupervisionTypeOK /\ SupersFit /\ LockFits /\ HeartFits /\ GroupsFit /\ OverlapFits
        /\ AgentsAreItsOwn /\ NoPid \notin Daemons
    BY SupervisionAssumption DEF SupervisionInv
  <1>2. SupervisionTypeOK' /\ SupersFit'
    BY <1>1 DEF InitReaps, SupervisionTypeOK, SupersFit, SupStates, Running
  <1>3. LockFits' /\ HeartFits'
    BY <1>1
    DEF InitReaps, SupervisionTypeOK, SupersFit, LockFits, HeartFits, HasLock, AtWork,
        Running
  <1>4. GroupsFit' /\ OverlapFits' /\ AgentsAreItsOwn'
    BY <1>1
    DEF InitReaps, SupervisionTypeOK, SupersFit, LockFits, GroupsFit, OverlapFits,
        AgentsAreItsOwn, HasLock, AtWork, Running
  <1>5. QED
    BY <1>2, <1>3, <1>4 DEF SupervisionInv

LEMMA SupervisionInvKept == SupervisionInv /\ [SupervisionNext]_superVars => SupervisionInv'
  <1>1. SUFFICES ASSUME SupervisionInv, [SupervisionNext]_superVars PROVE SupervisionInv'
    OBVIOUS
  <1>2. CASE UNCHANGED superVars
    BY <1>1, <1>2
    DEF superVars, SupervisionInv, SupervisionTypeOK, SupersFit, LockFits, HeartFits,
        GroupsFit, OverlapFits, AgentsAreItsOwn, HasLock, AtWork, Running
  <1>3. CASE \E s \in Supers :
          \/ \E verb \in {"start", "stop", "restart"} : Request(s, verb)
          \/ StopFound(s) \/ StopFoundNone(s) \/ StopSawExit(s) \/ StopKills(s)
          \/ StopSweeps(s) \/ StopGivesUp(s) \/ Unlink(s) \/ SpawnChecks(s)
          \/ SpawnSeesHeartbeat(s) \/ SpawnFails(s)
          \/ \E p \in Daemons : Popen(s, p) \/ SuperTick(s, p) \/ Leave(s, p)
    BY <1>1, <1>3, RequestKeeps, StopFoundKeeps, StopFoundNoneKeeps, StopSawExitKeeps,
       StopKillsKeeps, StopSweepsKeeps, StopGivesUpKeeps, UnlinkKeeps, SpawnChecksKeeps,
       SpawnSeesHeartbeatKeeps, SpawnFailsKeeps, PopenKeeps, SuperTickKeeps, LeaveKeeps
  <1>4. CASE \E p \in Daemons :
          \/ Claim(p) \/ BootSweep(p) \/ Beat(p) \/ AgentStarts(p) \/ AgentEnds(p)
          \/ Wedge(p) \/ Unwedge(p) \/ Close(p) \/ RemoveOwned(p) \/ Release(p)
          \/ DaemonCrashes(p) \/ Managed(p) \/ InitReaps(p)
    BY <1>1, <1>4, ClaimKeeps, BootSweepKeeps, BeatKeeps, AgentStartsKeeps, AgentEndsKeeps,
       WedgeKeeps, UnwedgeKeeps, CloseKeeps, RemoveOwnedKeeps, ReleaseKeeps,
       DaemonCrashesKeeps, ManagedKeeps, InitReapsKeeps
  <1>5. QED
    BY <1>1, <1>2, <1>3, <1>4 DEF SupervisionNext

\* The lock, the heartbeat and the agents of a daemon at work are its own.
LEMMA SupervisionInvKnows == SupervisionInv => DaemonsAreKnown
    BY DEF SupervisionInv, LockFits, HasLock, HeartFits, KnownForWhatItIs, DaemonsAreKnown

\* A daemon is seen for what it is, and its agents are its own (heartbeat.py,
\* tui/supervisor.py).
THEOREM DaemonsKnown == SupervisionSpec => []DaemonsAreKnown
  <1>1. SupervisionInit => SupervisionInv
    BY SupervisionInvStarts
  <1>2. SupervisionInv /\ [SupervisionNext]_superVars => SupervisionInv'
    BY SupervisionInvKept
  <1>3. SupervisionInv => DaemonsAreKnown
    BY SupervisionInvKnows
  <1>4. QED
    BY <1>1, <1>2, <1>3, PTL DEF SupervisionSpec

-----------------------------------------------------------------------------
(* DaemonStart.                                                            *)

EgressAtStart == Reads(atStart, "egress")
Trials == {"preflight", "links", "echo", "egress", "session", "denials", "probing"}
Withheld == StartedAs \in {"env", "jail"}
BuiltFor == IF Withheld
            THEN {"credentials", "commands"} \union
                     (IF daemon = "chat" /\ EgressAtStart = "gated" THEN {"egress"} ELSE {})
            ELSE {}

\* The baseline is the file of the start, and so is the file until it is edited.
StartIsKept ==
    /\ coming = "down" => baseline = NoBaseline /\ ~unpinned
    /\ baseline # NoBaseline =>
          atStart.usable /\ baseline.mode = atStart.mode /\ baseline.egress = atStart.egress
    /\ baseline = NoBaseline /\ ~unpinned => policy = atStart

\* What each trial has found, once the daemon is past it: a chat daemon is tried when it is
\* built, the jobs worker before.
Past(stages) ==
    coming \in stages \union {"serving"}
        \union (IF daemon = "jobs" THEN {"build", "credentials", "commands"} ELSE {})

TrialsHeld ==
    StartedAs = "jail" /\ ~unpinned =>
        /\ Past({"echo", "egress", "session", "denials", "probing"}) =>
              /\ "link_open" \in flaws => warned
              /\ {"link_open", "link_covered"} \intersect flaws # {} => ~linux
        /\ Past({"egress", "session", "denials", "probing"}) => "starts_not" \notin flaws
        /\ Past({"session", "denials", "probing"}) =>
              "net_open" \notin flaws /\ "net_unclear" \notin flaws
        /\ Past({"denials", "probing"}) =>
              "claude_shut" \notin flaws /\ "codex_shut" \notin flaws
        /\ \A p \in Probed : p \in flaws => outcome[p] # "DENIED"
        /\ Past({}) => \A p \in Probed : outcome[p] # "unasked" /\ outcome[p] \notin Fatal

\* What runs at each stage, and for which settings.
ServicesFit ==
    /\ coming \in {"down", "build", "credentials"} => services = {}
    /\ coming = "commands" => services = {"credentials"}
    /\ coming \in Trials =>
          IF daemon = "chat" THEN {"credentials", "commands"} \subseteq services
          ELSE services = {}
    /\ coming = "failed" /\ services # {} =>
          daemon = "chat" /\ {"credentials", "commands"} \subseteq services
    /\ ~unpinned =>
          /\ coming \in {"credentials", "commands"} \/ (coming \in Trials /\ daemon = "chat") =>
                Withheld /\ (daemon = "chat" => EgressAtStart # "typo")
          /\ coming = "serving" \/ (coming \in Trials /\ daemon = "chat") =>
                /\ services = BuiltFor /\ StartedAs # "typo"
                /\ daemon = "chat" /\ Withheld => EgressAtStart # "typo"

\* What a turn has been given so far.
TurnFitsSoFar ==
    /\ launchAt # "none" => coming = "serving"
    /\ ~unpinned =>
          /\ launchAt # "none" =>
                /\ turnEnv.token = Withheld
                /\ turnEnv.proxy = (Withheld /\ EgressAtStart # "off")
          /\ launchAt \in {"wrapped", "running"} => turnEnv.jailed = (StartedAs = "jail")
          /\ launchAt = "running" => turnEnv.curated = Withheld /\ turnEnv.shims = Withheld

StartInv ==
    StartTypeOK /\ StartIsKept /\ TrialsHeld /\ ServicesFit /\ TurnFitsSoFar

LEMMA NoEnvFits == NoEnv \in TurnEnvs
  <1>1. \A a, b, c, d, e \in BOOLEAN :
          [token |-> a, proxy |-> b, jailed |-> c, curated |-> d, shims |-> e] \in TurnEnvs
    BY DEF TurnEnvs
  <1>2. QED
    BY <1>1, Zenon DEF NoEnv

LEMMA ProxiedFits == Proxied \in BOOLEAN
  <1>1. /\ ("egress" \in services) \in BOOLEAN
        /\ ("commands" \in services /\ Startup("egress") # "off") \in BOOLEAN
    OBVIOUS
  <1>2. QED
    BY <1>1 DEF Proxied

LEMMA StartInvStarts == StartInit => StartInv
  <1>1. SUFFICES ASSUME StartInit PROVE StartInv
    OBVIOUS
  <1>2. policy \in [mode : SandboxModes, egress : EgressModes, usable : BOOLEAN]
    BY <1>1 DEF StartInit, Saved
  <1>3. StartTypeOK
    <2>1. unpinned \in BOOLEAN /\ warned \in BOOLEAN /\ outcome \in [Probed -> Outcomes]
      BY <1>1 DEF StartInit, Outcomes
    <2>2. QED
      BY <1>1, <2>1, NoEnvFits, StartAssumption DEF StartInit, StartTypeOK
  <1>4. StartIsKept /\ TurnFitsSoFar
    BY <1>1 DEF StartInit, StartIsKept, TurnFitsSoFar
  <1>5. TrialsHeld
    BY <1>1 DEF StartInit, TrialsHeld, Past
  <1>6. ServicesFit
    BY <1>1 DEF StartInit, ServicesFit, Trials
  <1>7. QED
    BY <1>3, <1>4, <1>5, <1>6 DEF StartInv

\* Without an edit that a daemon was open to, what it asks for is what it was started with.
LEMMA AsStarted ==
    ASSUME StartInv
    PROVE  /\ ~unpinned => Mode = StartedAs /\ Startup("egress") = EgressAtStart
           /\ StartedAs \in SandboxModes /\ EgressAtStart \in EgressModes
  <1>1. /\ atStart \in [mode : SandboxModes, egress : EgressModes, usable : BOOLEAN]
        /\ StartIsKept
    BY DEF StartInv, StartTypeOK, Saved
  <1>2. StartedAs \in SandboxModes /\ EgressAtStart \in EgressModes
    BY <1>1 DEF StartedAs, EgressAtStart, Reads, SandboxModes, EgressModes
  <1>3. ~unpinned => Mode = StartedAs
    BY <1>1 DEF StartIsKept, Mode, StartedAs, Startup, Reads
  <1>4. ~unpinned => Startup("egress") = EgressAtStart
    BY <1>1 DEF StartIsKept, EgressAtStart, Startup, Reads
  <1>5. QED
    BY <1>2, <1>3, <1>4

LEMMA StoreAppearsStart ==
    ASSUME StartInv, NEW s \in Stores, StoreAppears(s)
    PROVE  StartInv'
  <1>1. /\ ~unpinned => Mode = StartedAs /\ Startup("egress") = EgressAtStart
        /\ StartedAs \in SandboxModes /\ EgressAtStart \in EgressModes
    BY AsStarted
  <1>2. UNCHANGED <<StartedAs, EgressAtStart, Withheld>>
    BY DEF StartedAs, EgressAtStart, Withheld, StoreAppears, Keeps, InTurn, To, hostVars,
       policyVars, turnVars
  <1>11. StartTypeOK'
    BY StartAssumption DEF StartInv, StartTypeOK, Saved, StoreAppears, Keeps, InTurn, To,
       hostVars, policyVars, turnVars
  <1>12. StartIsKept'
    BY DEF StartInv, StartTypeOK, Saved, StartIsKept, StoreAppears, Keeps, InTurn, To, hostVars,
       policyVars, turnVars
  <1>13. TrialsHeld'
    BY <1>1, <1>2 DEF StartInv, TrialsHeld, Past, Jails, Fatal, StoreAppears, Keeps, InTurn, To,
       hostVars, policyVars, turnVars
  <1>14. ServicesFit'
    BY <1>1, <1>2 DEF StartInv, StartTypeOK, ServicesFit, Trials, BuiltFor, Withheld, Enabled,
       Jails, StoreAppears, Keeps, InTurn, To, hostVars, policyVars, turnVars
  <1>15. TurnFitsSoFar'
    BY <1>1, <1>2 DEF StartInv, StartTypeOK, ServicesFit, TurnFitsSoFar, StoreAppears, Keeps,
       InTurn, To, hostVars, policyVars, turnVars
  <1>20. QED
    BY <1>11, <1>12, <1>13, <1>14, <1>15 DEF StartInv

LEMMA SettingsCheckedStart ==
    ASSUME StartInv, SettingsChecked
    PROVE  StartInv'
  <1>1. /\ ~unpinned => Mode = StartedAs /\ Startup("egress") = EgressAtStart
        /\ StartedAs \in SandboxModes /\ EgressAtStart \in EgressModes
    BY AsStarted
  <1>2. UNCHANGED <<StartedAs, EgressAtStart, Withheld>>
    BY DEF StartedAs, EgressAtStart, Withheld, SettingsChecked, Keeps, InTurn, To, hostVars,
       policyVars, turnVars
  <1>11. StartTypeOK'
    BY StartAssumption DEF StartInv, StartTypeOK, Saved, SettingsChecked, Keeps, InTurn, To,
       hostVars, policyVars, turnVars
  <1>12. StartIsKept'
    BY DEF StartInv, StartTypeOK, Saved, StartIsKept, SettingsChecked, Keeps, InTurn, To,
       hostVars, policyVars, turnVars
  <1>13. TrialsHeld'
    BY <1>1, <1>2 DEF StartInv, TrialsHeld, Past, Jails, Fatal, SettingsChecked, Keeps, InTurn,
       To, hostVars, policyVars, turnVars
  <1>14. ServicesFit'
    BY <1>1, <1>2 DEF StartInv, StartTypeOK, ServicesFit, Trials, BuiltFor, Withheld, Enabled,
       Jails, SettingsChecked, Keeps, InTurn, To, hostVars, policyVars, turnVars
  <1>15. TurnFitsSoFar'
    BY <1>1, <1>2 DEF StartInv, StartTypeOK, ServicesFit, TurnFitsSoFar, SettingsChecked, Keeps,
       InTurn, To, hostVars, policyVars, turnVars
  <1>20. QED
    BY <1>11, <1>12, <1>13, <1>14, <1>15 DEF StartInv

LEMMA BuildsStart ==
    ASSUME StartInv, Builds
    PROVE  StartInv'
  <1>1. /\ ~unpinned => Mode = StartedAs /\ Startup("egress") = EgressAtStart
        /\ StartedAs \in SandboxModes /\ EgressAtStart \in EgressModes
    BY AsStarted
  <1>2. UNCHANGED <<StartedAs, EgressAtStart, Withheld>>
    BY DEF StartedAs, EgressAtStart, Withheld, Builds, Keeps, InTurn, To, hostVars, policyVars,
       turnVars
  <1>11. StartTypeOK'
    BY StartAssumption DEF StartInv, StartTypeOK, Saved, Builds, Keeps, InTurn, To, hostVars,
       policyVars, turnVars
  <1>12. StartIsKept'
    BY DEF StartInv, StartTypeOK, Saved, StartIsKept, Builds, Keeps, InTurn, To, hostVars,
       policyVars, turnVars
  <1>13. TrialsHeld'
    <2>1. SUFFICES ASSUME StartedAs = "jail", ~unpinned PROVE TrialsHeld'
      BY <1>2 DEF TrialsHeld, Builds, Keeps, policyVars
    <2>2. Enabled /\ coming' \in {"failed", "credentials"}
      BY <1>1, <2>1 DEF Builds, To, Enabled
    <2>3. CASE coming' = "failed"
      BY <1>2, <2>3 DEF StartInv, TrialsHeld, Past, Builds, Keeps, policyVars, hostVars
    <2>4. CASE coming' = "credentials"
      BY <1>2, <2>4 DEF StartInv, TrialsHeld, Past, Builds, Keeps, policyVars, hostVars, Fatal
    <2>5. QED
      BY <2>2, <2>3, <2>4
  <1>14. ServicesFit'
    BY <1>1, <1>2 DEF StartInv, StartTypeOK, ServicesFit, Trials, BuiltFor, Withheld, Enabled,
       Jails, Builds, Keeps, InTurn, To, hostVars, policyVars, turnVars
  <1>15. TurnFitsSoFar'
    BY <1>1, <1>2 DEF StartInv, StartTypeOK, ServicesFit, TurnFitsSoFar, Builds, Keeps, InTurn,
       To, hostVars, policyVars, turnVars
  <1>20. QED
    BY <1>11, <1>12, <1>13, <1>14, <1>15 DEF StartInv

LEMMA CredentialsUpStart ==
    ASSUME StartInv, NEW fails \in BOOLEAN, CredentialsUp(fails)
    PROVE  StartInv'
  <1>1. /\ ~unpinned => Mode = StartedAs /\ Startup("egress") = EgressAtStart
        /\ StartedAs \in SandboxModes /\ EgressAtStart \in EgressModes
    BY AsStarted
  <1>2. UNCHANGED <<StartedAs, EgressAtStart, Withheld>>
    BY DEF StartedAs, EgressAtStart, Withheld, CredentialsUp, Keeps, InTurn, To, hostVars,
       policyVars, turnVars
  <1>11. StartTypeOK'
    <2>1. services' \subseteq {"credentials", "commands", "egress"}
      BY DEF StartInv, StartTypeOK, CredentialsUp
    <2>2. coming' \in {"failed", "commands"}
      BY DEF CredentialsUp, To
    <2>3. QED
      BY <2>1, <2>2, StartAssumption DEF StartInv, StartTypeOK, CredentialsUp, Keeps, InTurn,
         To, hostVars, policyVars, turnVars
  <1>12. StartIsKept'
    BY DEF StartInv, StartTypeOK, Saved, StartIsKept, CredentialsUp, Keeps, InTurn, To,
       hostVars, policyVars, turnVars
  <1>13. TrialsHeld'
    BY <1>1, <1>2 DEF StartInv, TrialsHeld, Past, Jails, Fatal, CredentialsUp, Keeps, InTurn,
       To, hostVars, policyVars, turnVars
  <1>14. ServicesFit'
    BY <1>1, <1>2 DEF StartInv, StartTypeOK, ServicesFit, Trials, BuiltFor, Withheld, Enabled,
       Jails, CredentialsUp, Keeps, InTurn, To, hostVars, policyVars, turnVars
  <1>15. TurnFitsSoFar'
    BY <1>1, <1>2 DEF StartInv, StartTypeOK, ServicesFit, TurnFitsSoFar, CredentialsUp, Keeps,
       InTurn, To, hostVars, policyVars, turnVars
  <1>20. QED
    BY <1>11, <1>12, <1>13, <1>14, <1>15 DEF StartInv

LEMMA CommandsUpStart ==
    ASSUME StartInv, NEW fails \in BOOLEAN, CommandsUp(fails)
    PROVE  StartInv'
  <1>1. /\ ~unpinned => Mode = StartedAs /\ Startup("egress") = EgressAtStart
        /\ StartedAs \in SandboxModes /\ EgressAtStart \in EgressModes
    BY AsStarted
  <1>2. UNCHANGED <<StartedAs, EgressAtStart, Withheld>>
    BY DEF StartedAs, EgressAtStart, Withheld, CommandsUp, Kept, Keeps, InTurn, To, hostVars,
       policyVars, turnVars
  <1>11. StartTypeOK'
    <2>1. services' \subseteq {"credentials", "commands", "egress"}
      BY DEF StartInv, StartTypeOK, CommandsUp, Kept
    <2>2. coming' \in {"failed", "serving", "preflight"}
      BY DEF CommandsUp, To
    <2>3. QED
      BY <2>1, <2>2, StartAssumption DEF StartInv, StartTypeOK, CommandsUp, Keeps, InTurn, To,
         hostVars, policyVars, turnVars
  <1>12. StartIsKept'
    BY DEF StartInv, StartTypeOK, Saved, StartIsKept, CommandsUp, Kept, Keeps, InTurn, To,
       hostVars, policyVars, turnVars
  <1>13. TrialsHeld'
    BY <1>1, <1>2 DEF StartInv, TrialsHeld, Past, Jails, Fatal, CommandsUp, Kept, Keeps, InTurn,
       To, hostVars, policyVars, turnVars
  <1>14. ServicesFit'
    BY <1>1, <1>2 DEF StartInv, StartTypeOK, ServicesFit, Trials, BuiltFor, Withheld, Enabled,
       Jails, CommandsUp, Kept, Keeps, InTurn, To, hostVars, policyVars, turnVars
  <1>15. TurnFitsSoFar'
    BY <1>1, <1>2 DEF StartInv, StartTypeOK, ServicesFit, TurnFitsSoFar, CommandsUp, Kept,
       Keeps, InTurn, To, hostVars, policyVars, turnVars
  <1>20. QED
    BY <1>11, <1>12, <1>13, <1>14, <1>15 DEF StartInv

LEMMA PreflightsStart ==
    ASSUME StartInv, Preflights
    PROVE  StartInv'
  <1>1. /\ ~unpinned => Mode = StartedAs /\ Startup("egress") = EgressAtStart
        /\ StartedAs \in SandboxModes /\ EgressAtStart \in EgressModes
    BY AsStarted
  <1>2. UNCHANGED <<StartedAs, EgressAtStart, Withheld>>
    BY DEF StartedAs, EgressAtStart, Withheld, Preflights, Keeps, InTurn, To, hostVars,
       policyVars, turnVars
  <1>11. StartTypeOK'
    BY StartAssumption DEF StartInv, StartTypeOK, Saved, Preflights, Keeps, InTurn, To,
       hostVars, policyVars, turnVars
  <1>12. StartIsKept'
    BY DEF StartInv, StartTypeOK, Saved, StartIsKept, Preflights, Keeps, InTurn, To, hostVars,
       policyVars, turnVars
  <1>13. TrialsHeld'
    BY <1>1, <1>2 DEF StartInv, TrialsHeld, Past, Jails, Fatal, Preflights, Keeps, InTurn, To,
       hostVars, policyVars, turnVars
  <1>14. ServicesFit'
    BY <1>1, <1>2 DEF StartInv, StartTypeOK, ServicesFit, Trials, BuiltFor, Withheld, Enabled,
       Jails, Preflights, Keeps, InTurn, To, hostVars, policyVars, turnVars
  <1>15. TurnFitsSoFar'
    BY <1>1, <1>2 DEF StartInv, StartTypeOK, ServicesFit, TurnFitsSoFar, Preflights, Keeps,
       InTurn, To, hostVars, policyVars, turnVars
  <1>20. QED
    BY <1>11, <1>12, <1>13, <1>14, <1>15 DEF StartInv

LEMMA LinksCheckedStart ==
    ASSUME StartInv, NEW fails \in BOOLEAN, LinksChecked(fails)
    PROVE  StartInv'
  <1>1. /\ ~unpinned => Mode = StartedAs /\ Startup("egress") = EgressAtStart
        /\ StartedAs \in SandboxModes /\ EgressAtStart \in EgressModes
    BY AsStarted
  <1>2. UNCHANGED <<StartedAs, EgressAtStart, Withheld>>
    BY DEF StartedAs, EgressAtStart, Withheld, LinksChecked, Keeps, InTurn, To, hostVars,
       policyVars, turnVars
  <1>11. StartTypeOK'
    BY StartAssumption DEF StartInv, StartTypeOK, Saved, LinksChecked, Keeps, InTurn, To,
       hostVars, policyVars, turnVars
  <1>12. StartIsKept'
    BY DEF StartInv, StartTypeOK, Saved, StartIsKept, LinksChecked, Keeps, InTurn, To, hostVars,
       policyVars, turnVars
  <1>13. TrialsHeld'
    BY <1>1, <1>2 DEF StartInv, TrialsHeld, Past, Jails, Fatal, LinksChecked, Keeps, InTurn, To,
       hostVars, policyVars, turnVars
  <1>14. ServicesFit'
    BY <1>1, <1>2 DEF StartInv, StartTypeOK, ServicesFit, Trials, BuiltFor, Withheld, Enabled,
       Jails, LinksChecked, Keeps, InTurn, To, hostVars, policyVars, turnVars
  <1>15. TurnFitsSoFar'
    BY <1>1, <1>2 DEF StartInv, StartTypeOK, ServicesFit, TurnFitsSoFar, LinksChecked, Keeps,
       InTurn, To, hostVars, policyVars, turnVars
  <1>20. QED
    BY <1>11, <1>12, <1>13, <1>14, <1>15 DEF StartInv

LEMMA JailStartsStart ==
    ASSUME StartInv, NEW fails \in BOOLEAN, JailStarts(fails)
    PROVE  StartInv'
  <1>1. /\ ~unpinned => Mode = StartedAs /\ Startup("egress") = EgressAtStart
        /\ StartedAs \in SandboxModes /\ EgressAtStart \in EgressModes
    BY AsStarted
  <1>2. UNCHANGED <<StartedAs, EgressAtStart, Withheld>>
    BY DEF StartedAs, EgressAtStart, Withheld, JailStarts, Trial, Keeps, InTurn, To, hostVars,
       policyVars, turnVars
  <1>11. StartTypeOK'
    BY StartAssumption DEF StartInv, StartTypeOK, Saved, JailStarts, Trial, Keeps, InTurn, To,
       hostVars, policyVars, turnVars
  <1>12. StartIsKept'
    BY DEF StartInv, StartTypeOK, Saved, StartIsKept, JailStarts, Trial, Keeps, InTurn, To,
       hostVars, policyVars, turnVars
  <1>13. TrialsHeld'
    BY <1>1, <1>2 DEF StartInv, TrialsHeld, Past, Jails, Fatal, JailStarts, Trial, Keeps,
       InTurn, To, hostVars, policyVars, turnVars
  <1>14. ServicesFit'
    BY <1>1, <1>2 DEF StartInv, StartTypeOK, ServicesFit, Trials, BuiltFor, Withheld, Enabled,
       Jails, JailStarts, Trial, Keeps, InTurn, To, hostVars, policyVars, turnVars
  <1>15. TurnFitsSoFar'
    BY <1>1, <1>2 DEF StartInv, StartTypeOK, ServicesFit, TurnFitsSoFar, JailStarts, Trial,
       Keeps, InTurn, To, hostVars, policyVars, turnVars
  <1>20. QED
    BY <1>11, <1>12, <1>13, <1>14, <1>15 DEF StartInv

LEMMA EgressRefusedStart ==
    ASSUME StartInv, NEW fails \in BOOLEAN, EgressRefused(fails)
    PROVE  StartInv'
  <1>1. /\ ~unpinned => Mode = StartedAs /\ Startup("egress") = EgressAtStart
        /\ StartedAs \in SandboxModes /\ EgressAtStart \in EgressModes
    BY AsStarted
  <1>2. UNCHANGED <<StartedAs, EgressAtStart, Withheld>>
    BY DEF StartedAs, EgressAtStart, Withheld, EgressRefused, Trial, Keeps, InTurn, To, hostVars,
       policyVars, turnVars
  <1>11. StartTypeOK'
    BY StartAssumption DEF StartInv, StartTypeOK, Saved, EgressRefused, Trial, Keeps, InTurn,
       To, hostVars, policyVars, turnVars
  <1>12. StartIsKept'
    BY DEF StartInv, StartTypeOK, Saved, StartIsKept, EgressRefused, Trial, Keeps, InTurn, To,
       hostVars, policyVars, turnVars
  <1>13. TrialsHeld'
    BY <1>1, <1>2 DEF StartInv, TrialsHeld, Past, Jails, Fatal, EgressRefused, Trial, Keeps,
       InTurn, To, hostVars, policyVars, turnVars
  <1>14. ServicesFit'
    BY <1>1, <1>2 DEF StartInv, StartTypeOK, ServicesFit, Trials, BuiltFor, Withheld, Enabled,
       Jails, EgressRefused, Trial, Keeps, InTurn, To, hostVars, policyVars, turnVars
  <1>15. TurnFitsSoFar'
    BY <1>1, <1>2 DEF StartInv, StartTypeOK, ServicesFit, TurnFitsSoFar, EgressRefused, Trial,
       Keeps, InTurn, To, hostVars, policyVars, turnVars
  <1>20. QED
    BY <1>11, <1>12, <1>13, <1>14, <1>15 DEF StartInv

LEMMA SessionWrittenStart ==
    ASSUME StartInv, NEW fails \in BOOLEAN, SessionWritten(fails)
    PROVE  StartInv'
  <1>1. /\ ~unpinned => Mode = StartedAs /\ Startup("egress") = EgressAtStart
        /\ StartedAs \in SandboxModes /\ EgressAtStart \in EgressModes
    BY AsStarted
  <1>2. UNCHANGED <<StartedAs, EgressAtStart, Withheld>>
    BY DEF StartedAs, EgressAtStart, Withheld, SessionWritten, Trial, Keeps, InTurn, To,
       hostVars, policyVars, turnVars
  <1>11. StartTypeOK'
    BY StartAssumption DEF StartInv, StartTypeOK, Saved, SessionWritten, Trial, Keeps, InTurn,
       To, hostVars, policyVars, turnVars
  <1>12. StartIsKept'
    BY DEF StartInv, StartTypeOK, Saved, StartIsKept, SessionWritten, Trial, Keeps, InTurn, To,
       hostVars, policyVars, turnVars
  <1>13. TrialsHeld'
    BY <1>1, <1>2 DEF StartInv, TrialsHeld, Past, Jails, Fatal, SessionWritten, Trial, Keeps,
       InTurn, To, hostVars, policyVars, turnVars
  <1>14. ServicesFit'
    BY <1>1, <1>2 DEF StartInv, StartTypeOK, ServicesFit, Trials, BuiltFor, Withheld, Enabled,
       Jails, SessionWritten, Trial, Keeps, InTurn, To, hostVars, policyVars, turnVars
  <1>15. TurnFitsSoFar'
    BY <1>1, <1>2 DEF StartInv, StartTypeOK, ServicesFit, TurnFitsSoFar, SessionWritten, Trial,
       Keeps, InTurn, To, hostVars, policyVars, turnVars
  <1>20. QED
    BY <1>11, <1>12, <1>13, <1>14, <1>15 DEF StartInv

LEMMA DenialsAskedStart ==
    ASSUME StartInv, DenialsAsked
    PROVE  StartInv'
  <1>1. /\ ~unpinned => Mode = StartedAs /\ Startup("egress") = EgressAtStart
        /\ StartedAs \in SandboxModes /\ EgressAtStart \in EgressModes
    BY AsStarted
  <1>2. UNCHANGED <<StartedAs, EgressAtStart, Withheld>>
    BY DEF StartedAs, EgressAtStart, Withheld, DenialsAsked, Keeps, InTurn, To, hostVars,
       policyVars, turnVars
  <1>11. StartTypeOK'
    BY StartAssumption DEF StartInv, StartTypeOK, Saved, DenialsAsked, Keeps, InTurn, To,
       hostVars, policyVars, turnVars
  <1>12. StartIsKept'
    BY DEF StartInv, StartTypeOK, Saved, StartIsKept, DenialsAsked, Keeps, InTurn, To, hostVars,
       policyVars, turnVars
  <1>13. TrialsHeld'
    BY <1>1, <1>2 DEF StartInv, TrialsHeld, Past, Jails, Fatal, DenialsAsked, Keeps, InTurn, To,
       hostVars, policyVars, turnVars
  <1>14. ServicesFit'
    BY <1>1, <1>2 DEF StartInv, StartTypeOK, ServicesFit, Trials, BuiltFor, Withheld, Enabled,
       Jails, DenialsAsked, Keeps, InTurn, To, hostVars, policyVars, turnVars
  <1>15. TurnFitsSoFar'
    BY <1>1, <1>2 DEF StartInv, StartTypeOK, ServicesFit, TurnFitsSoFar, DenialsAsked, Keeps,
       InTurn, To, hostVars, policyVars, turnVars
  <1>20. QED
    BY <1>11, <1>12, <1>13, <1>14, <1>15 DEF StartInv

LEMMA ProbeStart ==
    ASSUME StartInv, NEW p \in Probed, Probe(p)
    PROVE  StartInv'
  <1>1. /\ ~unpinned => Mode = StartedAs /\ Startup("egress") = EgressAtStart
        /\ StartedAs \in SandboxModes /\ EgressAtStart \in EgressModes
    BY AsStarted
  <1>2. UNCHANGED <<StartedAs, EgressAtStart, Withheld>>
    BY DEF StartedAs, EgressAtStart, Withheld, Probe, ProbeAnswers, Keeps, InTurn, To, hostVars,
       policyVars, turnVars
  <1>11. StartTypeOK'
    <2>1. ProbeAnswers(p) \subseteq Outcomes
      BY DEF ProbeAnswers, Outcomes
    <2>2. outcome' \in [Probed -> Outcomes]
      BY <2>1 DEF StartInv, StartTypeOK, Probe
    <2>3. QED
      BY <2>2, StartAssumption DEF StartInv, StartTypeOK, Probe, Keeps, InTurn, To, hostVars,
         policyVars, turnVars
  <1>12. StartIsKept'
    BY DEF StartInv, StartTypeOK, Saved, StartIsKept, Probe, ProbeAnswers, Keeps, InTurn, To,
       hostVars, policyVars, turnVars
  <1>13. TrialsHeld'
    BY <1>1, <1>2 DEF StartInv, TrialsHeld, Past, Jails, Fatal, Probe, ProbeAnswers, Keeps,
       InTurn, To, hostVars, policyVars, turnVars
  <1>14. ServicesFit'
    BY <1>1, <1>2 DEF StartInv, StartTypeOK, ServicesFit, Trials, BuiltFor, Withheld, Enabled,
       Jails, Probe, ProbeAnswers, Keeps, InTurn, To, hostVars, policyVars, turnVars
  <1>15. TurnFitsSoFar'
    BY <1>1, <1>2 DEF StartInv, StartTypeOK, ServicesFit, TurnFitsSoFar, Probe, ProbeAnswers,
       Keeps, InTurn, To, hostVars, policyVars, turnVars
  <1>20. QED
    BY <1>11, <1>12, <1>13, <1>14, <1>15 DEF StartInv

LEMMA JudgedStart ==
    ASSUME StartInv, Judged
    PROVE  StartInv'
  <1>1. /\ ~unpinned => Mode = StartedAs /\ Startup("egress") = EgressAtStart
        /\ StartedAs \in SandboxModes /\ EgressAtStart \in EgressModes
    BY AsStarted
  <1>2. UNCHANGED <<StartedAs, EgressAtStart, Withheld>>
    BY DEF StartedAs, EgressAtStart, Withheld, Judged, Passes, Keeps, InTurn, To, hostVars,
       policyVars, turnVars
  <1>11. StartTypeOK'
    BY StartAssumption DEF StartInv, StartTypeOK, Saved, Judged, Passes, Keeps, InTurn, To,
       hostVars, policyVars, turnVars
  <1>12. StartIsKept'
    BY DEF StartInv, StartTypeOK, Saved, StartIsKept, Judged, Passes, Keeps, InTurn, To,
       hostVars, policyVars, turnVars
  <1>13. TrialsHeld'
    BY <1>1, <1>2 DEF StartInv, TrialsHeld, Past, Jails, Fatal, Judged, Passes, Keeps, InTurn,
       To, hostVars, policyVars, turnVars
  <1>14. ServicesFit'
    BY <1>1, <1>2 DEF StartInv, StartTypeOK, ServicesFit, Trials, BuiltFor, Withheld, Enabled,
       Jails, Judged, Passes, Keeps, InTurn, To, hostVars, policyVars, turnVars
  <1>15. TurnFitsSoFar'
    BY <1>1, <1>2 DEF StartInv, StartTypeOK, ServicesFit, TurnFitsSoFar, Judged, Passes, Keeps,
       InTurn, To, hostVars, policyVars, turnVars
  <1>20. QED
    BY <1>11, <1>12, <1>13, <1>14, <1>15 DEF StartInv

LEMMA ProcessEndsStart ==
    ASSUME StartInv, ProcessEnds
    PROVE  StartInv'
  <1>1. /\ ~unpinned => Mode = StartedAs /\ Startup("egress") = EgressAtStart
        /\ StartedAs \in SandboxModes /\ EgressAtStart \in EgressModes
    BY AsStarted
  <1>2. UNCHANGED <<StartedAs, EgressAtStart, Withheld>>
    BY DEF StartedAs, EgressAtStart, Withheld, ProcessEnds, Keeps, InTurn, To, hostVars,
       policyVars, turnVars
  <1>11. StartTypeOK'
    BY StartAssumption DEF StartInv, StartTypeOK, Saved, ProcessEnds, Keeps, InTurn, To,
       hostVars, policyVars, turnVars
  <1>12. StartIsKept'
    BY DEF StartInv, StartTypeOK, Saved, StartIsKept, ProcessEnds, Keeps, InTurn, To, hostVars,
       policyVars, turnVars
  <1>13. TrialsHeld'
    BY <1>1, <1>2 DEF StartInv, TrialsHeld, Past, Jails, Fatal, ProcessEnds, Keeps, InTurn, To,
       hostVars, policyVars, turnVars
  <1>14. ServicesFit'
    BY <1>1, <1>2 DEF StartInv, StartTypeOK, ServicesFit, Trials, BuiltFor, Withheld, Enabled,
       Jails, ProcessEnds, Keeps, InTurn, To, hostVars, policyVars, turnVars
  <1>15. TurnFitsSoFar'
    BY <1>1, <1>2 DEF StartInv, StartTypeOK, ServicesFit, TurnFitsSoFar, ProcessEnds, Keeps,
       InTurn, To, hostVars, policyVars, turnVars
  <1>20. QED
    BY <1>11, <1>12, <1>13, <1>14, <1>15 DEF StartInv

LEMMA OpensStart ==
    ASSUME StartInv, Opens
    PROVE  StartInv'
  <1>1. /\ ~unpinned => Mode = StartedAs /\ Startup("egress") = EgressAtStart
        /\ StartedAs \in SandboxModes /\ EgressAtStart \in EgressModes
    BY AsStarted
  <1>2. UNCHANGED <<StartedAs, EgressAtStart, Withheld>>
    BY DEF StartedAs, EgressAtStart, Withheld, Opens, TurnFails, Proxied, NoEnv, Keeps, InTurn,
       To, hostVars, policyVars, turnVars
  <1>11. StartTypeOK'
    <2>1. ("commands" \in services) \in BOOLEAN /\ Proxied \in BOOLEAN
      BY ProxiedFits
    <2>2. \/ turnEnv' = NoEnv
          \/ turnEnv' = [NoEnv EXCEPT !.token = "commands" \in services, !.proxy = Proxied]
      BY DEF Opens, TurnFails
    <2>3. turnEnv' \in TurnEnvs
      BY <2>1, <2>2, NoEnvFits DEF StartInv, StartTypeOK, TurnEnvs
    <2>4. QED
      BY <2>3, StartAssumption DEF StartInv, StartTypeOK, Opens, TurnFails, Keeps, InTurn, To,
         hostVars, policyVars, turnVars
  <1>12. StartIsKept'
    BY DEF StartInv, StartTypeOK, Saved, StartIsKept, Opens, TurnFails, Proxied, NoEnv, Keeps,
       InTurn, To, hostVars, policyVars, turnVars
  <1>13. TrialsHeld'
    BY <1>1, <1>2 DEF StartInv, TrialsHeld, Past, Jails, Fatal, Opens, TurnFails, Proxied,
       NoEnv, Keeps, InTurn, To, hostVars, policyVars, turnVars
  <1>14. ServicesFit'
    BY <1>1, <1>2 DEF StartInv, StartTypeOK, ServicesFit, Trials, BuiltFor, Withheld, Enabled,
       Jails, Opens, TurnFails, Proxied, NoEnv, Keeps, InTurn, To, hostVars, policyVars,
       turnVars
  <1>15. TurnFitsSoFar'
    <2>1. CASE launchAt' = "none"
      BY <2>1 DEF TurnFitsSoFar
    <2>2. CASE launchAt' # "none"
      <3>1. turnEnv' = [NoEnv EXCEPT !.token = "commands" \in services, !.proxy = Proxied]
        BY <2>2 DEF Opens, TurnFails
      <3>2. turnEnv'.token = ("commands" \in services) /\ turnEnv'.proxy = Proxied
        BY <3>1 DEF NoEnv
      <3>3. ~unpinned => /\ ("commands" \in services) = Withheld
                         /\ Proxied = (Withheld /\ EgressAtStart # "off")
        BY <1>1, <2>2 DEF StartInv, ServicesFit, BuiltFor, Withheld, Opens, TurnFails, Proxied,
           StartTypeOK, SandboxModes, EgressModes
      <3>4. /\ launchAt' = "opened" /\ coming = "serving" /\ coming' = coming
            /\ unpinned' = unpinned
        BY <2>2 DEF Opens, TurnFails, InTurn, policyVars
      <3>5. ~unpinned' => /\ turnEnv'.token = Withheld'
                          /\ turnEnv'.proxy = (Withheld' /\ EgressAtStart' # "off")
        BY <1>2, <3>2, <3>3, <3>4, Zenon
      <3>6. QED
        BY <3>4, <3>5 DEF TurnFitsSoFar
    <2>3. QED
      BY <2>1, <2>2
  <1>20. QED
    BY <1>11, <1>12, <1>13, <1>14, <1>15 DEF StartInv

LEMMA WrapsStart ==
    ASSUME StartInv, Wraps
    PROVE  StartInv'
  <1>1. /\ ~unpinned => Mode = StartedAs /\ Startup("egress") = EgressAtStart
        /\ StartedAs \in SandboxModes /\ EgressAtStart \in EgressModes
    BY AsStarted
  <1>2. UNCHANGED <<StartedAs, EgressAtStart, Withheld>>
    BY DEF StartedAs, EgressAtStart, Withheld, Wraps, TurnFails, NoEnv, Jails, Keeps, InTurn, To,
       hostVars, policyVars, turnVars
  <1>11. StartTypeOK'
    <2>1. Jails \in BOOLEAN
      BY DEF Jails
    <2>2. \/ turnEnv' = NoEnv
          \/ turnEnv' = [turnEnv EXCEPT !.jailed = Jails]
      BY DEF Wraps, TurnFails
    <2>3. turnEnv' \in TurnEnvs
      BY <2>1, <2>2, NoEnvFits DEF StartInv, StartTypeOK, TurnEnvs
    <2>4. QED
      BY <2>3, StartAssumption DEF StartInv, StartTypeOK, Wraps, TurnFails, Keeps, InTurn, To,
         hostVars, policyVars, turnVars
  <1>12. StartIsKept'
    BY DEF StartInv, StartTypeOK, Saved, StartIsKept, Wraps, TurnFails, NoEnv, Jails, Keeps,
       InTurn, To, hostVars, policyVars, turnVars
  <1>13. TrialsHeld'
    BY <1>1, <1>2 DEF StartInv, TrialsHeld, Past, Jails, Fatal, Wraps, TurnFails, NoEnv, Jails,
       Keeps, InTurn, To, hostVars, policyVars, turnVars
  <1>14. ServicesFit'
    BY <1>1, <1>2 DEF StartInv, StartTypeOK, ServicesFit, Trials, BuiltFor, Withheld, Enabled,
       Jails, Wraps, TurnFails, NoEnv, Jails, Keeps, InTurn, To, hostVars, policyVars, turnVars
  <1>15. TurnFitsSoFar'
    <2>1. CASE launchAt' = "none"
      BY <2>1 DEF TurnFitsSoFar
    <2>2. CASE launchAt' # "none"
      <3>1. turnEnv' = [turnEnv EXCEPT !.jailed = Jails]
        BY <2>2 DEF Wraps, TurnFails
      <3>2. /\ turnEnv'.jailed = Jails /\ turnEnv'.token = turnEnv.token
            /\ turnEnv'.proxy = turnEnv.proxy
        BY <3>1 DEF StartInv, StartTypeOK, TurnEnvs
      <3>3. launchAt' = "wrapped" /\ coming' = coming /\ unpinned' = unpinned
        BY <2>2 DEF Wraps, TurnFails, InTurn, policyVars
      <3>4. QED
        BY <1>1, <1>2, <3>2, <3>3 DEF StartInv, TurnFitsSoFar, Wraps, Jails
    <2>3. QED
      BY <2>1, <2>2
  <1>20. QED
    BY <1>11, <1>12, <1>13, <1>14, <1>15 DEF StartInv

LEMMA SpawnsStart ==
    ASSUME StartInv, Spawns
    PROVE  StartInv'
  <1>1. /\ ~unpinned => Mode = StartedAs /\ Startup("egress") = EgressAtStart
        /\ StartedAs \in SandboxModes /\ EgressAtStart \in EgressModes
    BY AsStarted
  <1>2. UNCHANGED <<StartedAs, EgressAtStart, Withheld>>
    BY DEF StartedAs, EgressAtStart, Withheld, Spawns, TurnFails, NoEnv, Enabled, Keeps, InTurn,
       To, hostVars, policyVars, turnVars
  <1>11. StartTypeOK'
    <2>1. Enabled \in BOOLEAN /\ (Enabled /\ turnEnv.token) \in BOOLEAN
      BY DEF Enabled
    <2>2. \/ turnEnv' = NoEnv
          \/ turnEnv' = [turnEnv EXCEPT !.curated = Enabled, !.shims = Enabled /\ turnEnv.token]
      BY DEF Spawns, TurnFails
    <2>3. turnEnv' \in TurnEnvs
      BY <2>1, <2>2, NoEnvFits DEF StartInv, StartTypeOK, TurnEnvs
    <2>4. QED
      BY <2>3, StartAssumption DEF StartInv, StartTypeOK, Spawns, TurnFails, Keeps, InTurn, To,
         hostVars, policyVars, turnVars
  <1>12. StartIsKept'
    BY DEF StartInv, StartTypeOK, Saved, StartIsKept, Spawns, TurnFails, NoEnv, Enabled, Keeps,
       InTurn, To, hostVars, policyVars, turnVars
  <1>13. TrialsHeld'
    BY <1>1, <1>2 DEF StartInv, TrialsHeld, Past, Jails, Fatal, Spawns, TurnFails, NoEnv,
       Enabled, Keeps, InTurn, To, hostVars, policyVars, turnVars
  <1>14. ServicesFit'
    BY <1>1, <1>2 DEF StartInv, StartTypeOK, ServicesFit, Trials, BuiltFor, Withheld, Enabled,
       Jails, Spawns, TurnFails, NoEnv, Enabled, Keeps, InTurn, To, hostVars, policyVars,
       turnVars
  <1>15. TurnFitsSoFar'
    <2>1. CASE launchAt' = "none"
      BY <2>1 DEF TurnFitsSoFar
    <2>2. CASE launchAt' # "none"
      <3>1. turnEnv' = [turnEnv EXCEPT !.curated = Enabled, !.shims = Enabled /\ turnEnv.token]
        BY <2>2 DEF Spawns, TurnFails
      <3>2. /\ turnEnv'.jailed = turnEnv.jailed /\ turnEnv'.token = turnEnv.token
            /\ turnEnv'.proxy = turnEnv.proxy /\ turnEnv'.curated = Enabled
            /\ turnEnv'.shims = (Enabled /\ turnEnv.token)
        BY <3>1 DEF StartInv, StartTypeOK, TurnEnvs
      <3>3. launchAt' = "running" /\ coming' = coming /\ unpinned' = unpinned
        BY <2>2 DEF Spawns, TurnFails, InTurn, policyVars
      <3>4. ~unpinned => Enabled = Withheld
        BY <1>1 DEF Enabled, Withheld
      <3>5. QED
        <4>1. coming = "serving" /\ launchAt = "wrapped"
          BY DEF StartInv, TurnFitsSoFar, Spawns
        <4>2. ~unpinned => /\ turnEnv.token = Withheld /\ turnEnv.jailed = (StartedAs = "jail")
                           /\ turnEnv.proxy = (Withheld /\ EgressAtStart # "off")
          BY <4>1 DEF StartInv, TurnFitsSoFar
        <4>3. ~unpinned => turnEnv'.curated = Withheld
          BY <3>2, <3>4, Zenon
        <4>4. ~unpinned => turnEnv'.shims = (Withheld /\ Withheld)
          BY <3>2, <3>4, <4>2, Zenon
        <4>6. ~unpinned => turnEnv'.shims = Withheld
          <5>1. Withheld \in BOOLEAN /\ turnEnv'.shims \in BOOLEAN
            BY <1>11 DEF Withheld, StartTypeOK, TurnEnvs
          <5>2. QED
            BY <4>4, <5>1
        <4>7. QED
          BY <1>2, <3>2, <3>3, <4>1, <4>2, <4>3, <4>6 DEF TurnFitsSoFar
    <2>3. QED
      BY <2>1, <2>2
  <1>20. QED
    BY <1>11, <1>12, <1>13, <1>14, <1>15 DEF StartInv

LEMMA TurnDoneStart ==
    ASSUME StartInv, TurnDone
    PROVE  StartInv'
  <1>1. /\ ~unpinned => Mode = StartedAs /\ Startup("egress") = EgressAtStart
        /\ StartedAs \in SandboxModes /\ EgressAtStart \in EgressModes
    BY AsStarted
  <1>2. UNCHANGED <<StartedAs, EgressAtStart, Withheld>>
    BY DEF StartedAs, EgressAtStart, Withheld, TurnDone, TurnFails, NoEnv, Keeps, InTurn, To,
       hostVars, policyVars, turnVars
  <1>11. StartTypeOK'
    BY NoEnvFits, StartAssumption DEF StartInv, StartTypeOK, TurnDone, TurnFails, Keeps, InTurn,
       To, hostVars, policyVars, turnVars
  <1>12. StartIsKept'
    BY DEF StartInv, StartTypeOK, Saved, StartIsKept, TurnDone, TurnFails, NoEnv, Keeps, InTurn,
       To, hostVars, policyVars, turnVars
  <1>13. TrialsHeld'
    BY <1>1, <1>2 DEF StartInv, TrialsHeld, Past, Jails, Fatal, TurnDone, TurnFails, NoEnv,
       Keeps, InTurn, To, hostVars, policyVars, turnVars
  <1>14. ServicesFit'
    BY <1>1, <1>2 DEF StartInv, StartTypeOK, ServicesFit, Trials, BuiltFor, Withheld, Enabled,
       Jails, TurnDone, TurnFails, NoEnv, Keeps, InTurn, To, hostVars, policyVars, turnVars
  <1>15. TurnFitsSoFar'
    BY <1>1, <1>2 DEF StartInv, StartTypeOK, ServicesFit, TurnFitsSoFar, TurnDone, TurnFails,
       NoEnv, Keeps, InTurn, To, hostVars, policyVars, turnVars
  <1>20. QED
    BY <1>11, <1>12, <1>13, <1>14, <1>15 DEF StartInv

Values(f) ==
    IF f = "mode" THEN SandboxModes ELSE IF f = "egress" THEN EgressModes ELSE BOOLEAN

LEMMA SavesEditStart ==
    ASSUME StartInv, NEW f \in {"mode", "egress", "usable"}, NEW v \in Values(f), SavesEdit(f, v)
    PROVE  StartInv'
  <1>1. /\ ~unpinned => Mode = StartedAs /\ Startup("egress") = EgressAtStart
        /\ StartedAs \in SandboxModes /\ EgressAtStart \in EgressModes
    BY AsStarted
  <1>2. UNCHANGED <<StartedAs, EgressAtStart, Withheld>>
    BY DEF StartedAs, EgressAtStart, Withheld, SavesEdit, Keeps, InTurn, To, hostVars,
       policyVars, turnVars
  <1>11. StartTypeOK'
    <2>1. policy' \in Saved
      BY DEF StartInv, StartTypeOK, Saved, SavesEdit, Values
    <2>2. unpinned' \in BOOLEAN
      BY DEF StartInv, StartTypeOK, SavesEdit
    <2>3. QED
      BY <2>1, <2>2, StartAssumption DEF StartInv, StartTypeOK, SavesEdit, hostVars, turnVars
  <1>12. StartIsKept'
    BY DEF StartInv, StartTypeOK, Saved, StartIsKept, SavesEdit, Keeps, InTurn, To, hostVars,
       policyVars, turnVars
  <1>13. TrialsHeld'
    BY <1>1, <1>2 DEF StartInv, TrialsHeld, Past, Jails, Fatal, SavesEdit, Keeps, InTurn, To,
       hostVars, policyVars, turnVars
  <1>14. ServicesFit'
    BY <1>1, <1>2 DEF StartInv, StartTypeOK, ServicesFit, Trials, BuiltFor, Withheld, Enabled,
       Jails, SavesEdit, Keeps, InTurn, To, hostVars, policyVars, turnVars
  <1>15. TurnFitsSoFar'
    BY <1>1, <1>2 DEF StartInv, StartTypeOK, ServicesFit, TurnFitsSoFar, SavesEdit, Keeps,
       InTurn, To, hostVars, policyVars, turnVars
  <1>20. QED
    BY <1>11, <1>12, <1>13, <1>14, <1>15 DEF StartInv

LEMMA StutterStart == ASSUME StartInv, UNCHANGED startVars PROVE StartInv'
  <1>1. StartTypeOK'
    BY DEF StartInv, StartTypeOK, startVars
  <1>2. QED
    BY <1>1 DEF StartInv, StartIsKept, TrialsHeld, Past, ServicesFit, BuiltFor, Withheld,
       EgressAtStart, StartedAs, TurnFitsSoFar, startVars

LEMMA StartInvKept == ASSUME StartInv, [StartNext]_startVars PROVE StartInv'
  <1>1. /\ (~policy.usable) \in Values("usable") /\ SandboxModes = Values("mode")
        /\ EgressModes = Values("egress")
    BY DEF Values
  <1>2. QED
    BY <1>1, StutterStart, StoreAppearsStart, SavesEditStart, SettingsCheckedStart, BuildsStart,
       CredentialsUpStart, CommandsUpStart, PreflightsStart, LinksCheckedStart,
       JailStartsStart, EgressRefusedStart, SessionWrittenStart, DenialsAskedStart, ProbeStart,
       JudgedStart, ProcessEndsStart, OpensStart, WrapsStart, SpawnsStart, TurnDoneStart
       DEF StartNext

LEMMA StartInvKeeps == StartInv => StartKeeps
  <1>1. SUFFICES ASSUME StartInv PROVE StartKeeps
    OBVIOUS
  <1>2. StartedAs \in SandboxModes /\ EgressAtStart \in EgressModes
    BY <1>1, AsStarted
  <1>3. ServesOnAProvenJail
    <2>1. SUFFICES ASSUME coming = "serving", StartedAs = "jail", ~unpinned
                   PROVE  /\ flaws \subseteq Probed \union {"link_open", "link_covered"}
                          /\ \A p \in flaws \intersect Probed : outcome[p] = "ABSENT"
                          /\ "link_open" \in flaws => ~linux /\ warned
      BY DEF ServesOnAProvenJail
    <2>2. flaws \subseteq Flaws /\ outcome \in [Probed -> Outcomes]
      BY <1>1 DEF StartInv, StartTypeOK
    <2>3. \A p \in flaws \intersect Probed : outcome[p] = "ABSENT"
      BY <1>1, <2>1, <2>2 DEF StartInv, TrialsHeld, Past, Fatal, Outcomes
    <2>4. "link_open" \in flaws => ~linux /\ warned
      BY <1>1, <2>1 DEF StartInv, TrialsHeld, Past
    <2>5. QED
      BY <1>1, <2>1, <2>2, <2>3, <2>4 DEF StartInv, TrialsHeld, Past, Flaws, Probed
  <1>4. TurnFits
    BY <1>1, <1>2 DEF StartInv, ServicesFit, TurnFitsSoFar, TurnFits, Withheld, BuiltFor,
       EgressAtStart
  <1>5. FailsClean
    BY <1>1 DEF StartInv, ServicesFit, FailsClean
  <1>6. QED
    BY <1>3, <1>4, <1>5 DEF StartKeeps

\* A daemon that serves jailed turns has a proven jail, its turns fit what was built for them,
\* and a start that fails is clean (sandbox.py, settings.py).
THEOREM DaemonsComeUp == StartSpec => []StartKeeps
  <1>1. StartInit => StartInv
    BY StartInvStarts
  <1>2. StartInv /\ [StartNext]_startVars => StartInv'
    BY StartInvKept
  <1>3. StartInv => StartKeeps
    BY StartInvKeeps
  <1>4. QED
    BY <1>1, <1>2, <1>3, PTL DEF StartSpec

-----------------------------------------------------------------------------
(* The components together: each behaviour is about one of them.            *)

LEMMA LedgerInvKept == LedgerInv /\ [LedgerNext]_ledgerVars => LedgerInv'
  BY LedgerTyped, LedgerKnows, LedgerSpares DEF LedgerInv

LEMMA LedgerInvSweeps == LedgerInv => SweepsItsOwn
  BY DEF LedgerInv, SweepsItsOwn, SomebodyKnows, KnownAtWork, Own, NoOrphanAtWork, LedgerTypeOK

\* The one at hand keeps its invariant.
AgentParts ==
    /\ part = "agent" => AgentInv
    /\ part = "claude" => ClaudeInv
    /\ part = "hosted" => HostedInv
    /\ part = "start" => StartInv
    /\ part = "jail" => JailInv
    /\ part = "compact" => CompactInv
    /\ part = "command" => CommandInv
    /\ part = "egress" => EgressInv
    /\ part = "fallback" => FallbackInv
    /\ part = "login" => LoginInv
    /\ part = "rollout" => RolloutInv
    /\ part = "memory" => MemoryInv
    /\ part = "ledger" => LedgerInv
    /\ part = "supervision" => SupervisionInv

LEMMA AgentPartsStart == PartsInit => AgentParts
  BY CommandInvStarts, EgressInvStarts, FallbackInvStarts, LoginInvStarts, RolloutInvStarts,
     MemoryInvStarts, LedgerInitial, SupervisionInvStarts, AgentInvStarts, ClaudeInvStarts,
     HostedInvStarts, StartInvStarts, JailInvStarts, CompactInvInit DEF PartsInit, AgentParts

LEMMA AgentPartsKept == AgentParts /\ [PartsNext]_PartsVars => AgentParts'
  <1>1. SUFFICES ASSUME AgentParts, [PartsNext]_PartsVars PROVE AgentParts'
    OBVIOUS
  <1>2. part' = part
    BY <1>1 DEF PartsNext, PartsVars, Alone
  <1>3. part = "command" => [CommandNext]_commandVars
    BY <1>1 DEF PartsNext, PartsVars
  <1>4. part = "egress" => [EgressNext]_egressVars
    BY <1>1 DEF PartsNext, PartsVars
  <1>5. part = "fallback" => [FallbackNext]_fallbackVars
    BY <1>1 DEF PartsNext, PartsVars
  <1>6. part = "login" => [LoginNext]_loginVars
    BY <1>1 DEF PartsNext, PartsVars
  <1>7. part = "rollout" => [RolloutNext]_rolloutVars
    BY <1>1 DEF PartsNext, PartsVars
  <1>8. part = "memory" => [MemoryNext]_memoryVars
    BY <1>1 DEF PartsNext, PartsVars
  <1>9. part = "ledger" => [LedgerNext]_ledgerVars
    BY <1>1 DEF PartsNext, PartsVars
  <1>10. part = "supervision" => [SupervisionNext]_superVars
    BY <1>1 DEF PartsNext, PartsVars
  <1>11. part = "agent" => [AgentNext]_agentVars
    BY <1>1 DEF PartsNext, PartsVars
  <1>12. part = "claude" => [ClaudeNext]_claudeVars
    BY <1>1 DEF PartsNext, PartsVars
  <1>13. part = "hosted" => [HostedNext]_hostedVars
    BY <1>1 DEF PartsNext, PartsVars
  <1>14. part = "start" => [StartNext]_startVars
    BY <1>1 DEF PartsNext, PartsVars
  <1>15. part = "jail" => [JailNext]_jailVars
    BY <1>1 DEF PartsNext, PartsVars
  <1>16. part = "compact" => [CompactNext]_compactVars
    BY <1>1 DEF PartsNext, PartsVars
  <1>17. QED
    BY <1>1, <1>2, <1>3, <1>4, <1>5, <1>6, <1>7, <1>8, <1>9, <1>10, <1>11, <1>12, <1>13,
       <1>14, <1>15, <1>16, CommandInvKept, EgressInvKept, FallbackInvKept, LoginInvKept,
       RolloutInvKept, MemoryInvKept, LedgerInvKept, SupervisionInvKept, AgentInvKept,
       ClaudeInvKept, HostedInvKept, StartInvKept, JailInvKept, CompactStep DEF AgentParts

LEMMA AgentPartsHold == PartsSpec => []AgentParts
  BY AgentPartsStart, AgentPartsKept, PTL DEF PartsSpec

\* What is run and reached for a session stays within it and ends with it
\* (commands.py, egress.py).
THEOREM SessionsAreServed == PartsSpec => []ServedWithinBounds
  <1>1. AgentParts => ServedWithinBounds
    BY CommandInvEnds, EgressInvHolds DEF AgentParts, ServedWithinBounds
  <1>2. QED
    BY <1>1, AgentPartsHold, PTL

\* An account is chosen, and its login shared, without losing a turn to either
\* (account_fallback.py, codex_auth.py).
THEOREM AccountsAreServed == PartsSpec => []AccountsServe
  <1>1. AgentParts => AccountsServe
    BY FallbackInvServes, LoginInvShares DEF AgentParts, AccountsServe
  <1>2. QED
    BY <1>1, AgentPartsHold, PTL

\* A chat goes on in the session that is its own (codex.py, codex_state.py).
THEOREM ThreadsGoOn == PartsSpec => []ThreadsAreKept
  <1>1. AgentParts => ThreadsAreKept
    BY RolloutInvFinds, MemoryInvKnows DEF AgentParts, ThreadsAreKept
  <1>2. QED
    BY <1>1, AgentPartsHold, PTL

\* No sweep and no stop takes the agents of a daemon that runs (orphans.py, the
\* tui/supervisor.py).
THEOREM DaemonsKeepTheirOwn == PartsSpec => []EveryDaemonsOwn
  <1>1. AgentParts => EveryDaemonsOwn
    BY LedgerInvSweeps, SupervisionInvKnows DEF AgentParts, EveryDaemonsOwn
  <1>2. QED
    BY <1>1, AgentPartsHold, PTL

\* A turn ends as what its agent did, whichever agent it was and however it was run
\* (agent.py, backends).
THEOREM TurnsEndAsTheirOwn == PartsSpec => []TurnsAreTheirOwn
  <1>1. AgentParts => TurnsAreTheirOwn
    BY AgentInvEnds, ClaudeInvTells, HostedInvKeeps DEF AgentParts, TurnsAreTheirOwn
  <1>2. QED
    BY <1>1, AgentPartsHold, PTL

\* What runs is confined as the settings ask, or does not run (sandbox.py,
\* sandbox_linux.py).
THEOREM RunsConfined == PartsSpec => []RunsAsConfigured
  <1>1. AgentParts => RunsAsConfigured
    BY StartInvKeeps, JailInvKeeps DEF AgentParts, RunsAsConfigured
  <1>2. QED
    BY <1>1, AgentPartsHold, PTL

\* The variables of the component at hand keep their types and bounds.
THEOREM AgentPartsTyped == PartsSpec => []PartsTypeOK
  <1>1. part \in Parts /\ [PartsNext]_PartsVars => (part \in Parts)'
    BY DEF PartsNext, PartsVars, Alone
  <1>2. PartsSpec => [](part \in Parts)
    <2>1. PartsInit => part \in Parts
      BY DEF PartsInit
    <2>2. QED
      BY <1>1, <2>1, PTL DEF PartsSpec
  <1>3. /\ AgentInv => AgentTypeOK
        /\ ClaudeInv => ClaudeTypeOK
        /\ HostedInv => HostedTypeOK
    BY DEF AgentInv, ClaudeInv, HostedInv
  <1>4. /\ CommandInv => CommandTypeOK
        /\ CompactInv => CompactTypeOK
        /\ FallbackInv => FallbackTypeOK
        /\ RolloutInv => RolloutTypeOK
        /\ LoginInv => LoginTypeOK
        /\ LedgerInv => LedgerTypeOK
    BY CompactInvTyped DEF CommandInv, FallbackInv, RolloutInv, LoginInv, LedgerInv
  <1>5. /\ SupervisionInv => SupervisionTypeOK
        /\ MemoryInv => MemoryTypeOK
        /\ EgressInv => EgressTypeOK
        /\ JailInv => JailTypeOK
        /\ StartInv => StartTypeOK
    BY MemoryInvKnows DEF SupervisionInv, EgressInv, JailInv, StartInv
  <1>6. AgentParts /\ part \in Parts => PartsTypeOK
    BY <1>3, <1>4, <1>5 DEF AgentParts, PartsTypeOK
  <1>7. QED
    BY <1>2, <1>6, AgentPartsHold, PTL
=============================================================================
