---------------------------- MODULE OrphanLedger ----------------------------
(***************************************************************************)
(* The process groups of the agents a daemon has running, and the file     *)
(* that names them for its next life (jobs/orphans.py, agent.py): a line   *)
(* is appended once a group exists and the file is rewritten without it    *)
(* once the group is reaped.  The next life kills what the file still      *)
(* names before it takes work, unless the pid is now another program's.    *)
(***************************************************************************)
EXTENDS Naturals, FiniteSets

CONSTANTS
    Pids,        \* process ids the system gives out
    DaemonLives  \* bound on the daemon's lives

ASSUME LedgerAssumption == DaemonLives \in Nat

VARIABLES
    phase,      \* "down", "sweeping", "up" or "rewriting" (in forget)
    life,
    groupAt,    \* what each pid is: "free", "agent", "sameName", "stranger"
    born,       \* the life that spawned each agent
    holds,      \* what the daemon knows: the agents "spawned", "running", "reaped"
    ledger,     \* the pids the file names
    entries,    \* sweep: the entries it read and has not dealt with
    remaining,  \* forget: what it is about to write back
    missed,     \* ghost: agents the ledger lost or a sweep skipped
    shot        \* ghost: pids a sweep killed that no agent of ours had

ledgerVars == <<phase, life, groupAt, born, holds, ledger, entries, remaining, missed, shot>>

HeldGroups == {p \in Pids : holds[p] # "none"}

LedgerInit ==
    /\ phase = "down" /\ life = 0
    /\ groupAt = [p \in Pids |-> "free"] /\ born = [p \in Pids |-> 0]
    /\ holds = [p \in Pids |-> "none"]
    /\ ledger = {} /\ entries = {} /\ remaining = {} /\ missed = {} /\ shot = {}

-----------------------------------------------------------------------------
(* Start: the sweep.                                                       *)

DaemonBoots ==
    /\ phase = "down" /\ life < DaemonLives
    /\ phase' = "sweeping" /\ life' = life + 1
    /\ entries' = ledger
    /\ UNCHANGED <<groupAt, born, holds, ledger, remaining, missed, shot>>

\* Mutant: whatever has the pid is killed.
MatchesAnything(p) == groupAt[p] # "free"
\* _same_command: the pid runs the command the ledger names.
Matches(p) == groupAt[p] \in {"agent", "sameName"}

SweepKills(p) ==
    /\ phase = "sweeping" /\ p \in entries /\ Matches(p)
    /\ entries' = entries \ {p}
    /\ groupAt' = [groupAt EXCEPT ![p] = "free"]
    /\ shot' = IF groupAt[p] = "agent" THEN shot ELSE shot \cup {<<p, groupAt[p]>>}
    /\ UNCHANGED <<phase, life, born, holds, ledger, remaining, missed>>

SweepLeaves(p) ==
    /\ phase = "sweeping" /\ p \in entries /\ ~Matches(p)
    /\ entries' = entries \ {p}
    /\ UNCHANGED <<phase, life, groupAt, born, holds, ledger, remaining, missed, shot>>

\* ps does not answer, or killpg fails: the entry is passed over.
SweepFails(p) ==
    /\ phase = "sweeping" /\ p \in entries /\ groupAt[p] # "free"
    /\ entries' = entries \ {p}
    /\ missed' = IF groupAt[p] = "agent" THEN missed \cup {p} ELSE missed
    /\ UNCHANGED <<phase, life, groupAt, born, holds, ledger, remaining, shot>>

\* Mutant: the file is emptied and the entries are dealt with afterwards.
SweepEndsFirst ==
    /\ phase = "sweeping"
    /\ ledger' = {}
    /\ phase' = IF entries = {} THEN "up" ELSE phase
    /\ UNCHANGED <<life, groupAt, born, holds, entries, remaining, missed, shot>>
\* The file is emptied, and the daemon takes work.
SweepEnds ==
    /\ phase = "sweeping" /\ entries = {}
    /\ phase' = "up" /\ ledger' = {}
    /\ UNCHANGED <<life, groupAt, born, holds, entries, remaining, missed, shot>>

-----------------------------------------------------------------------------
(* A turn's agent.                                                         *)

Spawn(p) ==
    /\ phase = "up" /\ groupAt[p] = "free" /\ holds[p] = "none"
    /\ groupAt' = [groupAt EXCEPT ![p] = "agent"]
    /\ born' = [born EXCEPT ![p] = life]
    /\ holds' = [holds EXCEPT ![p] = "spawned"]
    /\ missed' = missed \ {p}
    /\ UNCHANGED <<phase, life, ledger, entries, remaining, shot>>

\* track_agent_process, and record, whose failure to write is logged.
Announce(p, written) ==
    /\ phase = "up" /\ holds[p] = "spawned"
    /\ holds' = [holds EXCEPT ![p] = "running"]
    /\ ledger' = IF written THEN ledger \cup {p} ELSE ledger
    /\ missed' = IF written THEN missed ELSE missed \cup {p}
    /\ UNCHANGED <<phase, life, groupAt, born, entries, remaining, shot>>

\* The agent ends by itself.
AgentExits(p) ==
    /\ groupAt[p] = "agent"
    /\ groupAt' = [groupAt EXCEPT ![p] = "free"]
    /\ UNCHANGED <<phase, life, born, holds, ledger, entries, remaining, missed, shot>>

\* _kill_process_tree, on every way out of _exec: the group is killed and reaped.
\* (Its leader is not waited for until then: the pid is still this agent's.)
Reap(p) ==
    /\ phase = "up" /\ holds[p] = "running"
    /\ holds' = [holds EXCEPT ![p] = "reaped"]
    /\ groupAt' = [groupAt EXCEPT ![p] = "free"]
    /\ UNCHANGED <<phase, life, born, ledger, entries, remaining, missed, shot>>

\* Mutant: only the reaped agent's line is known to stay.
ForgetAll(p) ==
    /\ phase = "up" /\ holds[p] = "reaped"
    /\ phase' = "rewriting"
    /\ holds' = [holds EXCEPT ![p] = "none"]
    /\ remaining' = {} /\ ledger' = {}
    /\ UNCHANGED <<life, groupAt, born, entries, missed, shot>>
\* forget: the file is read, and truncated to be written again.
Forget(p) ==
    /\ phase = "up" /\ holds[p] = "reaped"
    /\ phase' = "rewriting"
    /\ holds' = [holds EXCEPT ![p] = "none"]
    /\ remaining' = ledger \ {p} /\ ledger' = {}
    /\ UNCHANGED <<life, groupAt, born, entries, missed, shot>>

\* The write takes effect, or fails on a file that is truncated already.
Rewrite(written) ==
    /\ phase = "rewriting"
    /\ phase' = "up" /\ remaining' = {}
    /\ ledger' = IF written THEN remaining ELSE {}
    /\ missed' = IF written THEN missed ELSE missed \cup remaining
    /\ UNCHANGED <<life, groupAt, born, holds, entries, shot>>

-----------------------------------------------------------------------------
(* The system.                                                             *)

\* SIGKILL: what the file does not name is lost.
DaemonKilled ==
    /\ phase # "down"
    /\ phase' = "down"
    /\ missed' = missed \cup remaining \cup {p \in Pids : holds[p] = "spawned"}
    /\ holds' = [p \in Pids |-> "none"] /\ entries' = {} /\ remaining' = {}
    /\ UNCHANGED <<life, groupAt, born, ledger, shot>>

\* A free pid goes to a program of the same name, another daemon's agent, or to
\* any other.  A pid whose leader is not reaped yet is not free.
PidReused(p, what) ==
    /\ groupAt[p] = "free" /\ p \notin HeldGroups
    /\ groupAt' = [groupAt EXCEPT ![p] = what]
    /\ UNCHANGED <<phase, life, born, holds, ledger, entries, remaining, missed, shot>>

PidFreed(p) ==
    /\ groupAt[p] \in {"sameName", "stranger"}
    /\ groupAt' = [groupAt EXCEPT ![p] = "free"]
    /\ UNCHANGED <<phase, life, born, holds, ledger, entries, remaining, missed, shot>>

LedgerNext ==
    \/ DaemonBoots \/ SweepEnds \/ DaemonKilled
    \/ \E written \in BOOLEAN : Rewrite(written)
    \/ \E p \in Pids :
          \/ SweepKills(p) \/ SweepLeaves(p) \/ SweepFails(p) \/ Spawn(p)
          \/ \E written \in BOOLEAN : Announce(p, written)
          \/ AgentExits(p) \/ Reap(p) \/ Forget(p) \/ PidFreed(p)
          \/ \E what \in {"sameName", "stranger"} : PidReused(p, what)

LedgerSpec == LedgerInit /\ [][LedgerNext]_ledgerVars

-----------------------------------------------------------------------------
LedgerTypeOK ==
    /\ phase \in {"down", "sweeping", "up", "rewriting"} /\ life \in 0..DaemonLives
    /\ groupAt \in [Pids -> {"free", "agent", "sameName", "stranger"}]
    /\ born \in [Pids -> 0..DaemonLives]
    /\ holds \in [Pids -> {"none", "spawned", "running", "reaped"}]
    /\ {ledger, entries, remaining, missed} \subseteq SUBSET Pids
    /\ shot \subseteq Pids \X {"sameName", "stranger"}

\* "starting a second copy of a job whose first copy is still running is the
\* failure this exists to prevent" (orphans.py:115): once a daemon takes work, no
\* agent of an earlier life is running, but for those whose line was never
\* written or was lost with the file, or whose sweep failed.
NoOrphanAtWork ==
    phase = "up" =>
        \A p \in Pids : groupAt[p] = "agent" /\ born[p] < life => p \in missed

\* "a pid the OS has recycled onto something unrelated must not be killed"
\* (orphans.py:16): a sweep kills no process but ours and those of our name.
NoStrangerKilled == \A hit \in shot : hit[2] = "sameName"

SweepsItsOwn == NoOrphanAtWork /\ NoStrangerKilled
=============================================================================
