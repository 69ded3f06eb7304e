---------------------------- MODULE Supervision ----------------------------
(***************************************************************************)
(* One frontend's daemons and the supervisors that start and stop them     *)
(* (tui/supervisor.py, heartbeat.py, orchestrator.run).  A daemon is known *)
(* by two files, its heartbeat and the pid file; which of two daemons has  *)
(* the frontend is decided by a lock that dies with its holder.  The       *)
(* supervisors, the dashboard and the command line, do not know of each    *)
(* other, and a service manager starts daemons too.                        *)
(***************************************************************************)
EXTENDS Naturals, FiniteSets

CONSTANTS
    Daemons,    \* process ids of daemons
    Supers,     \* supervisors
    MaxAsks,    \* bound on the requests made of the supervisors
    MaxCrashes  \* bound on the daemons' crashes

NoPid == "noPid"

ASSUME SupervisionAssumption ==
    NoPid \notin Daemons /\ "init" \notin Supers /\ {MaxAsks, MaxCrashes} \subseteq Nat

VARIABLES
    proc,         \* "free", "spawned", "claimed", "swept", "up", "wedged",
                  \* "deaf" (wedged with a SIGTERM pending), "closing",
                  \* "unlinking", "closed" or "zombie"
    parent,       \* who can wait for each daemon: a supervisor, or "init"
    lock, heart, pidFile,
    groups,       \* daemons whose agents run
    recorded,     \* daemons whose agents the process ledger names
    sup,          \* per supervisor: what it is doing, to which daemon, and the verb
    superAsks, crashes,
    crashed,      \* ghost: daemons that died without their cleanup
    hidden,       \* ghost: daemons whose files a supervisor removed for another's
    overlapped,   \* ghost: daemons at work while a stop was after another
    robbed        \* ghost: daemons whose agents a sweep killed under them

superVars == <<proc, parent, lock, heart, pidFile, groups, recorded, sup, superAsks, crashes,
               crashed, hidden, overlapped, robbed>>

IdleSuper == [at |-> "idle", pid |-> NoPid, verb |-> "none"]
Running(p) == proc[p] \notin {"free", "zombie"}

SupervisionInit ==
    /\ proc = [p \in Daemons |-> "free"] /\ parent = [p \in Daemons |-> "init"]
    /\ lock = NoPid /\ heart = NoPid /\ pidFile = NoPid
    /\ groups = {} /\ recorded = {}
    /\ sup = [s \in Supers |-> IdleSuper] /\ superAsks = 0 /\ crashes = 0
    /\ crashed = {} /\ hidden = {} /\ overlapped = {} /\ robbed = {}

-----------------------------------------------------------------------------
(* What the steps are made of.                                             *)

\* _resolve_pid: the heartbeat's pid, whatever its age, else the pid file's.
Resolved == IF heart # NoPid THEN heart ELSE pidFile

\* _has_exited: gone, or a zombie of our own, which asking reaps.
HasExited(s, p) ==
    p \in {q \in Daemons : proc[q] = "free" \/ (proc[q] = "zombie" /\ parent[q] = s)}
NoneRuns(s, p) == p \in {NoPid} \cup {q \in Daemons : HasExited(s, q)}
Reaped(s, p) == [q \in Daemons |-> IF q = p /\ HasExited(s, q) THEN "free" ELSE proc[q]]

\* A process ends: its lock goes with it, and so do its pipes, but not its agents.
Dies(p) ==
    /\ proc' = [proc EXCEPT ![p] = "zombie"]
    /\ lock' = IF lock = p THEN NoPid ELSE lock

\* The daemon's own files are removed with it; so are those of any other by then.
RemoveFiles(p) ==
    /\ heart' = NoPid /\ pidFile' = NoPid
    /\ hidden' = hidden \cup ({heart} \ {NoPid, p})

\* ProcessLedger.sweep: every group named is killed, and the ledger is emptied.
SweepGroups(who) ==
    /\ groups' = groups \ recorded /\ recorded' = {}
    /\ robbed' = robbed \cup {p \in groups \cap recorded : p # who /\ Running(p)}

Goes(s, at, pid) == sup' = [sup EXCEPT ![s].at = at, ![s].pid = pid]
DaemonEnds(s) == sup' = [sup EXCEPT ![s] = IdleSuper]

-----------------------------------------------------------------------------
(* The supervisor.                                                         *)

Request(s, verb) ==
    /\ sup[s].at = "idle" /\ superAsks < MaxAsks
    /\ superAsks' = superAsks + 1
    /\ sup' = [sup EXCEPT ![s] = [at |-> IF verb = "start" THEN "check" ELSE "resolve",
                                  pid |-> NoPid, verb |-> verb]]
    /\ UNCHANGED <<proc, parent, lock, heart, pidFile, groups, recorded, crashes,
                   crashed, hidden, overlapped, robbed>>

\* stop finds a daemon, and sends SIGTERM.  Before the daemon installs its
\* handler that ends it; after, it is asked; a wedged one does not hear.
Terminate(s, p) ==
    IF proc[p] \in {"spawned", "claimed", "swept"}
    THEN Dies(p) /\ crashed' = crashed \cup {p}
    ELSE /\ proc' = [proc EXCEPT ![p] = CASE @ = "up" -> "closing"
                                               [] @ = "wedged" -> "deaf"
                                               [] OTHER -> @]
         /\ UNCHANGED <<lock, crashed>>

StopFound(s) ==
    /\ sup[s].at = "resolve" /\ ~NoneRuns(s, Resolved)
    /\ Terminate(s, Resolved)
    /\ Goes(s, "grace", Resolved)
    /\ overlapped' = overlapped \cup {p \in Daemons \ {Resolved} : Running(p)}
    /\ UNCHANGED <<parent, heart, pidFile, groups, recorded, superAsks, crashes, hidden,
                   robbed>>

Then(s) == IF sup[s].verb = "restart" THEN Goes(s, "unlink", NoPid) ELSE DaemonEnds(s)

\* stop finds none: the files go, in case they name a dead one.
StopFoundNone(s) ==
    /\ sup[s].at = "resolve" /\ NoneRuns(s, Resolved)
    /\ proc' = Reaped(s, Resolved)
    /\ RemoveFiles(Resolved)
    /\ Then(s)
    /\ UNCHANGED <<parent, lock, groups, recorded, superAsks, crashes, crashed, overlapped,
                   robbed>>

\* A poll of the grace sees it gone.
StopSawExit(s) ==
    /\ sup[s].at \in {"grace", "lastPolls"} /\ HasExited(s, sup[s].pid)
    /\ proc' = Reaped(s, sup[s].pid)
    /\ RemoveFiles(sup[s].pid)
    /\ Then(s)
    /\ UNCHANGED <<parent, lock, groups, recorded, superAsks, crashes, crashed, overlapped,
                   robbed>>

\* The grace is over: SIGKILL.  A zombie of another's gets this far too.
StopKills(s) ==
    LET p == sup[s].pid IN
    /\ sup[s].at = "grace" /\ ~HasExited(s, p)
    /\ Dies(p) /\ crashed' = crashed \cup {p}
    /\ Goes(s, "sweep", p)
    /\ UNCHANGED <<parent, heart, pidFile, groups, recorded, superAsks, crashes, hidden,
                   overlapped, robbed>>

\* Mutant: the agents are swept before the daemon is killed.
SweepAnyway(s) ==
    /\ sup[s].at \in {"grace", "sweep"}
    /\ SweepGroups(NoPid)
    /\ Goes(s, IF sup[s].at = "sweep" THEN "lastPolls" ELSE "grace", sup[s].pid)
    /\ UNCHANGED <<proc, parent, lock, heart, pidFile, superAsks, crashes, crashed, hidden,
                   overlapped>>
\* _sweep_agent_groups, which takes no lock.
StopSweeps(s) ==
    /\ sup[s].at = "sweep"
    /\ SweepGroups(NoPid)
    /\ Goes(s, "lastPolls", sup[s].pid)
    /\ UNCHANGED <<proc, parent, lock, heart, pidFile, superAsks, crashes, crashed, hidden,
                   overlapped>>

\* A second of polls has not seen it gone: the files go all the same.
StopGivesUp(s) ==
    /\ sup[s].at = "lastPolls" /\ ~HasExited(s, sup[s].pid)
    /\ RemoveFiles(sup[s].pid)
    /\ Then(s)
    /\ UNCHANGED <<proc, parent, lock, groups, recorded, superAsks, crashes, crashed,
                   overlapped, robbed>>

\* restart removes the heartbeat once more, and calls spawn.
Unlink(s) ==
    /\ sup[s].at = "unlink"
    /\ heart' = NoPid /\ hidden' = hidden \cup ({heart} \ {NoPid})
    /\ Goes(s, "check", NoPid)
    /\ UNCHANGED <<proc, parent, lock, pidFile, groups, recorded, superAsks, crashes, crashed,
                   overlapped, robbed>>

\* spawn refuses when a daemon answers (AlreadyRunning), else preflights.
SpawnChecks(s) ==
    /\ sup[s].at = "check"
    /\ proc' = Reaped(s, Resolved)
    /\ IF NoneRuns(s, Resolved) THEN Goes(s, "popen", NoPid) ELSE DaemonEnds(s)
    /\ UNCHANGED <<parent, lock, heart, pidFile, groups, recorded, superAsks, crashes, crashed,
                   hidden, overlapped, robbed>>

\* A pid is not given out again while a file or a supervisor still has it.
Fresh(p) ==
    /\ proc[p] = "free" /\ p \notin {heart, pidFile} \cup groups
    /\ \A s \in Supers : sup[s].pid # p

Popen(s, p) ==
    /\ sup[s].at = "popen" /\ Fresh(p)
    /\ proc' = [proc EXCEPT ![p] = "spawned"] /\ parent' = [parent EXCEPT ![p] = s]
    /\ pidFile' = p
    /\ crashed' = crashed \ {p} /\ hidden' = hidden \ {p}
    /\ overlapped' = overlapped \ {p} /\ robbed' = robbed \ {p}
    /\ Goes(s, "wait", p)
    /\ UNCHANGED <<lock, heart, groups, recorded, superAsks, crashes>>

SpawnSeesHeartbeat(s) ==
    /\ sup[s].at = "wait" /\ heart = sup[s].pid
    /\ DaemonEnds(s)
    /\ UNCHANGED <<proc, parent, lock, heart, pidFile, groups, recorded, superAsks, crashes,
                   crashed, hidden, overlapped, robbed>>

\* It died first, or did not write in time and is told to end.
SpawnFails(s) ==
    LET p == sup[s].pid IN
    /\ sup[s].at = "wait" /\ heart # p
    /\ IF HasExited(s, p)
       THEN proc' = Reaped(s, p) /\ UNCHANGED <<lock, crashed>>
       ELSE Terminate(s, p)
    /\ pidFile' = NoPid
    /\ DaemonEnds(s)
    /\ UNCHANGED <<parent, heart, groups, recorded, superAsks, crashes, hidden, overlapped,
                   robbed>>

\* The dashboard's tick, and a command's end, after which init waits for its daemons.
SuperTick(s, p) ==
    /\ parent[p] = s /\ proc[p] = "zombie"
    /\ proc' = [proc EXCEPT ![p] = "free"]
    /\ UNCHANGED <<parent, lock, heart, pidFile, groups, recorded, sup, superAsks, crashes,
                   crashed, hidden, overlapped, robbed>>
Leave(s, p) ==
    /\ parent[p] = s /\ sup[s].at = "idle"
    /\ parent' = [parent EXCEPT ![p] = "init"]
    /\ UNCHANGED <<proc, lock, heart, pidFile, groups, recorded, sup, superAsks, crashes,
                   crashed, hidden, overlapped, robbed>>

-----------------------------------------------------------------------------
(* A daemon.                                                               *)

\* claim: the lock is taken, or the daemon refuses to run.
Claim(p) ==
    /\ proc[p] = "spawned"
    /\ IF lock = NoPid
       THEN proc' = [proc EXCEPT ![p] = "claimed"] /\ lock' = p
       ELSE Dies(p)
    /\ UNCHANGED <<parent, heart, pidFile, groups, recorded, sup, superAsks, crashes, crashed,
                   hidden, overlapped, robbed>>

BootSweep(p) ==
    /\ proc[p] = "claimed"
    /\ proc' = [proc EXCEPT ![p] = "swept"]
    /\ SweepGroups(p)
    /\ UNCHANGED <<parent, lock, heart, pidFile, sup, superAsks, crashes, crashed, hidden,
                   overlapped>>

\* A stop of another is under way, and has not swept.
BeingStopped(p) == \E s \in Supers : sup[s].at \in {"grace", "sweep"} /\ sup[s].pid # p

\* Mutant: the loop outlives the shutdown's cancel.
BeatsWhileClosing(p) ==
    /\ proc[p] \in {"swept", "up", "closing", "unlinking", "closed"}
    /\ proc' = [proc EXCEPT ![p] = IF @ = "swept" THEN "up" ELSE @]
    /\ heart' = p /\ hidden' = hidden \ {p}
    /\ overlapped' = IF proc[p] = "swept" /\ BeingStopped(p)
                      THEN overlapped \cup {p} ELSE overlapped
    /\ UNCHANGED <<parent, lock, pidFile, groups, recorded, sup, superAsks, crashes, crashed,
                   robbed>>
\* write_once, the first one once the daemon is built.
Beat(p) ==
    /\ proc[p] \in {"swept", "up"}
    /\ proc' = [proc EXCEPT ![p] = "up"]
    /\ heart' = p /\ hidden' = hidden \ {p}
    /\ overlapped' = IF proc[p] = "swept" /\ BeingStopped(p)
                      THEN overlapped \cup {p} ELSE overlapped
    /\ UNCHANGED <<parent, lock, pidFile, groups, recorded, sup, superAsks, crashes, crashed,
                   robbed>>

AgentStarts(p) ==
    /\ proc[p] = "up" /\ p \notin groups
    /\ groups' = groups \cup {p} /\ recorded' = recorded \cup {p}
    /\ UNCHANGED <<proc, parent, lock, heart, pidFile, sup, superAsks, crashes, crashed,
                   hidden, overlapped, robbed>>
AgentEnds(p) ==
    /\ proc[p] \in {"up", "wedged", "deaf"} /\ p \in groups
    /\ groups' = groups \ {p}
    /\ recorded' = IF proc[p] = "up" THEN recorded \ {p} ELSE recorded
    /\ UNCHANGED <<proc, parent, lock, heart, pidFile, sup, superAsks, crashes, crashed,
                   hidden, overlapped, robbed>>

\* The event loop is held up, or goes on: a SIGTERM meanwhile is heard then.
Wedge(p) ==
    /\ proc[p] = "up" /\ crashes < MaxCrashes
    /\ proc' = [proc EXCEPT ![p] = "wedged"] /\ crashes' = crashes + 1
    /\ UNCHANGED <<parent, lock, heart, pidFile, groups, recorded, sup, superAsks, crashed,
                   hidden, overlapped, robbed>>
Unwedge(p) ==
    /\ proc[p] \in {"wedged", "deaf"}
    /\ proc' = [proc EXCEPT ![p] = IF @ = "deaf" THEN "closing" ELSE "up"]
    /\ UNCHANGED <<parent, lock, heart, pidFile, groups, recorded, sup, superAsks, crashes,
                   crashed, hidden, overlapped, robbed>>

\* The shutdown: agents are killed; then remove_owned reads whose the heartbeat is.
Close(p) ==
    /\ proc[p] = "closing"
    /\ groups' = groups \ {p} /\ recorded' = recorded \ {p}
    /\ proc' = [proc EXCEPT ![p] = IF heart = p THEN "unlinking" ELSE "closed"]
    /\ UNCHANGED <<parent, lock, heart, pidFile, sup, superAsks, crashes, crashed, hidden,
                   overlapped, robbed>>
RemoveOwned(p) ==
    /\ proc[p] = "unlinking"
    /\ heart' = NoPid /\ hidden' = hidden \cup ({heart} \ {NoPid, p})
    /\ proc' = [proc EXCEPT ![p] = "closed"]
    /\ UNCHANGED <<parent, lock, pidFile, groups, recorded, sup, superAsks, crashes, crashed,
                   overlapped, robbed>>
Release(p) ==
    /\ proc[p] = "closed"
    /\ Dies(p)
    /\ UNCHANGED <<parent, heart, pidFile, groups, recorded, sup, superAsks, crashes, crashed,
                   hidden, overlapped, robbed>>

\* The daemon dies with no cleanup; a service manager starts one; init reaps.
DaemonCrashes(p) ==
    /\ Running(p) /\ crashes < MaxCrashes
    /\ crashes' = crashes + 1
    /\ Dies(p) /\ crashed' = crashed \cup {p}
    /\ UNCHANGED <<parent, heart, pidFile, groups, recorded, sup, superAsks, hidden,
                   overlapped, robbed>>
Managed(p) ==
    /\ Fresh(p) /\ superAsks < MaxAsks
    /\ superAsks' = superAsks + 1
    /\ proc' = [proc EXCEPT ![p] = "spawned"] /\ parent' = [parent EXCEPT ![p] = "init"]
    /\ crashed' = crashed \ {p} /\ hidden' = hidden \ {p}
    /\ overlapped' = overlapped \ {p} /\ robbed' = robbed \ {p}
    /\ UNCHANGED <<lock, heart, pidFile, groups, recorded, sup, crashes>>
InitReaps(p) ==
    /\ parent[p] = "init" /\ proc[p] = "zombie"
    /\ proc' = [proc EXCEPT ![p] = "free"]
    /\ UNCHANGED <<parent, lock, heart, pidFile, groups, recorded, sup, superAsks, crashes,
                   crashed, hidden, overlapped, robbed>>

SupervisionNext ==
    \/ \E s \in Supers :
          \/ \E verb \in {"start", "stop", "restart"} : Request(s, verb)
          \/ StopFound(s) \/ StopFoundNone(s) \/ StopSawExit(s) \/ StopKills(s)
          \/ StopSweeps(s) \/ StopGivesUp(s) \/ Unlink(s) \/ SpawnChecks(s)
          \/ SpawnSeesHeartbeat(s) \/ SpawnFails(s)
          \/ \E p \in Daemons : Popen(s, p) \/ SuperTick(s, p) \/ Leave(s, p)
    \/ \E p \in Daemons :
          \/ Claim(p) \/ BootSweep(p) \/ Beat(p) \/ AgentStarts(p) \/ AgentEnds(p)
          \/ Wedge(p) \/ Unwedge(p) \/ Close(p) \/ RemoveOwned(p) \/ Release(p)
          \/ DaemonCrashes(p) \/ Managed(p) \/ InitReaps(p)

SupervisionSpec == SupervisionInit /\ [][SupervisionNext]_superVars

-----------------------------------------------------------------------------
SupervisionTypeOK ==
    /\ proc \in [Daemons -> {"free", "spawned", "claimed", "swept", "up", "wedged",
                             "deaf", "closing", "unlinking", "closed", "zombie"}]
    /\ parent \in [Daemons -> Supers \cup {"init"}]
    /\ {lock, heart, pidFile} \subseteq Daemons \cup {NoPid}
    /\ {groups, recorded, crashed, hidden, overlapped, robbed} \subseteq SUBSET Daemons
    /\ \A s \in Supers : sup[s].pid \in Daemons \cup {NoPid}

\* "Heartbeat freshness is not an atomic startup guard: two daemons can both pass
\* it before either writes" (orchestrator.run): the daemon that runs turns holds
\* the lock, and its heartbeat names it unless a supervisor that was stopping
\* another removed the files; a heartbeat names a daemon that runs, or one that
\* died without its cleanup.
KnownForWhatItIs ==
    /\ \A p \in Daemons : proc[p] \in {"up", "wedged", "deaf"} =>
          lock = p /\ (heart = p \/ p \in hidden)
    /\ heart # NoPid => Running(heart) \/ heart \in crashed

\* The agents of a daemon that runs are killed by no sweep, its own boot's or a
\* supervisor's, unless the files named another to a stop when it began, or its own
\* first heartbeat came while a stop was after another.
AgentsAreItsOwn == robbed \subseteq overlapped

\* A daemon is seen for what it is, and a stop or a start takes no other daemon's agents
\* (heartbeat.py, watchdog.py and supervisor.py together).
DaemonsAreKnown == KnownForWhatItIs /\ AgentsAreItsOwn
=============================================================================
