----------------------------- MODULE JailMounts -----------------------------
(***************************************************************************)
(* The Linux jail of sandbox.py and sandbox_linux.py: what a turn may read *)
(* and write follows from a list of mounts over a tree of paths, which     *)
(* wrap computes from the settings and from what is there at that moment.  *)
(* The deepest mount over a path decides.  The operator edits the settings *)
(* and other processes make files while a turn is prompted, wrapped and    *)
(* run.  The tree is the part of a host the rules name; the operator's     *)
(* accounts, links of the codex home and renames inside the jail are left  *)
(* out.                                                                    *)
(***************************************************************************)
EXTENDS Integers, Sequences, FiniteSets

CONSTANTS
    MaxSpawns,     \* bound on the turns
    MaxJailEdits,  \* bound on edits of the settings
    MaxMade,       \* bound on what other processes and jailed turns make
    DotenvCap      \* _MAX_SWEPT_DOTENVS

ASSUME JailAssumption ==
    MaxSpawns \in Nat /\ MaxJailEdits \in Nat /\ MaxMade \in Nat /\ DotenvCap \in Nat

\* The part of a host the rules name, each path with the directory it is in.
Parent == [
    ssh |-> "home", bin |-> "home", claude |-> "home", codex |-> "home", data |->
      "home", repo |-> "home",
    history |-> "claude", projects |-> "claude", scratch |-> "claude",
    mine |-> "projects", otherLog |-> "projects",
    config |-> "codex", auth |-> "codex", rollouts |-> "codex",
    otherRun |-> "rollouts",
    dataEnv |-> "data", memory |-> "data", ownCodex |-> "data", workspace |->
      "data",
    memoryEnv |-> "memory",
    ownRuns |-> "ownCodex",
    mcp |-> "workspace", workGit |-> "workspace",
    hooks |-> "workGit",
    repoEnv |-> "repo", subEnv |-> "repo", repoGit |-> "repo",
    repoHooks |-> "repoGit"]
Paths == {"home", "tmp"} \union DOMAIN Parent
Above[p \in Paths] == {p} \union IF p \in DOMAIN Parent THEN Above[Parent[p]] ELSE {}
Depth == [p \in Paths |-> Cardinality(Above[p])]
Under(p, q) == q \in Above[p]
Dotenvs == {"dataEnv", "memoryEnv", "repoEnv", "subEnv"}

\* What other processes may make, and what wrap makes; the rest is always there.
Comes == {"history", "otherLog", "otherRun", "auth", "memoryEnv", "repoEnv", "subEnv",
          "repoHooks"}
Makes == {"projects", "mine", "rollouts", "ownCodex", "ownRuns", "config", "mcp", "hooks"}
Always == Paths \ (Comes \union Makes \union {"workGit"})

ReadEntries == {{}, {"home"}, {"repo"}, {"ssh", "repo"}}
WriteEntries == {{}, {"repo"}, {"repo", "repoHooks"}, {"claude"}}
JailSettings == [extra : ReadEntries, writes : WriteEntries, scoped : BOOLEAN,
                 brokered : BOOLEAN]
NoSettings == [extra |-> {}, writes |-> {}, scoped |-> FALSE, brokered |-> FALSE]

VARIABLES
    jailCfg,     \* the settings as they are now
    jailEdits,
    made,        \* how much has been made
    there,       \* what is there of Comes and Makes
    worktree,    \* the workspace's .git is a file, of a linked worktree
    spawns,
    jailed,      \* where the turn is: "idle", "prompted", "sourced", "running"
    listed,        \* the paths the guidance names as readable
    fate,        \* of the turn that runs: the kind of the mount over each path
    atSpawn,     \* ghost: what was there when they were computed
    asIf,        \* ghost: the settings they were computed from
    drift        \* ghost: a change of settings under the turn, a source not made

NoFate == [p \in Paths |-> "none"]
jailVars == <<jailCfg, jailEdits, made, there, worktree, spawns, jailed, listed, fate,
              atSpawn, asIf, drift>>

There(p) == p \in there \union Always

MountKinds == <<"opaque", "read_only", "read_write", "write_denied", "masked">>
Rank(k) == CHOOSE i \in 1..Len(MountKinds) : MountKinds[i] = k
MountsOf(kind, ps) == {[kind |-> kind, at |-> p] : p \in ps}

JailInit ==
    /\ jailCfg \in [extra : {{}}, writes : {{}}, scoped : BOOLEAN, brokered : {FALSE}]
    /\ worktree \in BOOLEAN
    /\ jailEdits = 0 /\ made = 0 /\ there = {} /\ spawns = 0 /\ jailed = "idle"
    /\ listed = {} /\ fate = NoFate /\ atSpawn = {} /\ asIf = NoSettings /\ drift = {}

-----------------------------------------------------------------------------
(* The grants.                                                             *)

CredentialStores == {"ssh", "data"}
\* What runs outside the jail later: config trees of the agents, a directory on PATH.
Escapes == {"claude", "codex", "bin"}

\* An entry that is the home, above it, or inside or around a store is dropped.
RefusesGrant(p) ==
    \/ Under("home", p)
    \/ \E s \in CredentialStores : Under(p, s) \/ Under(s, p)

RefusesWrite(p) ==
    RefusesGrant(p) \/ \E s \in Escapes : Under(p, s) \/ Under(s, p)

ReadGrants(cfg) == {p \in cfg.extra : ~RefusesGrant(p)}
WriteGrants(cfg) == {p \in cfg.writes : ~RefusesWrite(p)}

ThreadDir(cfg) == IF cfg.scoped THEN "mine" ELSE "projects"
CodexHome(cfg) == IF cfg.scoped THEN "ownCodex" ELSE "codex"
RunsOf(cfg) == IF cfg.scoped THEN "ownRuns" ELSE "rollouts"
SourcesOf(cfg) == {ThreadDir(cfg), CodexHome(cfg), RunsOf(cfg), "rollouts", "scratch"}

\* What git acts on inside a write grant, when it is there and not named itself.
ProtectedIn(ws) ==
    {p \in {"repoHooks"} \intersect there : p \notin ws /\ \E r \in ws : Under(p, r)}
\* The directories between the grant and it: bound, they cannot be renamed.
Pins(ws) ==
    {q \in UNION {Above[p] \ {p} : p \in ProtectedIn(ws)} :
       \E r \in ws : q # r /\ Under(q, r)}

\* In a worktree .git is a file and nothing can be mounted below it.
ProjectDenies == {"mcp"} \union IF worktree THEN {} ELSE {"hooks"}

SweptIn(roots) == {p \in there : p \in Dotenvs /\ \E r \in roots : Under(p, r)}
TooBroad(cfg) == Cardinality(SweptIn(ReadGrants(cfg))) > DotenvCap
MaskedBy(cfg) ==
    SweptIn({"memory", "claude", "codex"} \union ReadGrants(cfg) \union WriteGrants(cfg))
    \union {p \in there : p = "history" \/ (cfg.brokered /\ p = "auth")}

Grants(cfg) ==
    MountsOf("opaque", {"home", "data"}
        \union IF cfg.scoped THEN {"projects", "rollouts"} \intersect there ELSE {})
    \union MountsOf("read_only", {"claude", "codex"} \union ReadGrants(cfg))
    \union MountsOf("read_write", {"workspace", "memory", "tmp", "scratch", "codex",
        ThreadDir(cfg), CodexHome(cfg), RunsOf(cfg)}
        \union WriteGrants(cfg) \union Pins(WriteGrants(cfg)))
    \union MountsOf("write_denied", ProjectDenies \union ProtectedIn(WriteGrants(cfg))
        \union {"config"} \union IF cfg.brokered THEN {} ELSE {"auth"})
    \union MountsOf("masked", MaskedBy(cfg))

\* The guidance lists the grants that are not masked.
Readable(cfg) ==
    {m.at : m \in {g \in Grants(cfg) : g.kind \in {"read_only", "read_write"}}}
    \ MaskedBy(cfg)

-----------------------------------------------------------------------------
(* The mounts in force.                                                    *)

\* sorted by depth, then by kind: the later one lies over the earlier.
LiesOverByKind(m, n) ==
    IF m.kind # n.kind THEN Rank(m.kind) > Rank(n.kind) ELSE Depth[m.at] > Depth[n.at]
LiesOver(m, n) ==
    IF Depth[m.at] # Depth[n.at] THEN Depth[m.at] > Depth[n.at]
    ELSE Rank(m.kind) > Rank(n.kind)

\* The kind of the mount over each path: below none it is the host's, read-only.
FateUnder(mounts) ==
    [p \in Paths |->
       LET over == {m \in mounts : Under(p, m.at)} IN
       IF over = {} THEN "read_only"
       ELSE (CHOOSE m \in over : \A n \in over \ {m} : LiesOver(m, n)).kind]

InJail == jailed = "running"
Shows(p) == There(p) /\ fate[p] \in {"read_only", "read_write", "write_denied"}
Writable(p) == InJail /\ fate[p] = "read_write"

-----------------------------------------------------------------------------
(* The host.                                                               *)

Edited(f, value) ==
    /\ jailEdits < MaxJailEdits /\ value # jailCfg[f] /\ jailed # "running"
    /\ jailCfg' = [jailCfg EXCEPT ![f] = value] /\ jailEdits' = jailEdits + 1
    /\ drift' = IF jailed \in {"prompted", "sourced"} THEN drift \union {"edited"} ELSE drift
    /\ UNCHANGED <<made, there, worktree, spawns, jailed, listed, fate, atSpawn, asIf>>

Appears(p) ==
    /\ made < MaxMade /\ p \in Comes \ there /\ made' = made + 1
    /\ there' = there \union {p} \union
         (CASE p = "otherLog" -> {"projects"} [] p = "otherRun" -> {"rollouts"} [] OTHER -> {})
    /\ UNCHANGED <<jailCfg, jailEdits, worktree, spawns, jailed, listed, fate, atSpawn, asIf,
                   drift>>

-----------------------------------------------------------------------------
(* A turn.                                                                 *)

GivenUp == jailed' = "idle" /\ listed' = {} /\ fate' = NoFate /\ atSpawn' = {} /\ drift' = {}
           /\ asIf' = NoSettings

\* The guidance in its prompt; a grant that is too broad fails the turn here already.
Prompted ==
    /\ jailed = "idle" /\ spawns < MaxSpawns /\ spawns' = spawns + 1
    /\ IF TooBroad(jailCfg) THEN GivenUp
       ELSE /\ jailed' = "prompted" /\ listed' = Readable(jailCfg)
            /\ UNCHANGED <<fate, atSpawn, asIf, drift>>
    /\ UNCHANGED <<jailCfg, jailEdits, made, there, worktree>>

\* wrap makes the sources first; one that cannot be made is logged.
Sourced(failed) ==
    /\ jailed = "prompted" /\ jailed' = "sourced"
    /\ failed \subseteq SourcesOf(jailCfg) \ (there \union Always)
    /\ there' = (there \union ((SourcesOf(jailCfg) \intersect Makes) \ failed))
                \union IF "mine" \in SourcesOf(jailCfg) \ failed THEN {"projects"} ELSE {}
    /\ drift' = drift \union IF failed = {} THEN {} ELSE {"unmade"}
    /\ UNCHANGED <<jailCfg, jailEdits, made, worktree, spawns, listed, fate, atSpawn, asIf>>

\* What may not be written is made when it is absent, so there is something to mount over.
Placed(grants) == there \union {m.at : m \in {d \in grants : d.kind = "write_denied"}}

\* bwrap skips a grant whose source is absent.
Wrapped ==
    /\ jailed = "sourced"
    /\ IF TooBroad(jailCfg) THEN GivenUp /\ UNCHANGED there
       ELSE LET g == Grants(jailCfg) IN
            /\ there' = Placed(g)
            /\ fate' = FateUnder({m \in g : \/ m.kind \notin {"read_only", "read_write"}
                                             \/ There(m.at)})
            /\ jailed' = "running" /\ atSpawn' = there' /\ asIf' = jailCfg
            /\ UNCHANGED <<listed, drift>>
    /\ UNCHANGED <<jailCfg, jailEdits, made, worktree, spawns>>

JailWrites(p) ==
    /\ jailed = "running" /\ Writable(p) /\ p \in (Comes \union Makes) \ there
    /\ made < MaxMade /\ made' = made + 1 /\ there' = there \union {p}
    /\ UNCHANGED <<jailCfg, jailEdits, worktree, spawns, jailed, listed, fate, atSpawn,
                   asIf, drift>>

TurnOver ==
    /\ jailed = "running" /\ GivenUp
    /\ UNCHANGED <<jailCfg, jailEdits, made, there, worktree, spawns>>

JailNext ==
    \/ \E es \in ReadEntries : Edited("extra", es)
    \/ \E es \in WriteEntries : Edited("writes", es)
    \/ \E f \in {"scoped", "brokered"} : Edited(f, ~jailCfg[f])
    \/ \E p \in Comes : Appears(p)
    \/ Prompted
    \/ \E failed \in {{}} \union {{s} : s \in Makes} : Sourced(failed)
    \/ Wrapped
    \/ \E p \in Comes \union Makes : JailWrites(p)
    \/ TurnOver

JailSpec == JailInit /\ [][JailNext]_jailVars

-----------------------------------------------------------------------------
JailTypeOK ==
    /\ jailCfg \in JailSettings /\ asIf \in JailSettings
    /\ jailEdits \in 0..MaxJailEdits /\ made \in 0..MaxMade /\ spawns \in 0..MaxSpawns
    /\ there \subseteq Comes \union Makes /\ atSpawn \subseteq there
    /\ worktree \in BOOLEAN /\ jailed \in {"idle", "prompted", "sourced", "running"}
    /\ listed \subseteq Paths /\ drift \subseteq {"edited", "unmade"}
    /\ \A p \in Paths : fate[p] \in {"none"} \union {MountKinds[i] : i \in 1..Len(MountKinds)}

\* A turn can keep its own session, or its resume is lost without a word
\* (_claude_session_paths, _codex_session_paths); a source that could not be made and a
\* setting that changed while it was wrapped are the gaps.
OwnSessionIsWritable ==
    InJail /\ drift = {} =>
        /\ Writable(ThreadDir(asIf)) /\ There(ThreadDir(asIf))
        /\ Writable(RunsOf(asIf))

\* With the session boundary on, no turn sees the transcript of another thread, whenever
\* it was written and whatever the operator granted beside it.
OthersAreHidden ==
    InJail /\ asIf.scoped /\ drift = {} => ~Shows("otherLog") /\ ~Shows("otherRun")

\* The stores, the daemon's own .env, and the dotenvs that were there when the turn began
\* are hidden under every grant; the login is when the broker holds it.
SecretsAreHidden ==
    InJail =>
        /\ ~Shows("ssh") /\ ~Shows("dataEnv")
        /\ \A p \in atSpawn : p \in Dotenvs => ~Shows(p)
        /\ "history" \in atSpawn => ~Shows("history")
        /\ asIf.brokered /\ "auth" \in atSpawn => ~Shows("auth")

\* What a later run obeys cannot be written or made from inside, also where it is absent:
\* the workspace's, codex's and claude's own, and the hooks in a write grant that were
\* there and are not granted by name.
InstructionsHold ==
    InJail =>
        /\ \A p \in {"config", "claude", "history"} \union ProjectDenies : ~Writable(p)
        /\ "repoHooks" \in atSpawn \ asIf.writes => ~Writable("repoHooks")

\* What the prompt says the turn may read, it may read; a setting edited in between and a
\* source that could not be made are the gaps.
GuidanceIsTrue == InJail /\ drift = {} => \A p \in listed : There(p) => Shows(p)

\* No mount is asked for below a file: bubblewrap would refuse the whole turn.
MountsCanBeMade == InJail /\ worktree => fate["hooks"] = fate["workspace"]

JailKeeps ==
    /\ OwnSessionIsWritable /\ OthersAreHidden /\ SecretsAreHidden
    /\ InstructionsHold /\ GuidanceIsTrue /\ MountsCanBeMade
=============================================================================
