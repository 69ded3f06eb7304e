---------------------------- MODULE DaemonStart ----------------------------
(***************************************************************************)
(* How a daemon that runs agents comes up under sandbox.mode and           *)
(* sandbox.egress, and what its turns then run with: the settings that are *)
(* kept from the start (settings.py), the services _start_sandbox and      *)
(* JobBrokers build, the self-test of the jail (verify_boundary), and the  *)
(* spawn, which reads the mode again.  The operator edits the file at any  *)
(* time and may leave it unusable for a while.  One daemon, one life, one  *)
(* turn at a time.  Overrides from the environment are left out.           *)
(***************************************************************************)
EXTENDS Integers, FiniteSets

CONSTANTS
    Stores,    \* the files the self-test tries to read
    MaxFlaws,  \* bound on what is wrong with the host
    MaxSaves,  \* bound on edits of the settings file
    MaxRuns    \* bound on turns

ASSUME StartAssumption == MaxFlaws \in Nat /\ MaxSaves \in Nat /\ MaxRuns \in Nat

SandboxModes == {"off", "env", "jail", "typo"}
EgressModes == {"gated", "off", "typo"}
Saved == [mode : SandboxModes, egress : EgressModes, usable : BOOLEAN]
NoBaseline == [mode |-> "none", egress |-> "none"]
Flaws == Stores \union {"state", "starts_not", "net_open", "net_unclear", "claude_shut",
                        "codex_shut", "link_open", "link_covered"}
Probed == Stores \union {"state"}
Outcomes == {"unasked", "ABSENT", "DENIED", "LEAKED", "BROKEN", "UNTESTED"}

VARIABLES
    daemon,    \* "chat" or "jobs"
    linux,     \* the platform
    flaws,     \* what is wrong with this host's jail; a store there: not denied
    onHost,    \* the stores that exist
    policy,    \* the settings file
    saves,
    baseline,  \* _STARTUP_VALUES
    atStart,   \* ghost: the file when the daemon started
    unpinned,  \* ghost: edited under a daemon without a baseline
    coming,    \* how far the daemon is
    services,  \* what it has built and runs
    outcome,   \* of each probe
    warned,    \* of a link that may be open
    turnEnv,   \* what the turn has: its services, then its wrapping, then its environment
    launchAt,  \* "none", "opened", "wrapped", "running"
    launches

TurnEnvs ==
    [token : BOOLEAN, proxy : BOOLEAN, jailed : BOOLEAN, curated : BOOLEAN, shims : BOOLEAN]
NoEnv == [token |-> FALSE, proxy |-> FALSE, jailed |-> FALSE, curated |-> FALSE,
          shims |-> FALSE]
startVars == <<daemon, linux, flaws, onHost, policy, saves, baseline, atStart, unpinned,
               coming, services, outcome, warned, turnEnv, launchAt, launches>>
hostVars == <<daemon, linux, flaws>>
policyVars == <<onHost, policy, saves, atStart, unpinned>>
turnVars == <<turnEnv, launchAt, launches>>

StartInit ==
    /\ daemon \in {"chat", "jobs"} /\ linux \in BOOLEAN
    /\ flaws \in {f \in SUBSET Flaws : Cardinality(f) <= MaxFlaws}
    /\ onHost = {} /\ policy \in Saved /\ saves = 0
    /\ baseline = NoBaseline /\ atStart = policy /\ unpinned = FALSE
    /\ coming = "down" /\ services = {} /\ outcome = [p \in Probed |-> "unasked"]
    /\ warned = FALSE /\ turnEnv = NoEnv /\ launchAt = "none" /\ launches = 0

-----------------------------------------------------------------------------
(* Settings.                                                               *)

\* A file that is unusable is ignored whole.
Reads(file, field) ==
    IF file.usable THEN file[field] ELSE [mode |-> "off", egress |-> "gated"][field]

\* startup_value: the baseline, or without one the file as it is now.
StartupNever(field) == Reads(policy, field)
Startup(field) == IF baseline # NoBaseline THEN baseline[field] ELSE Reads(policy, field)

Mode == Startup("mode")
Enabled == Mode \in {"env", "jail"}
Jails == Mode = "jail"

-----------------------------------------------------------------------------
(* The host.                                                               *)

StoreAppears(s) ==
    /\ s \notin onHost /\ onHost' = onHost \union {s} /\ coming \notin {"failed", "gone"}
    /\ UNCHANGED <<hostVars, policy, saves, baseline, atStart, unpinned, coming, services,
                   outcome, warned, turnVars>>

SavesEdit(f, value) ==
    /\ saves < MaxSaves /\ value # policy[f] /\ coming \notin {"down", "failed", "gone"}
    /\ policy' = [policy EXCEPT ![f] = value] /\ saves' = saves + 1
    /\ unpinned' = (unpinned \/ baseline = NoBaseline)
    /\ UNCHANGED <<hostVars, onHost, baseline, atStart, coming, services, outcome, warned,
                   turnVars>>

-----------------------------------------------------------------------------
(* Coming up.  A refusal ends the start.                                   *)

To(p) == coming' = p
Keeps == UNCHANGED <<hostVars, policyVars, turnVars>>

\* The chat daemons check the file before anything reads it, and keep what they find;
\* the jobs worker does not.
SettingsChecked ==
    /\ coming = "down"
    /\ baseline' = IF daemon = "chat" /\ policy.usable
                   THEN [mode |-> policy.mode, egress |-> policy.egress] ELSE NoBaseline
    /\ To(IF daemon = "chat" THEN "build" ELSE "preflight")
    /\ Keeps /\ UNCHANGED <<services, outcome, warned>>

\* _start_sandbox of the chat daemons, JobBrokers.start of the jobs worker.
Builds ==
    /\ coming = "build"
    /\ To(IF Mode = "typo" THEN "failed"
          ELSE IF ~Enabled THEN "serving"
          ELSE IF daemon = "chat" /\ Startup("egress") = "typo" THEN "failed"
          ELSE "credentials")
    /\ services' = {}
    /\ Keeps /\ UNCHANGED <<baseline, outcome, warned>>

CredentialsUp(fails) ==
    /\ coming = "credentials"
    /\ IF fails THEN To("failed") /\ UNCHANGED services
       ELSE To("commands") /\ services' = services \union {"credentials"}
    /\ Keeps /\ UNCHANGED <<baseline, outcome, warned>>

\* What still runs when the command broker could not start.
KeptCredentials == services
Kept == {}

\* The chat daemons build the egress manager along with it.
CommandsUp(fails) ==
    /\ coming = "commands"
    /\ IF fails THEN To("failed") /\ services' = Kept
       ELSE /\ services' = services \union {"commands"} \union
                  (IF daemon = "chat" /\ Startup("egress") = "gated" THEN {"egress"} ELSE {})
            /\ To(IF daemon = "jobs" THEN "serving"
                  ELSE IF Startup("egress") = "typo" THEN "failed" ELSE "preflight")
    /\ Keeps /\ UNCHANGED <<baseline, outcome, warned>>

\* Both halves of the self-test ask for the mode, and pass outside of "jail".
Preflights ==
    /\ coming = "preflight"
    /\ To(IF Mode = "typo" THEN "failed" ELSE IF Jails THEN "links" ELSE "denials")
    /\ Keeps /\ UNCHANGED <<baseline, services, outcome, warned>>

\* A protected path that is a link cannot be mounted over on Linux; elsewhere its target
\* is tried, and a trial that cannot run counts as open.
LinksChecked(fails) ==
    LET linked == flaws \intersect {"link_open", "link_covered"} IN
    /\ coming = "links"
    /\ To(IF linked # {} /\ linux THEN "failed" ELSE "echo")
    /\ warned' = (linked # {} /\ ~linux /\ (fails \/ ~Jails \/ "link_open" \in linked))
    /\ Keeps /\ UNCHANGED <<baseline, services, outcome>>

\* Three trials in the jail, each fatal, also when it cannot run; wrap reads the mode.
Trial(at, next, fails, passes) ==
    /\ coming = at
    /\ To(IF fails \/ Mode = "typo" \/ ~passes THEN "failed" ELSE next)
    /\ Keeps /\ UNCHANGED <<baseline, services, outcome, warned>>
JailStarts(fails) == Trial("echo", "egress", fails, ~Jails \/ "starts_not" \notin flaws)
EgressRefused(fails) ==
    Trial("egress", "session", fails,
          Jails /\ {"net_open", "net_unclear"} \intersect flaws = {})
SessionWritten(fails) ==
    Trial("session", "denials", fails,
          ~Jails \/ {"claude_shut", "codex_shut"} \intersect flaws = {})

DenialsAsked ==
    /\ coming = "denials"
    /\ To(IF Mode = "typo" THEN "failed" ELSE IF Jails THEN "probing"
          ELSE IF daemon = "chat" THEN "serving" ELSE "build")
    /\ Keeps /\ UNCHANGED <<baseline, services, outcome, warned>>

\* The probes run at once, in any order.  Whether a file is there is judged outside.
Exists(p) == p = "state" \/ p \in onHost
ProbeAnswers(p) ==
    IF ~Exists(p) THEN {"ABSENT"}
    ELSE {"UNTESTED", "BROKEN", IF Jails /\ p \notin flaws THEN "DENIED" ELSE "LEAKED"}
Probe(p) ==
    /\ coming = "probing" /\ outcome[p] = "unasked"
    /\ \E o \in ProbeAnswers(p) : outcome' = [outcome EXCEPT ![p] = o]
    /\ To("probing") /\ Keeps /\ UNCHANGED <<baseline, services, warned>>

\* Only what was denied or absent passes; nothing is dropped on the way.
Fatal == {"LEAKED", "BROKEN", "UNTESTED"}
PassesWithoutTest == \A p \in Probed : outcome[p] \notin Fatal \ {"UNTESTED"}
Passes == \A p \in Probed : outcome[p] \notin Fatal
Judged ==
    /\ coming = "probing" /\ \A p \in Probed : outcome[p] # "unasked"
    /\ To(IF ~Passes THEN "failed" ELSE IF daemon = "chat" THEN "serving" ELSE "build")
    /\ Keeps /\ UNCHANGED <<baseline, services, outcome, warned>>

\* The process ends, and everything it serves with it.
ProcessEnds ==
    /\ coming \in {"failed", "serving"} /\ launchAt = "none" /\ coming' = "gone"
    /\ services' = {} /\ Keeps /\ UNCHANGED <<baseline, outcome, warned>>

-----------------------------------------------------------------------------
(* A turn or a job.                                                        *)

InTurn == UNCHANGED <<hostVars, policyVars, baseline, coming, services, outcome, warned>>
TurnFails == launchAt' = "none" /\ turnEnv' = NoEnv

\* A chat turn takes what the daemon built; for_job asks for the egress mode again.
Proxied == IF daemon = "chat" THEN "egress" \in services
           ELSE "commands" \in services /\ Startup("egress") # "off"
Opens ==
    /\ coming = "serving" /\ launchAt = "none" /\ launches < MaxRuns
    /\ launches' = launches + 1
    /\ IF Mode = "typo"
            \/ (daemon = "jobs" /\ "commands" \in services /\ Startup("egress") = "typo")
       THEN TurnFails
       ELSE /\ launchAt' = "opened"
            /\ turnEnv' = [NoEnv EXCEPT !.token = "commands" \in services, !.proxy = Proxied]
    /\ InTurn

\* wrap and agent_env ask for the mode one after the other.
Wraps ==
    /\ launchAt = "opened"
    /\ IF Mode = "typo" THEN TurnFails
       ELSE launchAt' = "wrapped" /\ turnEnv' = [turnEnv EXCEPT !.jailed = Jails]
    /\ InTurn /\ UNCHANGED launches

\* The shims only where the broker behind them can be reached.
Spawns ==
    /\ launchAt = "wrapped"
    /\ IF Mode = "typo" THEN TurnFails
       ELSE /\ launchAt' = "running"
            /\ turnEnv' = [turnEnv EXCEPT !.curated = Enabled,
                                          !.shims = Enabled /\ turnEnv.token]
    /\ InTurn /\ UNCHANGED launches

TurnDone == launchAt = "running" /\ TurnFails /\ InTurn /\ UNCHANGED launches

StartNext ==
    \/ \E s \in Stores : StoreAppears(s)
    \/ \E m \in SandboxModes : SavesEdit("mode", m)
    \/ \E m \in EgressModes : SavesEdit("egress", m)
    \/ SavesEdit("usable", ~policy.usable)
    \/ SettingsChecked \/ Builds
    \/ \E fails \in BOOLEAN : CredentialsUp(fails) \/ CommandsUp(fails)
    \/ Preflights
    \/ \E fails \in BOOLEAN :
          LinksChecked(fails) \/ JailStarts(fails) \/ EgressRefused(fails)
          \/ SessionWritten(fails)
    \/ DenialsAsked \/ Judged \/ ProcessEnds
    \/ \E p \in Probed : Probe(p)
    \/ Opens \/ Wraps \/ Spawns \/ TurnDone

StartSpec == StartInit /\ [][StartNext]_startVars

-----------------------------------------------------------------------------
StartTypeOK ==
    /\ daemon \in {"chat", "jobs"} /\ linux \in BOOLEAN /\ flaws \subseteq Flaws
    /\ onHost \subseteq Stores /\ policy \in Saved /\ atStart \in Saved
    /\ saves \in 0..MaxSaves /\ launches \in 0..MaxRuns
    /\ baseline \in {NoBaseline} \union [mode : SandboxModes, egress : EgressModes]
    /\ unpinned \in BOOLEAN /\ warned \in BOOLEAN
    /\ coming \in {"down", "build", "credentials", "commands", "preflight", "links", "echo",
                  "egress", "session", "denials", "probing", "serving", "failed", "gone"}
    /\ services \subseteq {"credentials", "commands", "egress"}
    /\ outcome \in [Probed -> Outcomes]
    /\ launchAt \in {"none", "opened", "wrapped", "running"}
    /\ turnEnv \in TurnEnvs

StartedAs == Reads(atStart, "mode")

\* A daemon whose turns are to be jailed serves only on a host where the jail does what
\* is claimed of it: it starts, it refuses the network, a session can be kept, and every
\* file that was there when it was asked for is hidden; a link it could not cover was
\* warned of.  No probe that failed, and no edit of the file, gets a daemon past this.
ServesOnAProvenJail ==
    coming = "serving" /\ StartedAs = "jail" /\ ~unpinned =>
        /\ flaws \subseteq Probed \union {"link_open", "link_covered"}
        /\ \A p \in flaws \intersect Probed : outcome[p] = "ABSENT"
        /\ "link_open" \in flaws => ~linux /\ warned

\* What a turn runs with fits together and fits what was built for it: jailed only where
\* the jail was proven, curated exactly where the brokers hold what is withheld, with a
\* way out to them.  An edit of the file changes none of it in a daemon that has a
\* baseline; the jobs worker, and a chat daemon started on an unusable file, have none.
TurnFits ==
    launchAt = "running" /\ ~unpinned =>
        /\ turnEnv.jailed = (StartedAs = "jail")
        /\ turnEnv.curated = (StartedAs \in {"env", "jail"})
        /\ turnEnv.shims = turnEnv.curated /\ turnEnv.token = turnEnv.curated
        /\ turnEnv.token => "credentials" \in services
        /\ turnEnv.proxy = (turnEnv.curated /\ Reads(atStart, "egress") # "off")

\* A start that fails while it builds leaves no broker listening behind it; one that
\* fails its self-test keeps what a chat daemon had built until the process ends.
FailsClean ==
    coming = "failed" /\ outcome = [p \in Probed |-> "unasked"] /\ services # {} =>
        daemon = "chat" /\ {"credentials", "commands"} \subseteq services

StartKeeps == ServesOnAProvenJail /\ TurnFits /\ FailsClean

\* What startup_value and the list of restart-required settings say, without exception;
\* the jobs worker does not keep it.
ModeIsKept == launchAt = "running" => turnEnv.jailed = (StartedAs = "jail")
=============================================================================
