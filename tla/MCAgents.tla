------------------------------- MODULE MCAgents ------------------------------
(***************************************************************************)
(* Model-checking instance of the components around the agents and the     *)
(* daemons that run them, each explored on its own: one run checks them all.*)
(* The .cfg file gives the constants their values.                         *)
(***************************************************************************)
EXTENDS AgentTurn, ClaudeTurn, HostedRun, BrokeredCommand, Compaction, AccountFallback,
        CodexRollouts, CodexLogin, OrphanLedger, Supervision, SessionMemory, Egress,
        JailMounts, DaemonStart, TLC

VARIABLE part    \* the component this behaviour is about

Parts == {"agent", "claude", "hosted", "command", "compact", "fallback", "rollout",
          "login", "ledger", "supervision", "memory", "egress", "jail", "start"}

\* A choice the other components make at the start is fixed, and the daemons that
\* share a login are interchangeable: the first request is the first one's.
PartsInit ==
    /\ part \in Parts
    /\ AgentInit
    /\ part # "agent" => bounded
    /\ ClaudeInit
    /\ part # "claude" => claudeMode = "native"
    /\ HostedInit
    /\ CommandInit
    /\ CompactInit
    /\ FallbackInit
    /\ RolloutInit
    /\ part # "rollout" => place = [t \in FirstTurns |-> "shared"]
    /\ LoginInit
    /\ servedBy[CHOOSE q \in Requests : TRUE] = CHOOSE d \in Brokers : TRUE
    /\ part # "login" => servedBy = [q \in Requests |-> CHOOSE d \in Brokers : TRUE]
    /\ LedgerInit
    /\ SupervisionInit
    /\ MemoryInit
    /\ part # "memory" => backend = "claude" /\ home = "own"
    /\ EgressInit
    /\ part # "egress" => asksHosts
    /\ JailInit
    /\ part # "jail" => ~worktree /\ ~jailCfg.scoped
    /\ StartInit
    /\ part # "start" => daemon = "chat" /\ linux /\ flaws = {}
    /\ part # "start" => policy = [mode |-> "off", egress |-> "gated", usable |-> TRUE]

\* The components that a step is not about stand still.
Alone(p) ==
    /\ IF p = "agent" THEN TRUE ELSE UNCHANGED agentVars
    /\ IF p = "claude" THEN TRUE ELSE UNCHANGED claudeVars
    /\ IF p = "hosted" THEN TRUE ELSE UNCHANGED hostedVars
    /\ IF p = "command" THEN TRUE ELSE UNCHANGED commandVars
    /\ IF p = "compact" THEN TRUE ELSE UNCHANGED compactVars
    /\ IF p = "fallback" THEN TRUE ELSE UNCHANGED fallbackVars
    /\ IF p = "rollout" THEN TRUE ELSE UNCHANGED rolloutVars
    /\ IF p = "login" THEN TRUE ELSE UNCHANGED loginVars
    /\ IF p = "ledger" THEN TRUE ELSE UNCHANGED ledgerVars
    /\ IF p = "supervision" THEN TRUE ELSE UNCHANGED superVars
    /\ IF p = "memory" THEN TRUE ELSE UNCHANGED memoryVars
    /\ IF p = "egress" THEN TRUE ELSE UNCHANGED egressVars
    /\ IF p = "jail" THEN TRUE ELSE UNCHANGED jailVars
    /\ IF p = "start" THEN TRUE ELSE UNCHANGED startVars
    /\ UNCHANGED part

PartsNext ==
    \/ part = "agent" /\ AgentNext /\ Alone("agent")
    \/ part = "claude" /\ ClaudeNext /\ Alone("claude")
    \/ part = "hosted" /\ HostedNext /\ Alone("hosted")
    \/ part = "command" /\ CommandNext /\ Alone("command")
    \/ part = "compact" /\ CompactNext /\ Alone("compact")
    \/ part = "fallback" /\ FallbackNext /\ Alone("fallback")
    \/ part = "rollout" /\ RolloutNext /\ Alone("rollout")
    \/ part = "login" /\ LoginNext /\ Alone("login")
    \/ part = "ledger" /\ LedgerNext /\ Alone("ledger")
    \/ part = "supervision" /\ SupervisionNext /\ Alone("supervision")
    \/ part = "memory" /\ MemoryNext /\ Alone("memory")
    \/ part = "egress" /\ EgressNext /\ Alone("egress")
    \/ part = "jail" /\ JailNext /\ Alone("jail")
    \/ part = "start" /\ StartNext /\ Alone("start")

PartsVars == <<part, agentVars, claudeVars, hostedVars, commandVars, compactVars,
               fallbackVars, rolloutVars, loginVars, ledgerVars, superVars,
               memoryVars, egressVars, jailVars, startVars>>

PartsSpec == PartsInit /\ [][PartsNext]_PartsVars

\* The types of the variables of the component at hand.
PartsTypeOK ==
    /\ part \in Parts
    /\ (part = "agent" => AgentTypeOK)
    /\ (part = "claude" => ClaudeTypeOK)
    /\ (part = "hosted" => HostedTypeOK)
    /\ (part = "command" => CommandTypeOK)
    /\ (part = "compact" => CompactTypeOK)
    /\ (part = "fallback" => FallbackTypeOK)
    /\ (part = "rollout" => RolloutTypeOK)
    /\ (part = "login" => LoginTypeOK)
    /\ (part = "ledger" => LedgerTypeOK)
    /\ (part = "supervision" => SupervisionTypeOK)
    /\ (part = "memory" => MemoryTypeOK)
    /\ (part = "egress" => EgressTypeOK)
    /\ (part = "jail" => JailTypeOK)
    /\ (part = "start" => StartTypeOK)

\* A turn ends as what its agent did, whichever agent it was and however it was run:
\* AgentTurn, ClaudeTurn and HostedRun together.
TurnsAreTheirOwn ==
    /\ part = "agent" => TurnEndsWell
    /\ part = "claude" => ClaudeKeeps
    /\ part = "hosted" => HostedKeeps

\* What is run and reached for a session stays within it, and ends with it:
\* BrokeredCommand and Egress together.
ServedWithinBounds ==
    /\ part = "command" => CommandEndsWell
    /\ part = "egress" => EgressKeeps

\* A chat goes on in the session that is its own: CodexRollouts and SessionMemory
\* together.
ThreadsAreKept ==
    /\ part = "rollout" => FindsItsRollout
    /\ part = "memory" => MemoryIsKept

\* No sweep and no stop takes the agents of a daemon that runs: OrphanLedger and
\* Supervision together.
EveryDaemonsOwn ==
    /\ part = "ledger" => SweepsItsOwn
    /\ part = "supervision" => DaemonsAreKnown

\* An account is chosen, and its login shared, without losing a turn to either:
\* AccountFallback and CodexLogin together.
AccountsServe ==
    /\ part = "fallback" => FallsBackSafely
    /\ part = "login" => LoginIsShared

\* What runs is confined as the settings ask, or does not run: DaemonStart and
\* JailMounts together.
RunsAsConfigured ==
    /\ part = "start" => StartKeeps
    /\ part = "jail" => JailKeeps
=============================================================================
