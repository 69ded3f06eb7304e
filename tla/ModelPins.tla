------------------------------ MODULE ModelPins ------------------------------
(***************************************************************************)
(* What a conversation runs on: Orchestrator.current_profile lays the      *)
(* account the session was given, and the model and effort pinned from the *)
(* chat ($model), over the global agent block or the profile that          *)
(* agent.channel_profiles maps its channel to. The configuration is read   *)
(* anew for every turn and command; the accounts are those of the start.   *)
(* One chat's channel is mapped, the other's is not; the backend is        *)
(* claude, native or through ollama, and every agent run is one step.      *)
(***************************************************************************)
EXTENDS Naturals

CONSTANTS
    Confs,        \* the contents config.yaml takes while the daemons run
    BundledBlock, \* the agent block that holds when the file cannot be parsed
    Triage,       \* the one profile's claude block: model and effort
    Registry,     \* accounts: each one's mode and model, "blank" for the configured one
    Listed,       \* per mode, the names its catalogue lists
    Aliases,      \* per listed short name, the id it stands for
    Levels,       \* per id that the catalogue annotates, the efforts it takes
    OnShape,      \* per mode, unlisted names that are taken on their shape
    Said,         \* the commands people give in each chat: a name and an effort, "blank" for none
    MaxHappens    \* bound on commands, edits, catalogue changes and restarts

\* A file that cannot be parsed has no rows, and routes are to accounts there are.
ASSUME PinAssumption ==
    /\ MaxHappens \in Nat /\ "unset" \notin DOMAIN Registry
    /\ \A f \in Confs : f.route.name \in {"blank"} \cup DOMAIN Registry
                        /\ (f.whole \/ f.row = "none")

VARIABLES
    conf,           \* what config.yaml holds
    listsReadable,  \* a catalogue answers
    pins,           \* _model_overrides: what each chat pinned
    modelsLoaded,   \* _models_loaded: the store was read in this process
    store,          \* state/<platform>.models.json: pins, or TornStore
    chosen,         \* each session's selection file
    reading,        \* _context: the model whose context each chat's reading measures
    running,        \* the turn of each chat, or Resting
    happened,       \* commands, edits, catalogue changes and restarts so far
    meant,          \* ghost: what each chat was told it is pinned to
    unwritten,      \* ghost: the last write of the store failed
    keptAccount,    \* ghost: the account each session was last told to use
    moved,          \* ghost: the configuration or the account moved since the reading
    fits,           \* ghost: the effort was checked against the catalogue's pinned model
    turnedDown      \* ghost: the chats a row has stopped a turn of

pinVars == <<conf, listsReadable, pins, modelsLoaded, store, chosen, reading, running,
             happened, meant, unwritten, keptAccount, moved, fits, turnedDown>>

PinChats == {"mapped", "other"}
NoPin == [model |-> "blank", effort |-> "blank"]
NoPins == [c \in PinChats |-> NoPin]
TornStore == [c \in {} |-> NoPin]
Unchosen == [name |-> "unset", pool |-> FALSE]
Resting == [account |-> "blank", on |-> "resting"]
Efforts == {"blank", "high"}

\* What the preflight lets a daemon start on.
StartsOn(f) ==
    /\ f.whole /\ f.row \in {"none", "triage"}
    /\ f.global.mode = "ollama" => f.global.ollama # "blank"

PinInit ==
    /\ conf \in {f \in Confs : StartsOn(f)}
    /\ listsReadable = TRUE
    /\ pins = NoPins /\ modelsLoaded = FALSE /\ store = NoPins
    /\ chosen = [c \in PinChats |-> Unchosen] /\ reading = [c \in PinChats |-> "none"]
    /\ running = [c \in PinChats |-> Resting] /\ happened = 0
    /\ meant = NoPins /\ unwritten = FALSE
    /\ keptAccount = [c \in PinChats |-> "unset"] /\ moved = [c \in PinChats |-> FALSE]
    /\ fits = [c \in PinChats |-> FALSE] /\ turnedDown = {}

(***************************************************************************)
(* The configuration: the global block, and the channel's row over it.     *)
(***************************************************************************)
Global == IF conf.whole THEN conf.global ELSE BundledBlock

\* The mutants: every row is checked for every chat; a missing profile is no row.
RowProblemAnywhere(c) ==
    CASE conf.whole /\ conf.row = "table" -> "table"
      [] conf.whole /\ conf.row = "missing" -> "row"
      [] OTHER -> "no"
RowProblemFallsBack(c) == IF conf.whole /\ conf.row = "table" THEN "table" ELSE "no"

\* channel_profile: the table's shape fails every chat, a row only its own.
RowProblem(c) ==
    CASE conf.whole /\ conf.row = "table" -> "table"
      [] conf.whole /\ conf.row = "missing" /\ c = "mapped" -> "row"
      [] OTHER -> "no"


OnTriage(c) == conf.whole /\ conf.row = "triage" /\ c = "mapped"

\* resolve_profile: a profile's claude block is read in native mode only. The global
\* block sets no effort.
BaseProfile(c) ==
    [mode |-> Global.mode,
     model |-> IF Global.mode = "ollama" THEN Global.ollama
               ELSE IF OnTriage(c) THEN Triage.model ELSE Global.model,
     effort |-> IF Global.mode = "native" /\ OnTriage(c) THEN Triage.effort ELSE "blank"]

ModelProblem == IF Global.mode = "ollama" /\ Global.ollama = "blank" THEN "model" ELSE "no"

(***************************************************************************)
(* The account, and the pin over it.                                       *)
(***************************************************************************)
Routed == conf.route

\* The mutant: an edited route takes the session along.
SelectionRoutes(c) == IF conf.whole THEN Routed ELSE chosen[c]

\* selection: what the session was given before comes first.
Selection(c) == IF chosen[c] # Unchosen THEN chosen[c] ELSE Routed

\* A file that cannot be parsed leaves no routes to read.
AccountProblem(c) == IF chosen[c] = Unchosen /\ ~conf.whole THEN "accounts" ELSE "no"

Problem(c) ==
    IF RowProblem(c) # "no" THEN RowProblem(c)
    ELSE IF ModelProblem # "no" THEN ModelProblem ELSE AccountProblem(c)

Pinned(base, pin) ==
    [base EXCEPT !.model = IF pin.model # "blank" THEN pin.model ELSE @,
                 !.effort = IF pin.effort # "blank" THEN pin.effort ELSE @]

\* apply_profile: the account's own mode and model, over the base and under the pin.
OnAccount(base, name, pin) ==
    LET mode == IF name # "blank" /\ Registry[name].mode # "blank" THEN Registry[name].mode
                ELSE base.mode
        model == IF name = "blank" THEN base.model
                 ELSE IF Registry[name].model # "blank" THEN Registry[name].model
                 ELSE IF (mode = "ollama") # (base.mode = "ollama") THEN Global.model
                 ELSE base.model
    IN  Pinned([mode |-> mode, model |-> model, effort |-> base.effort], pin)

FromStore == IF store = TornStore THEN NoPins ELSE store

\* The mutant: a command starts from what this process happens to hold.
PinsNowUnread == pins

\* _overrides: the store is read once in a process, before anything is made of it.
PinsNow == IF modelsLoaded THEN pins ELSE FromStore

Current(c) == OnAccount(BaseProfile(c), Selection(c).name, PinsNow[c])

(***************************************************************************)
(* The command: parse, and what it leaves pinned.                          *)
(***************************************************************************)
NameOptions(mode) ==
    IF listsReadable THEN Listed[mode]
    ELSE IF mode = "ollama" THEN {} ELSE DOMAIN Aliases

\* _model_problem: a listed name, and else one taken on its shape: with a catalogue
\* there, only ollama's remote models are.
NameTaken(name, mode) ==
    \/ name \in NameOptions(mode)
    \/ name \in OnShape[mode] /\ (mode = "ollama" \/ ~listsReadable)

\* The mutant: the catalogue is asked by the name as typed.
IdOfAsTyped(name) == name

\* _resolve_model, for a name of the native catalogue.
IdOf(name) == IF name \in DOMAIN Aliases THEN Aliases[name] ELSE name

\* What the catalogue says of a name's efforts; without a word, the backend's own set.
LevelsOf(name, mode) ==
    IF mode = "native" /\ IdOf(name) \in DOMAIN Levels THEN Levels[IdOf(name)]
    ELSE Efforts \ {"blank"}
EffortOptions(name, mode) == IF listsReadable THEN LevelsOf(name, mode) ELSE Efforts \ {"blank"}

\* The pin a command leaves: a bare "default" clears both fields, as a second word its
\* own; a field that is not named is kept.
PinAfter(pin, name, effort) ==
    [model |-> IF name = "default" THEN "blank" ELSE name,
     effort |-> CASE effort # "blank" -> IF effort = "default" THEN "blank" ELSE effort
                  [] effort = "blank" /\ name = "default" -> "blank"
                  [] OTHER -> pin.effort]

\* parse, with _effort_problem: "default" as the name leaves the effort to be checked
\* against the model that runs now, the pinned one included.
CommandTaken(c, name, effort) ==
    LET p == Current(c)
        subject == IF name = "default" THEN p.model ELSE name
    IN  \/ name = "default" /\ effort = "blank"
        \/ /\ name = "default" \/ NameTaken(name, p.mode)
           /\ effort \in {"blank", "default"} \cup EffortOptions(subject, p.mode)

Happens == happened < MaxHappens /\ happened' = happened + 1

\* on_model and _apply_model_change, with _save_model_overrides: the write is not
\* atomic, and a failed one is only logged. A turn under way keeps its profile, and
\* brings the reading back that the command drops.
ModelCommand(c, name, effort, write) ==
    /\ Happens /\ Problem(c) = "no" /\ CommandTaken(c, name, effort)
    /\ pins' = [PinsNow EXCEPT ![c] = PinAfter(@, name, effort)] /\ modelsLoaded' = TRUE
    /\ store' = CASE write = "done" -> pins'
                  [] write = "denied" -> store
                  [] write = "torn" -> TornStore
    /\ unwritten' = (write # "done")
    /\ meant' = [meant EXCEPT ![c] = PinAfter(@, name, effort)]
    /\ reading' = [reading EXCEPT ![c] = "none"]
    /\ running' = IF running[c] = Resting THEN running
                  ELSE [running EXCEPT ![c].touched = TRUE]
    /\ fits' = [fits EXCEPT ![c] = /\ listsReadable /\ Current(c).mode = "native"
                                  /\ name # "default" /\ effort \notin {"blank", "default"}]
    /\ moved' = [moved EXCEPT ![c] = FALSE]
    /\ UNCHANGED <<conf, listsReadable, chosen, keptAccount, turnedDown>>

\* A bare command, or one that is refused: the store is read, and nothing changes.
AsksWhere(c) ==
    /\ Problem(c) = "no" /\ ~modelsLoaded /\ pins' = PinsNow /\ modelsLoaded' = TRUE
    /\ UNCHANGED <<conf, listsReadable, store, chosen, reading, running, happened, meant,
                   unwritten, keptAccount, moved, fits, turnedDown>>

(***************************************************************************)
(* A turn.                                                                 *)
(***************************************************************************)
\* _process_with_account: the selection is kept from the session's first turn on. One
\* turn runs at a time: the chats meet in the file and the store alone.
PinnedTurnStarts(c) ==
    /\ \A d \in PinChats : running[d] = Resting
    /\ Problem(c) = "no"
    /\ running' = [running EXCEPT ![c] =
           [on |-> "turn", account |-> Selection(c).name, first |-> Selection(c).name,
            pool |-> Selection(c).pool, base |-> BaseProfile(c), pin |-> PinsNow[c],
            runs |-> Current(c), row |-> IF c = "mapped" THEN conf.row ELSE "none",
            touched |-> FALSE]]
    /\ chosen' = [chosen EXCEPT ![c] = Selection(c)]
    /\ keptAccount' = [keptAccount EXCEPT ![c] =
           IF @ = "unset" THEN Selection(c).name ELSE @]
    /\ pins' = PinsNow /\ modelsLoaded' = TRUE
    /\ UNCHANGED <<conf, listsReadable, store, reading, happened, meant, unwritten, moved,
                   fits, turnedDown>>

\* The configuration does not resolve, or the selection cannot be read or kept: the
\* turn is not run, on that or on any other account.
PinnedTurnRefused(c) ==
    /\ running[c] = Resting
    /\ turnedDown' = (IF Problem(c) = "row" THEN turnedDown \cup {c} ELSE turnedDown)
    /\ UNCHANGED <<conf, listsReadable, pins, modelsLoaded, store, chosen, reading, running,
                   happened, meant, unwritten, keptAccount, moved, fits>>

\* The mutant: the next account is laid over what the last one ran on.
SwitchedOver(r, name) == OnAccount(r.runs, name, NoPin)

\* apply_profile again, from the base and the pins the profile carries.
Switched(r, name) == OnAccount(r.base, name, r.pin)

\* account_fallback.run: an account of the pool that ran out, and the next one.
AccountRunsOut(c) ==
    LET r == running[c]
    IN  /\ r # Resting /\ r.pool /\ r.account = r.first
        /\ \E name \in DOMAIN Registry \ {r.account} :
               running' = [running EXCEPT ![c].account = name, ![c].runs = Switched(r, name)]
        /\ UNCHANGED <<conf, listsReadable, pins, modelsLoaded, store, chosen, reading,
                       happened, meant, unwritten, keptAccount, moved, fits, turnedDown>>

\* The reply is there. Through ollama the context is not reported, and an older reading
\* stays; after a pool's turn the profile is read again, and one that does not resolve
\* ends in an error.
PinnedTurnEnds(c) ==
    LET r == running[c]
        reports == r.runs.mode # "ollama" /\ (r.pool => Problem(c) = "no")
    IN  /\ r # Resting /\ running' = [running EXCEPT ![c] = Resting]
        /\ IF r.account = r.first THEN UNCHANGED <<chosen, keptAccount>>
           ELSE /\ chosen' = [chosen EXCEPT ![c] = [name |-> r.account, pool |-> TRUE]]
                /\ keptAccount' = [keptAccount EXCEPT ![c] = r.account]
        /\ reading' = [reading EXCEPT ![c] = IF reports THEN r.runs.model ELSE @]
        /\ moved' = [moved EXCEPT ![c] =
               IF reports THEN r.touched
               ELSE @ \/ (reading[c] # "none" /\ r.account # r.first)]
        /\ UNCHANGED <<conf, listsReadable, pins, modelsLoaded, store, happened, meant,
                       unwritten, fits, turnedDown>>

\* An error or a stop; nothing is measured, and no account remembered.
PinnedTurnFails(c) ==
    /\ running[c] # Resting /\ running' = [running EXCEPT ![c] = Resting]
    /\ UNCHANGED <<conf, listsReadable, pins, modelsLoaded, store, chosen, reading, happened,
                   meant, unwritten, keptAccount, moved, fits, turnedDown>>

EditsConf ==
    /\ Happens /\ conf' \in Confs \ {conf}
    /\ moved' = [c \in PinChats |-> reading[c] # "none"]
    /\ running' = [c \in PinChats |-> IF running[c] = Resting THEN Resting
                                      ELSE [running[c] EXCEPT !.touched = TRUE]]
    /\ UNCHANGED <<listsReadable, pins, modelsLoaded, store, chosen, reading, meant,
                   unwritten, keptAccount, fits, turnedDown>>

\* The CLI's cache is fetched or removed, or `ollama list` fails.
ListsChange ==
    /\ Happens /\ listsReadable' = ~listsReadable
    /\ UNCHANGED <<conf, pins, modelsLoaded, store, chosen, reading, running, meant,
                   unwritten, keptAccount, moved, fits, turnedDown>>

\* The daemon is started again, once the preflight lets it; what was not written is
\* gone from then on.
DaemonBack ==
    /\ Happens /\ StartsOn(conf)
    /\ pins' = NoPins /\ modelsLoaded' = FALSE /\ reading' = [c \in PinChats |-> "none"]
    /\ running' = [c \in PinChats |-> Resting]
    /\ meant' = (IF unwritten THEN FromStore ELSE meant) /\ unwritten' = FALSE
    /\ moved' = [c \in PinChats |-> FALSE]
    /\ fits' = (IF unwritten THEN [c \in PinChats |-> FALSE] ELSE fits)
    /\ UNCHANGED <<conf, listsReadable, store, chosen, keptAccount, turnedDown>>

PinNext ==
    \/ \E c \in PinChats :
           \/ \E said \in Said[c], write \in {"done", "denied", "torn"} :
                  ModelCommand(c, said[1], said[2], write)
           \/ AsksWhere(c) \/ PinnedTurnStarts(c) \/ PinnedTurnRefused(c)
           \/ AccountRunsOut(c) \/ PinnedTurnEnds(c) \/ PinnedTurnFails(c)
    \/ EditsConf \/ ListsChange \/ DaemonBack

PinSpec == PinInit /\ [][PinNext]_pinVars

-----------------------------------------------------------------------------
PinTypeOK ==
    /\ conf \in Confs /\ listsReadable \in BOOLEAN /\ modelsLoaded \in BOOLEAN
    /\ DOMAIN pins = PinChats /\ DOMAIN meant = PinChats
    /\ store = TornStore \/ DOMAIN store = PinChats
    /\ \A c \in PinChats : chosen[c].name \in {"unset", "blank"} \cup DOMAIN Registry
    /\ \A c \in PinChats : running[c].account \in {"blank"} \cup DOMAIN Registry
    /\ happened \in 0 .. MaxHappens /\ unwritten \in BOOLEAN
    /\ \A c \in PinChats : moved[c] \in BOOLEAN /\ fits[c] \in BOOLEAN
    /\ turnedDown \subseteq PinChats

\* Every chat is on the pin it was told of, across restarts and the commands of other
\* chats, unless the write of it failed (_overrides, _save_model_overrides).
PinsAreKept == PinsNow = meant

\* Every run of a turn, on its first account or on the next, is on the pinned fields,
\* under them on what its account says, and under that on the configuration of its
\* start (current_profile, apply_profile).
RunsAsLaid ==
    \A c \in PinChats : running[c] # Resting =>
        LET r == running[c]
            said == IF r.account = "blank" THEN "blank" ELSE Registry[r.account].model
        IN  /\ r.pin.model # "blank" => r.runs.model = r.pin.model
            /\ r.runs.effort = (IF r.pin.effort # "blank" THEN r.pin.effort ELSE r.base.effort)
            /\ r.pin.model = "blank" /\ said # "blank" => r.runs.model = said
            /\ r.pin.model = "blank" /\ said = "blank" /\ r.runs.mode = r.base.mode =>
                   r.runs.model = r.base.model

\* A session begins its turns on the account it was given or moved to, whatever becomes
\* of the routes (selection, remember).
SessionsKeepAccounts ==
    \A c \in PinChats : running[c] # Resting => running[c].first = keptAccount[c]

\* A row that names no profile stops its own channel, which runs on nothing else, and
\* no other (channel_profile).
RowsFailTheirOwn ==
    /\ "other" \notin turnedDown
    /\ running["mapped"] = Resting \/ running["mapped"].row # "missing"

\* The context that automatic compaction measures is that of the model the chat runs
\* on, unless the file was edited or a command came while the turn ran
\* (_apply_model_change, _forget_context).
ReadingIsTheModels ==
    \A c \in PinChats : reading[c] # "none" /\ ~moved[c] => reading[c] = Current(c).model

\* An effort accepted together with a model of claude's catalogue is one that model
\* takes (parse).
EffortFits ==
    \A c \in PinChats : fits[c] /\ pins[c].model # "blank" /\ pins[c].effort # "blank" =>
        LET name == pins[c].model
            id == IF name \in DOMAIN Aliases THEN Aliases[name] ELSE name
        IN  id \in DOMAIN Levels => pins[c].effort \in Levels[id]

PinsHold ==
    PinsAreKept /\ RunsAsLaid /\ SessionsKeepAccounts /\ RowsFailTheirOwn
    /\ ReadingIsTheModels /\ EffortFits
=============================================================================
