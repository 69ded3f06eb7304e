-------------------------- MODULE BrokeredCommand --------------------------
(***************************************************************************)
(* One command the agent's shim asks the command broker to run             *)
(* (commands.py): the child's three pipes, the broker that feeds one and   *)
(* reads the others under a cap, the run's timeout, and the broker's stop. *)
(* A unit of data stands for as much as a pipe and its buffer hold parts   *)
(* of; the child reads and writes in any order it likes, and does nothing  *)
(* else while what it wants to do next cannot be done.                     *)
(***************************************************************************)
EXTENDS Naturals, FiniteSets

CONSTANTS
    MaxInput,   \* the request's stdin, in units
    Hold,       \* what the writer may still hold when drain returns
    InRoom,     \* the child's stdin pipe
    OutRoom,    \* each output pipe with its reader's buffer
    StreamCap,  \* MAX_STREAM_BYTES
    MaxWrites   \* bound on what the child writes to each stream

ASSUME CommandAssumption ==
    /\ {MaxInput, Hold, MaxWrites} \subseteq Nat
    /\ {InRoom, OutRoom, StreamCap} \subseteq Nat \ {0}

Streams == {"out", "err"}

VARIABLES
    commandTurn,            \* the turn's token: "none", "live", "revoked"
    server,                 \* the broker: "up", "draining", "stopped"
    commandStage,           \* of the request: "none", "feeding", "reading", "waiting",
                            \* "ok", "capped", "timedOut", "refused", "cancelled"
    unsent,                 \* units of stdin the writer holds
    inPipe, closed,         \* units in the child's stdin, and whether it was closed
    child,                  \* "none", "running", "exited", "killed"
    want,                   \* what the child does next: "read", "out", "err", "sleep", "exit"
    wrote, buffered, kept,  \* per stream: written, not yet read, read
    over,                   \* per stream: its reader is done: "no", "eof", "cap"
    holder,                 \* a process the child left holds the pipes open
    slept                   \* ghost: the child has slept

commandVars == <<commandTurn, server, commandStage, unsent, inPipe, closed, child, want, wrote,
                 buffered, kept, over, holder, slept>>

CommandInit ==
    /\ commandTurn = "none" /\ server = "up" /\ commandStage = "none"
    /\ unsent = 0 /\ inPipe = 0 /\ closed = FALSE
    /\ child = "none" /\ want = "sleep"
    /\ wrote = [s \in Streams |-> 0] /\ buffered = [s \in Streams |-> 0]
    /\ kept = [s \in Streams |-> 0] /\ over = [s \in Streams |-> "no"]
    /\ holder = FALSE /\ slept = FALSE

data == <<unsent, inPipe, closed, wrote, buffered, kept, over>>

-----------------------------------------------------------------------------
(* The turn and the request.                                               *)

\* agent_env and revoke_token: a token for one turn and its workspace.
IssueToken ==
    /\ commandTurn = "none" /\ server = "up" /\ commandTurn' = "live"
    /\ UNCHANGED <<server, commandStage, child, want, holder, slept, data>>
RevokeToken ==
    /\ commandTurn = "live" /\ commandTurn' = "revoked"
    /\ UNCHANGED <<server, commandStage, child, want, holder, slept, data>>

\* _handle and _run: an unknown token, a command that is not allowed or a spawn
\* that fails starts nothing.
Refuse ==
    /\ commandStage = "none" /\ server = "up" /\ commandStage' = "refused"
    /\ UNCHANGED <<commandTurn, server, child, want, holder, slept, data>>
RunCommand(size) ==
    /\ commandStage = "none" /\ server = "up" /\ commandTurn = "live"
    /\ commandStage' = "feeding" /\ unsent' = size
    /\ child' = "running" /\ want' \in {"read", "out", "err", "sleep", "exit"}
    /\ slept' = (want' = "sleep")
    /\ UNCHANGED <<commandTurn, server, holder, inPipe, closed, wrote, buffered, kept, over>>

-----------------------------------------------------------------------------
(* The child, and the event loop that moves what the pipes hold.           *)

Chooses ==
    want' \in {"read", "out", "err", "sleep", "exit"} /\ slept' = (slept \/ want' = "sleep")

ChildReads ==
    /\ child = "running" /\ want = "read" /\ (inPipe > 0 \/ (closed /\ unsent = 0))
    /\ inPipe' = IF inPipe > 0 THEN inPipe - 1 ELSE 0
    /\ Chooses
    /\ UNCHANGED <<commandTurn, server, commandStage, child, holder, unsent, closed, wrote,
                   buffered, kept, over>>

ChildWrites(s) ==
    /\ child = "running" /\ want = s
    /\ buffered[s] < OutRoom /\ wrote[s] < MaxWrites
    /\ wrote' = [wrote EXCEPT ![s] = @ + 1]
    /\ buffered' = [buffered EXCEPT ![s] = @ + 1]
    /\ Chooses
    /\ UNCHANGED <<commandTurn, server, commandStage, child, holder, unsent, inPipe, closed,
                   kept, over>>

\* It wakes, or what it wanted to write is more than the model follows.
ChildTurns ==
    /\ child = "running"
    /\ want = "sleep" \/ \E s \in Streams : want = s /\ wrote[s] = MaxWrites
    /\ Chooses /\ want' # want
    /\ UNCHANGED <<commandTurn, server, commandStage, child, holder, data>>

\* It exits, and may leave a process of its group with the pipes.
ChildExits(leaves) ==
    /\ child = "running" /\ want = "exit"
    /\ child' = "exited" /\ holder' = leaves
    /\ UNCHANGED <<commandTurn, server, commandStage, want, slept, data>>
HolderEnds ==
    /\ holder /\ holder' = FALSE
    /\ UNCHANGED <<commandTurn, server, commandStage, child, want, slept, data>>

Flush ==
    /\ unsent > 0 /\ inPipe < InRoom /\ child = "running"
    /\ unsent' = unsent - 1 /\ inPipe' = inPipe + 1
    /\ UNCHANGED <<commandTurn, server, commandStage, child, want, holder, slept, closed,
                   wrote, buffered, kept, over>>

-----------------------------------------------------------------------------
(* The broker.                                                             *)

\* _collect: drain returns, or the pipe is broken; then stdin is closed.
Fed ==
    /\ commandStage = "feeding" /\ (unsent <= Hold \/ child # "running")
    /\ commandStage' = "reading" /\ closed' = TRUE
    /\ UNCHANGED <<commandTurn, server, child, want, holder, slept, unsent, inPipe, wrote,
                   buffered, kept, over>>

\* Mutant: the streams are read one after the other.
CanReadInTurn(s) ==
    commandStage = "reading" /\ over[s] = "no" /\ buffered[s] > 0
    /\ (s = "out" \/ over["out"] # "no")
\* _read_capped, one task per stream.
CanRead(s) == commandStage = "reading" /\ over[s] = "no" /\ buffered[s] > 0
ReadSome(s) ==
    /\ CanRead(s)
    /\ buffered' = [buffered EXCEPT ![s] = @ - 1]
    /\ kept' = [kept EXCEPT ![s] = @ + 1]
    /\ over' = [over EXCEPT ![s] = IF kept[s] + 1 = StreamCap THEN "cap" ELSE "no"]
    /\ UNCHANGED <<commandTurn, server, commandStage, child, want, holder, slept, unsent,
                   inPipe, closed, wrote>>

\* Mutant: the child's exit ends a stream, whatever it still holds.
EofAtExit(s) ==
    /\ commandStage = "reading" /\ over[s] = "no" /\ child # "running"
    /\ over' = [over EXCEPT ![s] = "eof"]
    /\ UNCHANGED <<commandTurn, server, commandStage, child, want, holder, slept, unsent,
                   inPipe, closed, wrote, buffered, kept>>
ReadEof(s) ==
    /\ commandStage = "reading" /\ over[s] = "no" /\ buffered[s] = 0
    /\ child # "running" /\ ~holder
    /\ over' = [over EXCEPT ![s] = "eof"]
    /\ UNCHANGED <<commandTurn, server, commandStage, child, want, holder, slept, unsent,
                   inPipe, closed, wrote, buffered, kept>>

\* _terminate: the group is killed, and the pipes closed before the wait.
Terminated ==
    /\ child' = IF child = "running" THEN "killed" ELSE child
    /\ holder' = FALSE

\* A stream is at the cap: the child is killed before the other is awaited.
CapReached ==
    /\ commandStage = "reading" /\ \E s \in Streams : over[s] = "cap"
    /\ Terminated
    /\ commandStage' = "capped"
    /\ UNCHANGED <<commandTurn, server, want, slept, data>>

\* Both streams ended: the child is waited for.
StreamsEnded ==
    /\ commandStage = "reading" /\ \A s \in Streams : over[s] = "eof"
    /\ commandStage' = "ok"
    /\ UNCHANGED <<commandTurn, server, child, want, holder, slept, data>>

\* Nothing moves but the clock.
Stuck ==
    /\ CASE child # "running" -> holder
         [] want = "sleep" -> TRUE
         [] want = "read" -> inPipe = 0 /\ ~(closed /\ unsent = 0) /\ unsent = 0
         [] want \in Streams -> buffered[want] = OutRoom /\ wrote[want] < MaxWrites
         [] OTHER -> FALSE
    /\ ~(unsent > 0 /\ inPipe < InRoom /\ child = "running")
    /\ ~(commandStage = "feeding" /\ (unsent <= Hold \/ child # "running"))
    /\ ~\E s \in Streams : CanRead(s) \/ over[s] = "cap"

\* The run's timeout: the group is killed, and rc is 124.
TimesOut ==
    /\ commandStage \in {"feeding", "reading"} /\ Stuck
    /\ Terminated
    /\ commandStage' = "timedOut"
    /\ UNCHANGED <<commandTurn, server, want, slept, data>>

\* stop: no new request; the one in hand gets a minute, and is cancelled then.
StopServer ==
    /\ server = "up" /\ server' = "draining"
    /\ UNCHANGED <<commandTurn, commandStage, child, want, holder, slept, data>>
CancelRequest ==
    /\ server = "draining" /\ commandStage \in {"feeding", "reading"}
    /\ commandStage' = "cancelled"
    /\ UNCHANGED <<commandTurn, server, child, want, holder, slept, data>>
Stopped ==
    /\ server = "draining" /\ commandStage \notin {"feeding", "reading"}
    /\ server' = "stopped"
    /\ commandTurn' = IF commandTurn = "live" THEN "revoked" ELSE commandTurn
    /\ UNCHANGED <<commandStage, child, want, holder, slept, data>>

CommandNext ==
    \/ IssueToken \/ RevokeToken \/ Refuse
    \/ \E size \in 0..MaxInput : RunCommand(size)
    \/ ChildReads \/ ChildTurns \/ HolderEnds \/ Flush
    \/ \E s \in Streams : ChildWrites(s) \/ ReadSome(s) \/ ReadEof(s)
    \/ \E leaves \in BOOLEAN : ChildExits(leaves)
    \/ Fed \/ CapReached \/ StreamsEnded \/ TimesOut
    \/ StopServer \/ CancelRequest \/ Stopped

CommandSpec == CommandInit /\ [][CommandNext]_commandVars

-----------------------------------------------------------------------------
CommandTypeOK ==
    /\ commandTurn \in {"none", "live", "revoked"} /\ server \in {"up", "draining", "stopped"}
    /\ unsent \in 0..MaxInput /\ inPipe \in 0..InRoom
    /\ buffered \in [Streams -> 0..OutRoom] /\ kept \in [Streams -> 0..StreamCap]
    /\ wrote \in [Streams -> 0..MaxWrites]
    /\ over \in [Streams -> {"no", "eof", "cap"}]

\* "which reports a timeout the command did not actually have" (_collect): a run
\* that timed out had a child that slept or left a process with its pipes, unless
\* the child did not read its input while the broker had yet to read its output.
TimeoutIsItsOwn ==
    commandStage = "timedOut" => slept \/ child = "exited" \/ ~closed

\* A command that ended is reported with all it wrote.
OutputIsWhole == commandStage = "ok" => kept = wrote

\* A child runs on with nobody to end it only after a cancelled request.
WatchedToItsEnd ==
    child = "running" => commandStage \in {"feeding", "reading", "cancelled"}

CommandEndsWell == TimeoutIsItsOwn /\ OutputIsWhole /\ WatchedToItsEnd

\* The same with no exception for the input.
TimeoutAlwaysItsOwn == commandStage = "timedOut" => slept \/ child = "exited"
=============================================================================
