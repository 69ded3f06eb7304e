----------------------------- MODULE TurnJournal -----------------------------
(***************************************************************************)
(* turns.py: TurnJournal, the pending-turn file of one chat frontend.  An  *)
(* accepted turn is recorded before it can run, marked when an agent is    *)
(* about to start for it, forgotten when nothing is owed any more, and at  *)
(* the next start taken: replayed a bounded number of times, or parked in  *)
(* the recovery file.  Every operation replaces a file atomically.         *)
(*                                                                         *)
(* The operators are actions on the two files and the clock; ChatTurns     *)
(* composes them with the orchestrator.  Journal writes that fail are not  *)
(* modelled.                                                               *)
(***************************************************************************)
EXTENDS Integers, FiniteSets

CONSTANTS Turns,      \* turn ids; time-sortable in the code, hence numbers
          MaxReplays, \* MAX_REPLAYS
          Ttl,        \* DEFAULT_TTL_S, in clock units
          MaxClock    \* bound: no time is later than this

ASSUME JournalAssumption ==
  /\ Turns \subseteq Nat \ {0}
  /\ MaxReplays \in Nat
  /\ Ttl \in Nat
  /\ MaxClock \in Nat

VARIABLES journal, \* <platform>.turns.json: each turn's PendingTurn, or Blank
          parked,  \* <platform>.turns.recovery.json: the turns held there
          clock    \* wall clock

journalVars == <<journal, parked, clock>>

Entries == [phase : {"absent", "queued", "dispatched"}, replays : Nat, at : Nat]
Blank == [phase |-> "absent", replays |-> 0, at |-> 0]

JournalTypeOK ==
  /\ journal \in [Turns -> Entries]
  /\ parked \in SUBSET Turns
  /\ clock \in Nat

JournalInit ==
  /\ journal = [t \in Turns |-> Blank]
  /\ parked = {}
  /\ clock = 0

Pending == {t \in Turns : journal[t].phase # "absent"}

-----------------------------------------------------------------------------
\* record, for a turn that was just accepted.
Record(t) ==
  /\ journal' = [journal EXCEPT ![t] = [phase |-> "queued", replays |-> 0, at |-> clock]]
  /\ UNCHANGED <<parked, clock>>

\* Mutant: dispatch keeps the acceptance time.
MarkDispatchedKeepsClock(t) ==
  /\ journal' = [journal EXCEPT ![t].phase = IF @ = "queued" THEN "dispatched" ELSE @]
  /\ UNCHANGED <<parked, clock>>

\* mark_dispatched: restarts the entry's clock, unless the entry is gone or a
\* former attempt marked it already.
MarkDispatched(t) ==
  /\ journal' = [journal EXCEPT ![t] =
                   IF @.phase = "queued" THEN [@ EXCEPT !.phase = "dispatched", !.at = clock]
                   ELSE @]
  /\ UNCHANGED <<parked, clock>>

\* forget, for each turn of S.
Forget(S) ==
  /\ journal' = [t \in Turns |-> IF t \in S THEN Blank ELSE journal[t]]
  /\ UNCHANGED <<parked, clock>>

Park(t) ==
  /\ parked' = parked \union {t}
  /\ UNCHANGED <<journal, clock>>

-----------------------------------------------------------------------------
(* take, at the start of a daemon.                                         *)

Stale(t) == clock - journal[t].at > Ttl
Exhausted(t) == journal[t].replays >= MaxReplays
Parkable == {t \in Pending : Stale(t) \/ Exhausted(t)}
Replayable == Pending \ Parkable

\* Mutant: the reservation is returned but not written.
TakeUncounted ==
  /\ journal' = [t \in Turns |-> IF t \in Parkable THEN Blank ELSE journal[t]]
  /\ parked' = parked \union Parkable
  /\ UNCHANGED clock

\* Parked turns leave the journal, the others' replay is counted there.
Take ==
  /\ journal' = [t \in Turns |->
                   IF t \in Parkable THEN Blank
                   ELSE IF t \in Pending THEN [journal[t] EXCEPT !.replays = @ + 1]
                   ELSE journal[t]]
  /\ parked' = parked \union Parkable
  /\ UNCHANGED clock

\* The process dies inside take: some turns are parked, the journal is as it was.
TakeCut ==
  /\ \E S \in SUBSET Parkable : parked' = parked \union S
  /\ UNCHANGED <<journal, clock>>

Tick ==
  /\ clock < MaxClock
  /\ clock' = clock + 1
  /\ UNCHANGED <<journal, parked>>
=============================================================================
