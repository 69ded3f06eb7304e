---------------------------- MODULE PaneDialogs ----------------------------
(***************************************************************************)
(* Permission dialogs that claude draws in a chat's tmux pane, and the     *)
(* relays that answer them with keystrokes (permissions.py).  A hook posts *)
(* /notify when claude decides to ask; a task then reads the dialog off    *)
(* the pane, asks the operator, and types the answer into whatever is on   *)
(* the screen by then.  The pane has one name for all turns of a session.  *)
(***************************************************************************)
EXTENDS Naturals, Sequences

CONSTANTS
    MaxDialogs,   \* bound on the dialogs, and on the relays
    MaxPaneTurns  \* bound on the turns

ASSUME DialogAssumption == MaxDialogs \in Nat /\ MaxPaneTurns \in Nat

VARIABLES
    paneTurn,  \* turns started so far
    screen,    \* what the pane shows, with the number of a dialog
    dialogs,   \* dialogs so far
    unposted,  \* dialogs whose hook has yet to post
    relays,    \* the relays so far, each [at, read, allowed]
    hits,      \* ghost: <<dialog read, dialog answered>> of every key that answered one
    disturbed  \* ghost: a turn was stopped, or a dialog answered by hand, under a relay

dialogVars == <<paneTurn, screen, dialogs, unposted, relays, hits, disturbed>>

NoPane == <<"no pane", 0>>
Working == <<"work", 0>>
Input == <<"input", 0>>     \* claude waits for a message, its turn is not over
Asked == {"drawing", "dialog", "odd"}
AtWork == {r \in DOMAIN relays : relays[r].at # "done"}

DialogInit ==
    /\ paneTurn = 0 /\ screen = NoPane /\ dialogs = 0 /\ unposted = {}
    /\ relays = <<>> /\ hits = {} /\ disturbed = FALSE

-----------------------------------------------------------------------------
(* Claude, in the pane.                                                    *)

PaneStarts ==
    /\ screen = NoPane /\ paneTurn < MaxPaneTurns /\ paneTurn' = paneTurn + 1
    /\ screen' = Working
    /\ UNCHANGED <<dialogs, unposted, relays, hits, disturbed>>

PaneAsks ==
    /\ screen = Working /\ dialogs < MaxDialogs
    /\ dialogs' = dialogs + 1 /\ screen' = <<"drawing", dialogs + 1>>
    /\ unposted' = unposted \union {dialogs + 1}
    /\ UNCHANGED <<paneTurn, relays, hits, disturbed>>

\* Painted, in a form parse_dialog can read or not.
Painted(form) ==
    /\ screen[1] = "drawing" /\ form \in {"dialog", "odd"} /\ screen' = <<form, screen[2]>>
    /\ UNCHANGED <<paneTurn, dialogs, unposted, relays, hits, disturbed>>

PaneEnds ==
    /\ screen = Working /\ screen' = NoPane
    /\ UNCHANGED <<paneTurn, dialogs, unposted, relays, hits, disturbed>>

\* The turn is stopped, or an operator attached to the pane answers the dialog.
PaneStopped ==
    /\ screen # NoPane /\ screen' = NoPane
    /\ disturbed' = (disturbed \/ AtWork # {} \/ unposted # {})
    /\ UNCHANGED <<paneTurn, dialogs, unposted, relays, hits>>

ByHand ==
    /\ screen[1] \in Asked /\ screen' = Working /\ disturbed' = TRUE
    /\ UNCHANGED <<paneTurn, dialogs, unposted, relays, hits>>

-----------------------------------------------------------------------------
(* A relay.                                                                *)

Relay == [at |-> "reading", read |-> 0, allowed |-> FALSE]

\* Mutant: the hook is installed for every notification.
NotifiedOfAll ==
    /\ Len(relays) < MaxDialogs /\ screen # NoPane /\ relays' = Append(relays, Relay)
    /\ UNCHANGED <<paneTurn, screen, dialogs, unposted, hits, disturbed>>
\* _handle_notify, of a hook that fires for permission prompts only.
Notified ==
    \E d \in unposted :
        /\ unposted' = unposted \ {d} /\ relays' = Append(relays, Relay)
        /\ UNCHANGED <<paneTurn, screen, dialogs, hits, disturbed>>

Moves(r, from, to) == relays[r].at = from /\ relays' = [relays EXCEPT ![r] = to]

\* read_dialog
ReadsDialog(r) ==
    /\ screen[1] = "dialog"
    /\ Moves(r, "reading", [relays[r] EXCEPT !.at = "asking", !.read = screen[2]])
    /\ UNCHANGED <<paneTurn, screen, dialogs, unposted, hits, disturbed>>

\* No dialog could be read in time: Escape, which can only refuse.
Refuses(r) ==
    /\ screen[1] # "dialog"
    /\ Moves(r, "reading",
             [relays[r] EXCEPT !.at = IF screen = NoPane THEN "done" ELSE "saying"])
    /\ screen' = IF screen = NoPane THEN NoPane ELSE Input
    /\ UNCHANGED <<paneTurn, dialogs, unposted, hits, disturbed>>

\* broker.check: the operator's answer, a standing grant or a refusal unasked.
Decided(r, yes) ==
    /\ Moves(r, "asking", [relays[r] EXCEPT !.at = "typing", !.allowed = yes])
    /\ UNCHANGED <<paneTurn, screen, dialogs, unposted, hits, disturbed>>

\* answer_dialog: a key of the dialog that was read, typed into what is there now.
TypesKey(r) ==
    /\ Moves(r, "typing",
             [relays[r] EXCEPT !.at = IF screen = NoPane \/ relays[r].allowed
                                      THEN "done"
                                      ELSE "saying"])
    /\ IF screen[1] \in Asked
       THEN /\ hits' = hits \union {<<relays[r].read, screen[2]>>}
            /\ screen' = IF relays[r].allowed THEN Working ELSE Input
       ELSE UNCHANGED <<hits, screen>>
    /\ UNCHANGED <<paneTurn, dialogs, unposted, disturbed>>

\* _deliver_refusal: a message and Enter, without which the turn would not end.
SaysRefusal(r) ==
    /\ Moves(r, "saying", [relays[r] EXCEPT !.at = "done"])
    /\ IF screen[1] \in Asked
       THEN hits' = hits \union {<<0, screen[2]>>} ELSE hits' = hits
    /\ screen' = IF screen[1] \in Asked \/ screen = Input THEN Working ELSE screen
    /\ UNCHANGED <<paneTurn, dialogs, unposted, disturbed>>

DialogNext ==
    \/ PaneStarts \/ PaneAsks \/ PaneEnds \/ PaneStopped \/ ByHand \/ Notified
    \/ \E form \in {"dialog", "odd"} : Painted(form)
    \/ \E r \in DOMAIN relays :
         \/ ReadsDialog(r) \/ Refuses(r) \/ TypesKey(r) \/ SaysRefusal(r)
         \/ \E yes \in BOOLEAN : Decided(r, yes)

DialogSpec == DialogInit /\ [][DialogNext]_dialogVars

-----------------------------------------------------------------------------
\* The types of the variables.
DialogTypeOK ==
    /\ paneTurn \in 0..MaxPaneTurns /\ dialogs \in 0..MaxDialogs
    /\ unposted \subseteq 1..MaxDialogs /\ hits \subseteq (0..MaxDialogs) \X (1..MaxDialogs)
    /\ screen[1] \in Asked \union {"no pane", "work", "input"} /\ disturbed \in BOOLEAN
    /\ \A r \in DOMAIN relays :
         relays[r].at \in {"reading", "asking", "typing", "saying", "done"}

\* A key reaches the dialog it was read from, and the words of a refusal no dialog at all,
\* unless the turn was stopped or the dialog answered by hand meanwhile: no call is decided
\* by an answer given to another.
AnswersWhatItRead == disturbed \/ \A hit \in hits : hit[1] = hit[2]

\* A dialog on the screen has a relay at work, or one to come: the turn does not wait for
\* an answer nobody will give.
NoDialogIsStranded == screen[1] \in Asked => disturbed \/ unposted # {} \/ AtWork # {}

\* Nor is a turn left waiting for the message that a refusal owes it.
NoRefusalIsSilent == screen = Input => disturbed \/ \E r \in AtWork : relays[r].at = "saying"

DialogsAreAnswered == AnswersWhatItRead /\ NoDialogIsStranded /\ NoRefusalIsSilent
=============================================================================
